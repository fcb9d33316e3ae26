------------------------ MODULE StoreMetaIndexProofs ------------------------
(***************************************************************************)
(* Proofs about StoreMetaIndex for any finite set of keys, any sizes and   *)
(* any batches.                                                            *)
(*                                                                         *)
(* The walks of ListExact say little about what a pointer update does to   *)
(* them.  The invariant is about the pointers instead: a sequence s of the *)
(* committed keys exists that the list threads, which is to say that       *)
(* lru_next leads from the sentinel to s[1], from each s[i] to s[i + 1]    *)
(* and from the last back to the sentinel, that lru_prev leads back, and   *)
(* that no other record has pointers.  LruRemove, LruPushFront and touches *)
(* of the list are then operations on that sequence, and both walks        *)
(* compute it.                                                             *)
(***************************************************************************)
EXTENDS StoreMetaIndex, SequenceTheorems, FiniteSetTheorems, NaturalsInduction,
        WellFoundedInduction, TLAPS

Has(s, k) == \E i \in 1 .. Len(s) : s[i] = k
Distinct(s) == \A i, j \in 1 .. Len(s) : s[i] = s[j] => i = j

(* The node at a position of the ring: the sentinel is at both ends. *)
At(s, i) == IF i \in 1 .. Len(s) THEN s[i] ELSE Sentinel

Lists == [prev : [Nodes -> Nodes \cup {Null}], next : [Nodes -> Nodes \cup {Null}]]

Threads(l, s) ==
    /\ l \in Lists
    /\ s \in Seq(Keys) /\ Distinct(s)
    /\ \A i \in 0 .. Len(s) : l.next[At(s, i)] = At(s, i + 1) /\ l.prev[At(s, i + 1)] = At(s, i)
    /\ \A k \in Keys : ~Has(s, k) => l.prev[k] = Null /\ l.next[k] = Null

(* s without its element at j *)
Cut(s, j) == SubSeq(s, 1, j - 1) \o SubSeq(s, j + 1, Len(s))
Front(k, s) == <<k>> \o s

CommittedKeys == {k \in Keys : Committed(k)}

(* s is the order the list threads, of the committed keys. *)
InOrder(s) == Threads(List, s) /\ \A k \in Keys : Has(s, k) <=> Committed(k)

IndexInv ==
    /\ stat \in [Keys -> Stats \cup {Absent}]
    /\ alloc \in [Keys -> AllocSizes \cup {0}]
    /\ CountExact
    /\ \E s : InOrder(s)

----------------------------------------------------------------------------
(* Induction and recursion over data, in first-order form *)

(* A set of numbers with 0 and every successor has all of them. *)
LEMMA Induct ==
    ASSUME NEW S, 0 \in S, \A n \in Nat : n \in S => n + 1 \in S
    PROVE  Nat \subseteq S
<1> DEFINE Less == OpToRel(<, Nat)
           T == Nat \ S
<1> SUFFICES ASSUME T # {} PROVE FALSE
  OBVIOUS
<1>1. IsWellFoundedOn(Less, Nat)
  BY NatLessThanWellFounded
<1>2. \A r, s : <<r, s>> \in Less <=> r \in Nat /\ s \in Nat /\ r < s
  BY DEF OpToRel
<1> HIDE DEF Less
<1>3. PICK x \in T : \A y \in T : ~(<<y, x>> \in Less)
  <2> HIDE DEF T
  <2>1. T \subseteq Nat
    BY DEF T
  <2> QED BY <1>1, <2>1, WFMin
<1>4. x \in Nat /\ x # 0 /\ x - 1 \in Nat /\ x - 1 < x /\ (x - 1) + 1 = x
  BY <1>3
<1>5. x - 1 \in T
  BY <1>3, <1>4
<1> QED BY <1>2, <1>3, <1>4, <1>5

(* A function f computes the results of G, from x0, along the first n      *)
(* elements of s.                                                          *)
Along(f, G, x0, s, n) ==
    f[0] = x0 /\ \A i \in 1 .. n : f[i] = G[<<f[i - 1], s[i]>>]

(* A step function on X has results along every sequence.  *)
LEMMA ResultsExist ==
    ASSUME NEW X, NEW E, NEW G \in [X \X E -> X], NEW x0 \in X, NEW s \in Seq(E)
    PROVE  \E f \in [0 .. Len(s) -> X] : Along(f, G, x0, s, Len(s))
<1> DEFINE S == {n \in Nat : n <= Len(s) => \E f \in [0 .. n -> X] : Along(f, G, x0, s, n)}
<1>1. 0 \in S
  <2>1. [i \in 0 .. 0 |-> x0] \in [0 .. 0 -> X]
    OBVIOUS
  <2>2. Along([i \in 0 .. 0 |-> x0], G, x0, s, 0)
    BY DEF Along
  <2> QED BY <2>1, <2>2
<1>2. ASSUME NEW n \in Nat, n \in S PROVE n + 1 \in S
  <2> SUFFICES ASSUME n + 1 <= Len(s)
               PROVE  \E f \in [0 .. n + 1 -> X] : Along(f, G, x0, s, n + 1)
    OBVIOUS
  <2>1. PICK f \in [0 .. n -> X] : Along(f, G, x0, s, n)
    BY <1>2
  <2>2. s[n + 1] \in E
    OBVIOUS
  <2>3. PICK y \in X : y = G[<<f[n], s[n + 1]>>]
    BY <2>2
  <2> DEFINE g == [i \in 0 .. n + 1 |-> IF i = n + 1 THEN y ELSE f[i]]
  <2>4. g \in [0 .. n + 1 -> X]
    BY <2>3
  <2>5. g[0] = x0
    BY <2>1 DEF Along
  <2>6. ASSUME NEW i \in 1 .. n + 1 PROVE g[i] = G[<<g[i - 1], s[i]>>]
    <3>1. g[i - 1] = f[i - 1]
      OBVIOUS
    <3>2. CASE i = n + 1
      <4>1. g[i] = y /\ i - 1 = n
        BY <3>2
      <4> QED BY <2>3, <3>1, <4>1, <3>2
    <3>3. CASE i \in 1 .. n
      <4>1. g[i] = f[i]
        BY <3>3
      <4> QED BY <2>1, <3>1, <3>3, <4>1 DEF Along
    <3> QED BY <3>2, <3>3
  <2> HIDE DEF g
  <2> QED BY <2>4, <2>5, <2>6 DEF Along
<1>3. Nat \subseteq S
  <2> HIDE DEF S
  <2> QED BY <1>1, <1>2, Induct
<1>4. Len(s) \in Nat
  OBVIOUS
<1> QED BY <1>3, <1>4

----------------------------------------------------------------------------
(* The ring *)

LEMMA CutFacts ==
    ASSUME NEW S, NEW s \in Seq(S), NEW j \in 1 .. Len(s)
    PROVE  /\ Cut(s, j) \in Seq(S) /\ Len(Cut(s, j)) = Len(s) - 1
           /\ \A i \in 1 .. Len(s) - 1 : Cut(s, j)[i] = IF i < j THEN s[i] ELSE s[i + 1]
<1>1. PICK u : u = SubSeq(s, 1, j - 1)
  OBVIOUS
<1>2. PICK v : v = SubSeq(s, j + 1, Len(s))
  OBVIOUS
<1>3. u \in Seq(S) /\ Len(u) = j - 1 /\ \A i \in 1 .. j - 1 : u[i] = s[i]
  BY <1>1, SubSeqProperties
<1>4. v \in Seq(S) /\ Len(v) = Len(s) - j /\ \A i \in 1 .. Len(s) - j : v[i] = s[j + i]
  BY <1>2, SubSeqProperties
<1>5. /\ u \o v \in Seq(S) /\ Len(u \o v) = Len(u) + Len(v)
      /\ \A i \in 1 .. Len(u) + Len(v) : (u \o v)[i] = IF i <= Len(u) THEN u[i] ELSE v[i - Len(u)]
  BY <1>3, <1>4, ConcatProperties
<1>6. Cut(s, j) = u \o v
  BY <1>1, <1>2 DEF Cut
<1>7. ASSUME NEW i \in 1 .. Len(s) - 1
      PROVE  (u \o v)[i] = IF i < j THEN s[i] ELSE s[i + 1]
  <2>1. CASE i < j
    BY <1>3, <1>4, <1>5, <2>1
  <2>2. CASE ~(i < j)
    <3>1. (u \o v)[i] = v[i - (j - 1)]
      BY <1>3, <1>4, <1>5, <2>2
    <3>2. v[i - (j - 1)] = s[j + (i - (j - 1))] /\ j + (i - (j - 1)) = i + 1
      BY <1>4, <2>2
    <3> QED BY <2>2, <3>1, <3>2
  <2> QED BY <2>1, <2>2
<1>8. u \o v \in Seq(S) /\ Len(u \o v) = Len(s) - 1
  BY <1>3, <1>4, <1>5
<1> HIDE DEF Cut
<1> QED BY <1>6, <1>7, <1>8, Zenon

LEMMA FrontFacts ==
    ASSUME NEW S, NEW s \in Seq(S), NEW k \in S
    PROVE  /\ Front(k, s) \in Seq(S) /\ Len(Front(k, s)) = Len(s) + 1
           /\ Front(k, s)[1] = k
           /\ \A i \in 2 .. Len(s) + 1 : Front(k, s)[i] = s[i - 1]
<1>1. PICK u : u = <<k>>
  OBVIOUS
<1>2. u \in Seq(S) /\ Len(u) = 1 /\ u[1] = k
  BY <1>1
<1>3. Front(k, s) = u \o s
  BY <1>1 DEF Front
<1>4. /\ u \o s \in Seq(S) /\ Len(u \o s) = Len(u) + Len(s)
      /\ \A i \in 1 .. Len(u) + Len(s) : (u \o s)[i] = IF i <= Len(u) THEN u[i] ELSE s[i - Len(u)]
  BY <1>2, ConcatProperties
<1> QED BY <1>2, <1>3, <1>4

(* From the sentinel on, the ring has no node twice; nor up to it. *)
LEMMA AtFacts ==
    ASSUME NEW s \in Seq(Keys), Distinct(s)
    PROVE  /\ \A i : At(s, i) \in Nodes
           /\ \A i \in 1 .. Len(s) : At(s, i) = s[i] /\ s[i] \in Keys /\ s[i] # Sentinel
           /\ At(s, 0) = Sentinel /\ At(s, Len(s) + 1) = Sentinel
           /\ \A i, j \in 0 .. Len(s) : At(s, i) = At(s, j) => i = j
           /\ \A i, j \in 1 .. Len(s) + 1 : At(s, i) = At(s, j) => i = j
<1>1. \A i \in 1 .. Len(s) : At(s, i) = s[i] /\ s[i] \in Keys /\ s[i] # Sentinel
  BY IndexAssumption DEF At
<1>2. At(s, 0) = Sentinel /\ At(s, Len(s) + 1) = Sentinel
  BY DEF At
<1>3. \A i : At(s, i) \in Nodes
  BY <1>1 DEF At, Nodes
<1>4. \A i, j \in 1 .. Len(s) : At(s, i) = At(s, j) => i = j
  BY <1>1 DEF Distinct
<1>5. \A i \in 0 .. Len(s) + 1 : i = 0 \/ i \in 1 .. Len(s) \/ i = Len(s) + 1
  OBVIOUS
<1>6. \A i \in 1 .. Len(s) : At(s, i) # At(s, 0) /\ At(s, i) # At(s, Len(s) + 1)
  BY <1>1, <1>2
<1>7. \A i, j \in 0 .. Len(s) : At(s, i) = At(s, j) => i = j
  BY <1>4, <1>5, <1>6
<1>8. \A i, j \in 1 .. Len(s) + 1 : At(s, i) = At(s, j) => i = j
  BY <1>4, <1>5, <1>6
<1> QED BY <1>1, <1>2, <1>3, <1>7, <1>8

(* LruRemove of a linked record takes it out of the sequence. *)
LEMMA RemoveThreads ==
    ASSUME NEW l, NEW s, Threads(l, s), NEW j \in 1 .. Len(s)
    PROVE  Threads(LruRemove(l, s[j]), Cut(s, j))
<1>0. l \in Lists /\ s \in Seq(Keys) /\ Distinct(s) /\ Len(s) \in Nat
  BY DEF Threads
<1>1. PICK k \in Keys : k = s[j]
  BY <1>0
<1>2. PICK p \in Nodes, q \in Nodes : p = At(s, j - 1) /\ q = At(s, j + 1)
  BY <1>0, AtFacts
<1>3. l.prev[k] = p /\ l.next[k] = q
  <2>1. At(s, j) = k
    BY <1>0, <1>1, AtFacts
  <2>2. l.next[At(s, j)] = At(s, j + 1)
    BY <1>0 DEF Threads
  <2>3. l.prev[At(s, (j - 1) + 1)] = At(s, j - 1) /\ (j - 1) + 1 = j
    BY <1>0 DEF Threads
  <2> QED BY <1>2, <2>1, <2>2, <2>3
<1>4. k # p /\ k # q /\ k \in Nodes
  BY <1>0, <1>1, <1>2, AtFacts DEF Nodes
<1>5. PICK m : m = LruRemove(l, k)
  OBVIOUS
<1>6. /\ m \in Lists
      /\ \A n \in Nodes : m.next[n] = IF n = k THEN Null ELSE IF n = p THEN q ELSE l.next[n]
      /\ \A n \in Nodes : m.prev[n] = IF n = k THEN Null ELSE IF n = q THEN p ELSE l.prev[n]
  BY <1>0, <1>3, <1>4, <1>5 DEF LruRemove, Lists
<1>7. PICK c : c = Cut(s, j)
  OBVIOUS
<1>8. /\ c \in Seq(Keys) /\ Len(c) = Len(s) - 1
      /\ \A i \in 1 .. Len(s) - 1 : c[i] = IF i < j THEN s[i] ELSE s[i + 1]
  BY <1>0, <1>7, CutFacts
<1>9. ASSUME NEW i \in 0 .. Len(s) PROVE At(c, i) = IF i < j THEN At(s, i) ELSE At(s, i + 1)
  BY <1>0, <1>8 DEF At
<1>10. Distinct(c)
  <2> SUFFICES ASSUME NEW a \in 1 .. Len(c), NEW b \in 1 .. Len(c), c[a] = c[b] PROVE a = b
    BY DEF Distinct
  <2>1. PICK x \in 1 .. Len(s), y \in 1 .. Len(s) :
           /\ x = IF a < j THEN a ELSE a + 1
           /\ y = IF b < j THEN b ELSE b + 1
    BY <1>0, <1>8
  <2>2. c[a] = s[x] /\ c[b] = s[y]
    BY <1>8, <2>1
  <2>3. x = y
    BY <1>0, <2>2 DEF Distinct
  <2> QED BY <2>1, <2>3
<1>11. ASSUME NEW i \in 0 .. Len(s)
       PROVE  /\ i # j => At(s, i) # k
              /\ i # j - 1 => At(s, i) # p
              /\ i # j => At(s, i + 1) # q
              /\ i + 1 # j => At(s, i + 1) # k
  <2>1. At(s, j) = k
    BY <1>0, <1>1, AtFacts
  <2>2. i + 1 \in 1 .. Len(s) + 1 /\ j + 1 \in 1 .. Len(s) + 1 /\ j \in 1 .. Len(s) + 1
        /\ j \in 0 .. Len(s) /\ j - 1 \in 0 .. Len(s)
    BY <1>0
  <2>3. i # j => At(s, i) # k
    BY <1>0, <2>1, <2>2, AtFacts
  <2>4. i # j - 1 => At(s, i) # p
    BY <1>0, <1>2, <2>2, AtFacts
  <2>5. i # j => At(s, i + 1) # q
    BY <1>0, <1>2, <2>2, AtFacts
  <2>6. i + 1 # j => At(s, i + 1) # k
    BY <1>0, <2>1, <2>2, AtFacts
  <2> QED BY <2>3, <2>4, <2>5, <2>6
<1>12. ASSUME NEW i \in 0 .. Len(c)
       PROVE  m.next[At(c, i)] = At(c, i + 1) /\ m.prev[At(c, i + 1)] = At(c, i)
  <2>0. i \in 0 .. Len(s) /\ i + 1 \in 0 .. Len(s)
    BY <1>0, <1>8
  <2>1. CASE i < j - 1
    <3>1. At(c, i) = At(s, i) /\ At(c, i + 1) = At(s, i + 1)
      BY <1>9, <2>0, <2>1
    <3>2. l.next[At(s, i)] = At(s, i + 1) /\ l.prev[At(s, i + 1)] = At(s, i)
      BY <2>0 DEF Threads
    <3>3. At(s, i) # k /\ At(s, i) # p /\ At(s, i + 1) # q /\ At(s, i + 1) # k
      BY <1>11, <2>0, <2>1
    <3> QED BY <1>0, <1>6, <3>1, <3>2, <3>3, AtFacts
  <2>2. CASE i = j - 1
    <3>1. At(c, i) = p /\ At(c, i + 1) = q
      <4>1. At(c, i) = At(s, j - 1)
        BY <1>9, <2>0, <2>2
      <4>2. At(c, i + 1) = At(s, (i + 1) + 1) /\ (i + 1) + 1 = j + 1
        BY <1>9, <2>0, <2>2
      <4> QED BY <1>2, <4>1, <4>2
    <3> QED BY <1>4, <1>6, <3>1
  <2>3. CASE i >= j
    <3>1. At(c, i) = At(s, i + 1) /\ At(c, i + 1) = At(s, (i + 1) + 1)
      BY <1>9, <2>0, <2>3
    <3>2. l.next[At(s, i + 1)] = At(s, (i + 1) + 1) /\ l.prev[At(s, (i + 1) + 1)] = At(s, i + 1)
      BY <2>0 DEF Threads
    <3>3. /\ At(s, i + 1) # k /\ At(s, i + 1) # p
          /\ At(s, (i + 1) + 1) # q /\ At(s, (i + 1) + 1) # k
      BY <1>11, <2>0, <2>3
    <3> QED BY <1>0, <1>6, <3>1, <3>2, <3>3, AtFacts
  <2> QED BY <2>0, <2>1, <2>2, <2>3
<1>13. ASSUME NEW x \in Keys, ~Has(c, x)
       PROVE  m.prev[x] = Null /\ m.next[x] = Null
  <2>0. x \in Nodes
    BY DEF Nodes
  <2>1. CASE x = k
    BY <1>6, <2>0, <2>1
  <2>2. CASE x # k
    <3>1. ~Has(s, x)
      <4> SUFFICES ASSUME NEW i \in 1 .. Len(s), s[i] = x PROVE FALSE
        BY DEF Has
      <4>1. i # j
        BY <1>1, <2>2
      <4>2. CASE i < j
        <5>1. i \in 1 .. Len(c) /\ c[i] = x
          BY <1>0, <1>8, <4>2
        <5> QED BY <1>13, <5>1 DEF Has
      <4>3. CASE i > j
        <5>1. i - 1 \in 1 .. Len(c) /\ c[i - 1] = x
          BY <1>0, <1>8, <4>3
        <5> QED BY <1>13, <5>1 DEF Has
      <4> QED BY <4>1, <4>2, <4>3
    <3>2. l.prev[x] = Null /\ l.next[x] = Null
      BY <3>1 DEF Threads
    <3>3. \A i \in 1 .. Len(s) : x # s[i]
      BY <3>1 DEF Has
    <3>4. x # Sentinel
      BY IndexAssumption
    <3>5. x # p /\ x # q
      BY <1>2, <3>3, <3>4 DEF At
    <3> QED BY <1>6, <2>0, <2>2, <3>2, <3>5
  <2> QED BY <2>1, <2>2
<1> QED BY <1>1, <1>5, <1>6, <1>7, <1>8, <1>10, <1>12, <1>13 DEF Threads

(* LruPushFront of an unlinked record makes it the first of the sequence. *)
LEMMA PushThreads ==
    ASSUME NEW l, NEW s, Threads(l, s), NEW k \in Keys, ~Has(s, k)
    PROVE  Threads(LruPushFront(l, k), Front(k, s))
<1>0. l \in Lists /\ s \in Seq(Keys) /\ Distinct(s) /\ Len(s) \in Nat
  BY DEF Threads
<1>1. PICK f \in Nodes : f = At(s, 1)
  BY <1>0, AtFacts
<1>2. l.next[Sentinel] = f
  <2>1. l.next[At(s, 0)] = At(s, 0 + 1) /\ 0 + 1 = 1
    BY <1>0 DEF Threads
  <2> QED BY <1>0, <1>1, <2>1, AtFacts
<1>3. k # Sentinel /\ k \in Nodes /\ Sentinel \in Nodes /\ k # f
  BY <1>0, <1>1, IndexAssumption DEF Nodes, At, Has
<1>4. PICK m : m = LruPushFront(l, k)
  OBVIOUS
<1>5. /\ m \in Lists
      /\ \A n \in Nodes : m.next[n] = IF n = Sentinel THEN k ELSE IF n = k THEN f ELSE l.next[n]
      /\ \A n \in Nodes : m.prev[n] = IF n = f THEN k ELSE IF n = k THEN Sentinel ELSE l.prev[n]
  BY <1>0, <1>2, <1>3, <1>4 DEF LruPushFront, Lists
<1>6. PICK c : c = Front(k, s)
  OBVIOUS
<1>7. /\ c \in Seq(Keys) /\ Len(c) = Len(s) + 1 /\ c[1] = k
      /\ \A i \in 2 .. Len(s) + 1 : c[i] = s[i - 1]
  BY ZenonT(60), <1>0, <1>6, FrontFacts
<1>8. At(c, 0) = Sentinel /\ At(c, 1) = k /\ \A i \in 2 .. Len(s) + 2 : At(c, i) = At(s, i - 1)
  BY <1>0, <1>7 DEF At
<1>9. Distinct(c)
  <2> SUFFICES ASSUME NEW a \in 1 .. Len(c), NEW b \in 1 .. Len(c), c[a] = c[b] PROVE a = b
    BY DEF Distinct
  <2>1. \A i \in 2 .. Len(c) : c[i] # k
    BY <1>0, <1>7 DEF Has
  <2>2. CASE a = 1 \/ b = 1
    BY <1>0, <1>7, <2>1, <2>2
  <2>3. CASE a \in 2 .. Len(c) /\ b \in 2 .. Len(c)
    <3>1. s[a - 1] = s[b - 1] /\ a - 1 \in 1 .. Len(s) /\ b - 1 \in 1 .. Len(s)
      BY <1>0, <1>7, <2>3
    <3>2. a - 1 = b - 1
      BY <1>0, <3>1 DEF Distinct
    <3> QED BY <3>2
  <2> QED BY <1>0, <1>7, <2>2, <2>3
<1>10. ASSUME NEW i \in 0 .. Len(c)
       PROVE  m.next[At(c, i)] = At(c, i + 1) /\ m.prev[At(c, i + 1)] = At(c, i)
  <2>1. CASE i = 0
    BY <1>3, <1>5, <1>8, <2>1
  <2>2. CASE i = 1
    <3>1. At(c, 2) = f
      BY <1>0, <1>1, <1>8
    <3> QED BY <1>3, <1>5, <1>8, <2>2, <3>1
  <2>3. CASE i \in 2 .. Len(s) + 1
    <3>1. /\ i - 1 \in 1 .. Len(s) /\ i - 1 \in 0 .. Len(s) /\ (i - 1) + 1 = i
          /\ i + 1 \in 2 .. Len(s) + 2 /\ (i + 1) - 1 = i /\ i \in 1 .. Len(s) + 1
      BY <1>0, <2>3
    <3>2. At(c, i) = At(s, i - 1) /\ At(c, i + 1) = At(s, i)
      BY <1>8, <2>3, <3>1
    <3>3. l.next[At(s, i - 1)] = At(s, i) /\ l.prev[At(s, i)] = At(s, i - 1)
      <4>1. l.next[At(s, i - 1)] = At(s, (i - 1) + 1) /\ l.prev[At(s, (i - 1) + 1)] = At(s, i - 1)
        BY <3>1 DEF Threads
      <4> QED BY <3>1, <4>1
    <3>4. At(s, i - 1) # Sentinel /\ At(s, i - 1) # k
      BY <1>0, <3>1, AtFacts DEF Has
    <3>5. At(s, i) # f
      BY <1>0, <1>1, <2>3, <3>1, AtFacts
    <3>6. At(s, i) # k
      BY <1>3 DEF At, Has
    <3> QED BY <1>0, <1>5, <3>2, <3>3, <3>4, <3>5, <3>6, AtFacts
  <2> QED BY <1>0, <1>7, <2>1, <2>2, <2>3
<1>11. ASSUME NEW x \in Keys, ~Has(c, x)
       PROVE  m.prev[x] = Null /\ m.next[x] = Null
  <2>1. x # k
    BY <1>0, <1>7, <1>11 DEF Has
  <2>2. ~Has(s, x)
    <3> SUFFICES ASSUME NEW i \in 1 .. Len(s), s[i] = x PROVE FALSE
      BY DEF Has
    <3>1. i + 1 \in 2 .. Len(c) /\ i + 1 \in 1 .. Len(c) /\ c[i + 1] = s[(i + 1) - 1] /\ (i + 1) - 1 = i
      BY <1>0, <1>7
    <3> QED BY <1>11, <3>1 DEF Has
  <2>3. l.prev[x] = Null /\ l.next[x] = Null
    BY <2>2 DEF Threads
  <2>4. x # Sentinel /\ x \in Nodes
    BY IndexAssumption DEF Nodes
  <2>5. x # f
    BY <1>1, <2>2, <2>4 DEF At, Has
  <2> QED BY <1>5, <2>1, <2>3, <2>4, <2>5
<1> QED BY <1>4, <1>5, <1>6, <1>7, <1>9, <1>10, <1>11 DEF Threads

LEMMA CutHas ==
    ASSUME NEW s \in Seq(Keys), Distinct(s), NEW j \in 1 .. Len(s), NEW x
    PROVE  Has(Cut(s, j), x) <=> Has(s, x) /\ x # s[j]
<1>1. PICK c : c = Cut(s, j)
  OBVIOUS
<1>2. /\ c \in Seq(Keys) /\ Len(c) = Len(s) - 1 /\ Len(s) \in Nat
      /\ \A i \in 1 .. Len(s) - 1 : c[i] = IF i < j THEN s[i] ELSE s[i + 1]
  BY SMTT(60), <1>1, CutFacts
<1>3. ASSUME NEW i \in 1 .. Len(c), c[i] = x PROVE Has(s, x) /\ x # s[j]
  <2>1. PICK n \in 1 .. Len(s) : n = (IF i < j THEN i ELSE i + 1) /\ n # j
    BY <1>2
  <2>2. s[n] = x
    BY <1>2, <1>3, <2>1
  <2> QED BY <2>1, <2>2 DEF Has, Distinct
<1>4. ASSUME NEW i \in 1 .. Len(s), s[i] = x, i # j PROVE Has(c, x)
  <2>1. PICK n \in 1 .. Len(c) : n = IF i < j THEN i ELSE i - 1
    BY <1>2, <1>4
  <2>2. c[n] = x
    BY <1>2, <1>4, <2>1
  <2> QED BY <2>2 DEF Has
<1> QED BY <1>1, <1>3, <1>4 DEF Has

LEMMA FrontHas ==
    ASSUME NEW s \in Seq(Keys), NEW k \in Keys, NEW x
    PROVE  Has(Front(k, s), x) <=> Has(s, x) \/ x = k
<1>1. PICK c : c = Front(k, s)
  OBVIOUS
<1>0. Len(s) \in Nat
  OBVIOUS
<1>2. /\ c \in Seq(Keys) /\ Len(c) = Len(s) + 1 /\ c[1] = k /\ Len(s) \in Nat
      /\ \A i \in 2 .. Len(s) + 1 : c[i] = s[i - 1]
  BY ZenonT(60), <1>0, <1>1, FrontFacts
<1>3. ASSUME NEW i \in 1 .. Len(c), c[i] = x PROVE Has(s, x) \/ x = k
  <2>1. CASE i = 1
    BY <1>2, <1>3, <2>1
  <2>2. CASE i # 1
    <3>1. i - 1 \in 1 .. Len(s) /\ s[i - 1] = x
      BY <1>2, <1>3, <2>2
    <3> QED BY <3>1 DEF Has
  <2> QED BY <2>1, <2>2
<1>4. ASSUME NEW i \in 1 .. Len(s), s[i] = x PROVE Has(c, x)
  <2>1. i + 1 \in 1 .. Len(c) /\ i + 1 \in 2 .. Len(s) + 1 /\ (i + 1) - 1 = i
    BY <1>2
  <2>2. c[i + 1] = x
    BY <1>2, <1>4, <2>1
  <2> QED BY <2>1, <2>2 DEF Has
<1>5. Has(c, k)
  <2>1. 1 \in 1 .. Len(c)
    BY <1>2
  <2> QED BY <1>2, <2>1 DEF Has
<1> QED BY <1>1, <1>3, <1>4, <1>5 DEF Has

(* A touch moves a linked record to the front. *)
LEMMA TouchThreads ==
    ASSUME NEW l, NEW s, Threads(l, s), NEW j \in 1 .. Len(s)
    PROVE  Threads(LruTouch(l, s[j]), Front(s[j], Cut(s, j)))
<1>0. s \in Seq(Keys) /\ Distinct(s) /\ s[j] \in Keys
  BY DEF Threads
<1>1. Threads(LruRemove(l, s[j]), Cut(s, j))
  BY RemoveThreads
<1>2. ~Has(Cut(s, j), s[j])
  BY <1>0, CutHas
<1> QED BY <1>0, <1>1, <1>2, PushThreads DEF LruTouch

(* There are no more positions than keys. *)
LEMMA LengthBound ==
    ASSUME NEW s \in Seq(Keys), Distinct(s)
    PROVE  /\ Len(s) <= Cardinality(Keys) /\ Cardinality(Keys) \in Nat
           /\ Cardinality({k \in Keys : Has(s, k)}) = Len(s)
<1>0. Len(s) \in Nat /\ IsFiniteSet(Keys)
  BY IndexAssumption
<1>1. Cardinality(1 .. Len(s)) = Len(s) /\ IsFiniteSet(1 .. Len(s))
  BY SMTT(60), <1>0, FS_Interval
<1>2. s \in Bijection(1 .. Len(s), {k \in Keys : Has(s, k)})
  <2>1. s \in [1 .. Len(s) -> {k \in Keys : Has(s, k)}]
    BY DEF Has
  <2>2. IsInjective(s)
    BY DEF IsInjective, Distinct
  <2>3. \A k \in {x \in Keys : Has(s, x)} : \E i \in 1 .. Len(s) : s[i] = k
    BY DEF Has
  <2> QED BY <2>1, <2>2, <2>3 DEF Bijection, Injection, Surjection
<1>3. Cardinality({k \in Keys : Has(s, k)}) = Len(s)
  BY <1>1, <1>2, FS_Bijection DEF ExistsBijection
<1>4. Cardinality({k \in Keys : Has(s, k)}) <= Cardinality(Keys)
  BY <1>0, FS_Subset
<1>5. Cardinality(Keys) \in Nat
  BY <1>0, FS_CardinalityType
<1> QED BY <1>3, <1>4, <1>5

(* A walk computes the ring it follows. *)
LEMMA WalkIs ==
    ASSUME NEW field, NEW s \in Seq(Keys), Distinct(s),
           \A i \in 0 .. Len(s) : field[At(s, i)] = At(s, i + 1)
    PROVE  Walk(field) = s
<1> DEFINE n == Cardinality(Keys) + 1
           Step(a, i) == IF a[i - 1] = Null THEN Null ELSE field[a[i - 1]]
           Rec(a) == a = [i \in 0 .. n |-> IF i = 0 THEN Sentinel ELSE Step(a, i)]
           node == CHOOSE a : Rec(a)
           ends == {i \in 1 .. n : node[i] \in {Sentinel, Null}}
           len == IF ends = {} THEN n ELSE (CHOOSE i \in ends : \A j \in ends : i <= j) - 1
<1>0. n \in Nat /\ Len(s) \in Nat /\ Len(s) + 1 <= n /\ Len(s) + 1 \in 1 .. n
  <2>1. Len(s) <= Cardinality(Keys) /\ Cardinality(Keys) \in Nat
    BY LengthBound
  <2> QED BY <2>1
<1>1. Walk(field) = [i \in 1 .. len |-> node[i]]
  BY DEF Walk
<1> HIDE DEF n
<1>2. Rec(node)
  <2> DEFINE X == {At(s, i) : i \in 0 .. Len(s)}
             G == [p \in X \X {0} |-> field[p[1]]]
             zeros == [i \in 1 .. n |-> 0]
  <2>1. ASSUME NEW x \in X PROVE field[x] \in X /\ x # Null
    <3>1. PICK i \in 0 .. Len(s) : x = At(s, i)
      OBVIOUS
    <3>2. field[x] = At(s, i + 1)
      BY <3>1
    <3>3. At(s, i + 1) \in X
      <4>1. CASE i = Len(s)
        <5>1. At(s, i + 1) = At(s, 0) /\ 0 \in 0 .. Len(s)
          BY <1>0, <4>1, AtFacts
        <5> QED BY <5>1
      <4>2. CASE i # Len(s)
        <5>1. i + 1 \in 0 .. Len(s)
          BY <1>0, <4>2
        <5> QED BY <5>1
      <4> QED BY <4>1, <4>2
    <3>4. At(s, i) # Null
      BY AtFacts, IndexAssumption DEF Nodes
    <3> QED BY <3>1, <3>2, <3>3, <3>4
  <2>2. Sentinel \in X
    <3>1. Sentinel = At(s, 0) /\ 0 \in 0 .. Len(s)
      BY <1>0, AtFacts
    <3> QED BY <3>1
  <2> HIDE DEF X
  <2>3. G \in [X \X {0} -> X] /\ \A x \in X : G[<<x, 0>>] = field[x]
    BY <2>1
  <2>4. zeros \in Seq({0}) /\ Len(zeros) = n /\ \A i \in 1 .. n : zeros[i] = 0
    BY <1>0
  <2> HIDE DEF G, zeros
  <2>5. PICK f \in [0 .. n -> X] : Along(f, G, Sentinel, zeros, n)
    <3>1. \E f \in [0 .. Len(zeros) -> X] : Along(f, G, Sentinel, zeros, Len(zeros))
      BY <2>2, <2>3, <2>4, ResultsExist
    <3> QED BY <2>4, <3>1
  <2>6. ASSUME NEW i \in 0 .. n, i # 0 PROVE f[i] = Step(f, i)
    <3>1. i \in 1 .. n /\ i - 1 \in 0 .. n
      BY <1>0, <2>6
    <3>2. f[i - 1] \in X /\ f[i] = G[<<f[i - 1], 0>>]
      BY <2>4, <2>5, <3>1 DEF Along
    <3> QED BY <2>1, <2>3, <3>2
  <2>7. f[0] = Sentinel
    BY <2>5 DEF Along
  <2> HIDE DEF Step
  <2>8. Rec(f)
    BY <1>0, <2>6, <2>7
  <2>9. \E a : Rec(a)
    BY <2>8
  <2> HIDE DEF Rec
  <2> QED BY <2>9, Zenon
<1> HIDE DEF node
<1>3. /\ node[0] = Sentinel
      /\ \A i \in 1 .. n : node[i] = IF node[i - 1] = Null THEN Null ELSE field[node[i - 1]]
  <2>1. PICK h : h = [i \in 0 .. n |-> IF i = 0 THEN Sentinel ELSE Step(node, i)]
    OBVIOUS
  <2>2. node = h
    BY <1>2, <2>1
  <2> HIDE DEF Rec
  <2>3. h[0] = Sentinel /\ \A i \in 1 .. n : h[i] = Step(node, i)
    <3> HIDE DEF Step
    <3> QED BY <1>0, <2>1
  <2> QED BY <2>2, <2>3
<1> HIDE DEF Rec, Step
<1>4. \A i \in 0 .. Len(s) + 1 : node[i] = At(s, i)
  <2> DEFINE S == {i \in Nat : i <= Len(s) + 1 => node[i] = At(s, i)}
  <2>1. 0 \in S
    BY <1>3, AtFacts
  <2>2. ASSUME NEW i \in Nat, i \in S PROVE i + 1 \in S
    <3> SUFFICES ASSUME i + 1 <= Len(s) + 1 PROVE node[i + 1] = At(s, i + 1)
      OBVIOUS
    <3>1. node[i] = At(s, i) /\ i \in 0 .. Len(s) /\ i + 1 \in 1 .. n /\ (i + 1) - 1 = i
      BY <1>0, <2>2
    <3>2. At(s, i) # Null
      BY AtFacts, IndexAssumption DEF Nodes
    <3> QED BY <1>3, <3>1, <3>2
  <2>3. Nat \subseteq S
    <3> HIDE DEF S
    <3> QED BY <2>1, <2>2, Induct
  <2> QED BY <1>0, <2>3
<1>5. Len(s) + 1 \in ends /\ \A i \in ends : Len(s) + 1 <= i
  <2>1. node[Len(s) + 1] = Sentinel
    BY <1>0, <1>4, AtFacts
  <2>2. ASSUME NEW i \in 1 .. Len(s) PROVE node[i] # Sentinel /\ node[i] # Null
    BY <1>0, <1>4, AtFacts, IndexAssumption
  <2> QED BY <1>0, <2>1, <2>2
<1>6. len = Len(s)
  <2> DEFINE last == CHOOSE i \in ends : \A j \in ends : i <= j
  <2>1. ends \subseteq Nat
    BY <1>0
  <2> HIDE DEF ends
  <2>2. last \in ends /\ \A j \in ends : last <= j
    <3>1. \E i \in ends : \A j \in ends : i <= j
      BY <1>5
    <3> QED BY <3>1, Zenon
  <2>3. len = last - 1
    BY <1>5
  <2> HIDE DEF last, len
  <2>4. last = Len(s) + 1
    BY <1>0, <1>5, <2>1, <2>2
  <2> QED BY <1>0, <2>3, <2>4
<1> HIDE DEF len
<1>7. [i \in 1 .. len |-> node[i]] = s
  <2>1. \A i \in 1 .. Len(s) : node[i] = s[i]
    BY <1>0, <1>4, AtFacts
  <2> QED BY <1>6, <2>1
<1> QED BY <1>1, <1>7

LEMMA ReverseFacts ==
    ASSUME NEW s \in Seq(Keys), Distinct(s)
    PROVE  /\ Seqs!Reverse(s) \in Seq(Keys) /\ Len(Seqs!Reverse(s)) = Len(s)
           /\ Distinct(Seqs!Reverse(s))
           /\ \A i \in 0 .. Len(s) + 1 : At(Seqs!Reverse(s), i) = At(s, Len(s) + 1 - i)
<1>0. Len(s) \in Nat
  OBVIOUS
<1>1. PICK r : r = Seqs!Reverse(s)
  OBVIOUS
<1>2. r = [i \in 1 .. Len(s) |-> s[(Len(s) - i) + 1]]
  BY <1>1 DEF Seqs!Reverse
<1>3. \A i \in 1 .. Len(s) : (Len(s) - i) + 1 \in 1 .. Len(s)
  BY <1>0
<1>4. r \in [1 .. Len(s) -> Keys]
  BY <1>2, <1>3
<1>5. r \in Seq(Keys) /\ Len(r) = Len(s)
  BY <1>0, <1>4
<1>6. \A i \in 1 .. Len(s) : r[i] = s[(Len(s) - i) + 1]
  BY <1>2
<1>7. Distinct(r)
  <2> SUFFICES ASSUME NEW i \in 1 .. Len(s), NEW j \in 1 .. Len(s), r[i] = r[j] PROVE i = j
    BY <1>5 DEF Distinct
  <2>1. (Len(s) - i) + 1 = (Len(s) - j) + 1
    BY <1>3, <1>6 DEF Distinct
  <2> QED BY <1>0, <2>1
<1>8. ASSUME NEW i \in 0 .. Len(s) + 1 PROVE At(r, i) = At(s, Len(s) + 1 - i)
  <2>1. CASE i \in 1 .. Len(s)
    <3>1. (Len(s) - i) + 1 = Len(s) + 1 - i /\ Len(s) + 1 - i \in 1 .. Len(s)
      BY <1>0, <2>1
    <3> QED BY <1>5, <1>6, <2>1, <3>1 DEF At
  <2>2. CASE i \notin 1 .. Len(s)
    <3>1. Len(s) + 1 - i \notin 1 .. Len(s)
      BY <1>0, <2>2
    <3> QED BY <1>5, <2>2, <3>1 DEF At
  <2> QED BY <2>1, <2>2
<1> QED BY <1>1, <1>5, <1>7, <1>8

(* Both walks compute the sequence the list threads. *)
LEMMA WalksAgree ==
    ASSUME NEW l, NEW s, Threads(l, s)
    PROVE  Walk(l.next) = s /\ Walk(l.prev) = Seqs!Reverse(s)
<1>0. s \in Seq(Keys) /\ Distinct(s) /\ Len(s) \in Nat
  BY DEF Threads
<1>1. Walk(l.next) = s
  <2>1. \A i \in 0 .. Len(s) : l.next[At(s, i)] = At(s, i + 1)
    BY DEF Threads
  <2> QED BY <1>0, <2>1, WalkIs
<1>2. Walk(l.prev) = Seqs!Reverse(s)
  <2>1. PICK r : r = Seqs!Reverse(s)
    OBVIOUS
  <2>2. /\ r \in Seq(Keys) /\ Len(r) = Len(s) /\ Distinct(r)
        /\ \A i \in 0 .. Len(s) + 1 : At(r, i) = At(s, Len(s) + 1 - i)
    BY <1>0, <2>1, ReverseFacts
  <2>3. ASSUME NEW i \in 0 .. Len(r) PROVE l.prev[At(r, i)] = At(r, i + 1)
    <3>1. PICK j \in 0 .. Len(s) : j = Len(s) - i
      BY SMTT(60), <1>0, <2>2
    <3>2. At(r, i) = At(s, j + 1) /\ At(r, i + 1) = At(s, j)
      <4>1. Len(s) + 1 - i = j + 1 /\ Len(s) + 1 - (i + 1) = j /\ i + 1 \in 0 .. Len(s) + 1 /\ i \in 0 .. Len(s) + 1
        BY <1>0, <2>2, <3>1
      <4>2. At(r, i) = At(s, Len(s) + 1 - i) /\ At(r, i + 1) = At(s, Len(s) + 1 - (i + 1))
        BY <2>2, <4>1
      <4> QED BY <4>1, <4>2
    <3> QED BY <3>2 DEF Threads
  <2> QED BY <2>1, <2>2, <2>3, WalkIs
<1> QED BY <1>1, <1>2

----------------------------------------------------------------------------
(* Operations on the list and on the order *)

Gone(s, k) == IF Has(s, k) THEN Cut(s, CHOOSE i \in 1 .. Len(s) : s[i] = k) ELSE s

LEMMA GoneFacts ==
    ASSUME NEW s \in Seq(Keys), Distinct(s), NEW k
    PROVE  /\ Gone(s, k) \in Seq(Keys)
           /\ \A x : Has(Gone(s, k), x) <=> Has(s, x) /\ x # k
           /\ Has(s, k) => \E j \in 1 .. Len(s) : s[j] = k /\ Gone(s, k) = Cut(s, j)
<1>1. CASE Has(s, k)
  <2>1. PICK j : j = CHOOSE i \in 1 .. Len(s) : s[i] = k
    OBVIOUS
  <2>2. j \in 1 .. Len(s) /\ s[j] = k
    BY <1>1, <2>1 DEF Has
  <2>3. Gone(s, k) = Cut(s, j)
    BY <1>1, <2>1 DEF Gone
  <2>4. Cut(s, j) \in Seq(Keys)
    BY <2>2, CutFacts
  <2>5. \A x : Has(Cut(s, j), x) <=> Has(s, x) /\ x # s[j]
    BY <2>2, CutHas
  <2> QED BY <2>2, <2>3, <2>4, <2>5
<1>2. CASE ~Has(s, k)
  <2>1. Gone(s, k) = s
    BY <1>2 DEF Gone
  <2> QED BY <1>2, <2>1
<1> QED BY <1>1, <1>2

(* Taking a record out, if it is linked, ... *)
LEMMA UnlinkThreads ==
    ASSUME NEW l, NEW s, Threads(l, s), NEW k \in Keys
    PROVE  Threads(IF Has(s, k) THEN LruRemove(l, k) ELSE l, Gone(s, k))
<1>0. s \in Seq(Keys) /\ Distinct(s)
  BY DEF Threads
<1>1. CASE Has(s, k)
  <2>1. PICK j \in 1 .. Len(s) : s[j] = k /\ Gone(s, k) = Cut(s, j)
    BY <1>0, <1>1, GoneFacts
  <2>2. Threads(LruRemove(l, s[j]), Cut(s, j))
    BY RemoveThreads
  <2> QED BY <1>1, <2>1, <2>2
<1>2. CASE ~Has(s, k)
  <2>1. Gone(s, k) = s
    BY <1>2 DEF Gone
  <2> QED BY <1>2, <2>1
<1> QED BY <1>1, <1>2

(* ... and putting it in front. *)
LEMMA FrontThreads ==
    ASSUME NEW l, NEW s, Threads(l, s), NEW k \in Keys
    PROVE  /\ Threads(LruPushFront(IF Has(s, k) THEN LruRemove(l, k) ELSE l, k), Front(k, Gone(s, k)))
           /\ \A x : Has(Front(k, Gone(s, k)), x) <=> Has(s, x) \/ x = k
<1>0. s \in Seq(Keys) /\ Distinct(s)
  BY DEF Threads
<1>1. PICK m, u : m = (IF Has(s, k) THEN LruRemove(l, k) ELSE l) /\ u = Gone(s, k)
  OBVIOUS
<1>2. Threads(m, u) /\ u \in Seq(Keys)
  BY <1>0, <1>1, UnlinkThreads, GoneFacts
<1>3. \A x : Has(u, x) <=> Has(s, x) /\ x # k
  BY <1>0, <1>1, GoneFacts
<1>4. Threads(LruPushFront(m, k), Front(k, u))
  BY <1>2, <1>3, PushThreads
<1>5. \A x : Has(Front(k, u), x) <=> Has(u, x) \/ x = k
  BY <1>2, FrontHas
<1> QED BY <1>1, <1>3, <1>4, <1>5

(* The helpers of the abstract order, in the terms used here. *)
LEMMA AbstractIs ==
    ASSUME NEW s, NEW k
    PROVE  /\ Order!Contains(s, k) <=> Has(s, k)
           /\ Order!Without(s, k) = Gone(s, k)
           /\ Order!ToFront(s, k) = Front(k, Gone(s, k))
<1>1. Order!Contains(s, k) <=> Has(s, k)
  BY DEF Order!Contains, Has
<1>2. Order!Without(s, k) = Gone(s, k)
  BY <1>1 DEF Order!Without, Order!RemoveAt, Gone, Cut
<1>3. Order!ToFront(s, k) = Front(k, Gone(s, k))
  BY <1>2 DEF Order!ToFront, Front
<1> QED BY <1>1, <1>2, <1>3

LEMMA ListsClosed ==
    ASSUME NEW l \in Lists, NEW k \in Keys
    PROVE  LruTouch(l, k) \in Lists
<1>0. k \in Nodes /\ Sentinel \in Nodes
  BY DEF Nodes
<1>1. LruRemove(l, k) \in Lists
  BY <1>0 DEF LruRemove, Lists
<1>2. ASSUME NEW m \in Lists PROVE LruPushFront(m, k) \in Lists
  BY <1>0 DEF LruPushFront, Lists
<1> QED BY <1>1, <1>2 DEF LruTouch

(* What a batch does to the list, touch by touch, ... *)
LEMMA TouchHitsUnrolled ==
    ASSUME NEW l \in Lists, NEW ks \in Seq(Keys)
    PROVE  \E a : /\ a[0] = l
                  /\ \A i \in 1 .. Len(ks) : a[i] = IF Committed(ks[i]) THEN LruTouch(a[i - 1], ks[i]) ELSE a[i - 1]
                  /\ LruTouchHits(l, ks) = a[Len(ks)]
<1> DEFINE X == Lists
           G == [p \in X \X Keys |-> IF Committed(p[2]) THEN LruTouch(p[1], p[2]) ELSE p[1]]
           Rec(a) == a = [i \in 0 .. Len(ks) |-> IF i = 0 THEN l ELSE IF Committed(ks[i]) THEN LruTouch(a[i - 1], ks[i]) ELSE a[i - 1]]
           after == CHOOSE a : Rec(a)
<1>1. G \in [X \X Keys -> X]
  BY ListsClosed
<1>2. \A x \in X, e \in Keys : G[<<x, e>>] = IF Committed(e) THEN LruTouch(x, e) ELSE x
  OBVIOUS
<1>3. l \in X
  OBVIOUS
<1> HIDE DEF X, G
<1>4. PICK f \in [0 .. Len(ks) -> X] : Along(f, G, l, ks, Len(ks))
  BY <1>1, <1>3, ResultsExist
<1>5. Rec(f)
  <2>1. ASSUME NEW i \in 0 .. Len(ks), i # 0
        PROVE  f[i] = IF Committed(ks[i]) THEN LruTouch(f[i - 1], ks[i]) ELSE f[i - 1]
    <3>1. i \in 1 .. Len(ks) /\ i - 1 \in 0 .. Len(ks)
      BY <2>1
    <3>2. f[i - 1] \in X /\ ks[i] \in Keys
      BY <3>1
    <3> QED BY <1>2, <1>4, <3>1, <3>2 DEF Along
  <2>2. f[0] = l
    BY <1>4 DEF Along
  <2> QED BY <2>1, <2>2
<1>6. Rec(after)
  <2>1. \E a : Rec(a)
    BY <1>5
  <2> HIDE DEF Rec
  <2> QED BY <2>1, Zenon
<1>7. LruTouchHits(l, ks) = after[Len(ks)]
  BY DEF LruTouchHits
<1> HIDE DEF after
<1>8. PICK h : h = [i \in 0 .. Len(ks) |-> IF i = 0 THEN l ELSE IF Committed(ks[i]) THEN LruTouch(after[i - 1], ks[i]) ELSE after[i - 1]]
  OBVIOUS
<1>9. after = h
  BY <1>6, <1>8
<1>10. h[0] = l /\ \A i \in 1 .. Len(ks) : h[i] = IF Committed(ks[i]) THEN LruTouch(after[i - 1], ks[i]) ELSE after[i - 1]
  BY <1>8
<1> HIDE DEF Rec
<1> QED BY <1>7, <1>9, <1>10

LEMMA ToFrontTyped ==
    ASSUME NEW s \in Seq(Keys), NEW k \in Keys
    PROVE  Order!ToFront(s, k) \in Seq(Keys)
<1>1. Gone(s, k) \in Seq(Keys)
  <2>1. CASE Has(s, k)
    <3>1. PICK j \in 1 .. Len(s) : j = CHOOSE i \in 1 .. Len(s) : s[i] = k
      BY <2>1 DEF Has
    <3> QED BY <2>1, <3>1, CutFacts DEF Gone
  <2> QED BY <2>1 DEF Gone
<1> QED BY <1>1, AbstractIs, FrontFacts

(* ... and to the order. *)
LEMMA HitsToFrontUnrolled ==
    ASSUME NEW s \in Seq(Keys), NEW ks \in Seq(Keys)
    PROVE  \E a : /\ a[0] = s
                  /\ \A i \in 1 .. Len(ks) : a[i] = IF Order!Contains(a[i - 1], ks[i]) THEN Order!ToFront(a[i - 1], ks[i]) ELSE a[i - 1]
                  /\ Order!HitsToFront(s, ks) = a[Len(ks)]
<1> DEFINE X == Seq(Keys)
           G == [p \in X \X Keys |-> IF Order!Contains(p[1], p[2]) THEN Order!ToFront(p[1], p[2]) ELSE p[1]]
           Rec(a) == a = [i \in 0 .. Len(ks) |-> IF i = 0 THEN s ELSE IF Order!Contains(a[i - 1], ks[i]) THEN Order!ToFront(a[i - 1], ks[i]) ELSE a[i - 1]]
           after == CHOOSE a : Rec(a)
<1>1. G \in [X \X Keys -> X]
  BY ToFrontTyped
<1>2. \A x \in X, e \in Keys : G[<<x, e>>] = IF Order!Contains(x, e) THEN Order!ToFront(x, e) ELSE x
  OBVIOUS
<1>3. s \in X
  OBVIOUS
<1> HIDE DEF X, G
<1>4. PICK f \in [0 .. Len(ks) -> X] : Along(f, G, s, ks, Len(ks))
  BY <1>1, <1>3, ResultsExist
<1>5. Rec(f)
  <2>1. ASSUME NEW i \in 0 .. Len(ks), i # 0
        PROVE  f[i] = IF Order!Contains(f[i - 1], ks[i]) THEN Order!ToFront(f[i - 1], ks[i]) ELSE f[i - 1]
    <3>1. i \in 1 .. Len(ks) /\ i - 1 \in 0 .. Len(ks)
      BY <2>1
    <3>2. f[i - 1] \in X /\ ks[i] \in Keys
      BY <3>1
    <3> QED BY <1>2, <1>4, <3>1, <3>2 DEF Along
  <2>2. f[0] = s
    BY <1>4 DEF Along
  <2> QED BY <2>1, <2>2
<1>6. Rec(after)
  <2>1. \E a : Rec(a)
    BY <1>5
  <2> HIDE DEF Rec
  <2> QED BY <2>1, Zenon
<1>7. Order!HitsToFront(s, ks) = after[Len(ks)]
  BY DEF Order!HitsToFront
<1> HIDE DEF after
<1>8. PICK h : h = [i \in 0 .. Len(ks) |-> IF i = 0 THEN s ELSE IF Order!Contains(after[i - 1], ks[i]) THEN Order!ToFront(after[i - 1], ks[i]) ELSE after[i - 1]]
  OBVIOUS
<1>9. after = h
  BY <1>6, <1>8
<1>10. h[0] = s /\ \A i \in 1 .. Len(ks) : h[i] = IF Order!Contains(after[i - 1], ks[i]) THEN Order!ToFront(after[i - 1], ks[i]) ELSE after[i - 1]
  BY <1>8
<1> HIDE DEF Rec
<1> QED BY <1>7, <1>9, <1>10

(* A batch of touches moves the same keys in both. *)
LEMMA BatchThreads ==
    ASSUME NEW l, NEW s, Threads(l, s), NEW ks \in Seq(Keys),
           \A k \in Keys : Has(s, k) <=> Committed(k)
    PROVE  /\ Threads(LruTouchHits(l, ks), Order!HitsToFront(s, ks))
           /\ \A k \in Keys : Has(Order!HitsToFront(s, ks), k) <=> Committed(k)
<1>0. l \in Lists /\ s \in Seq(Keys)
  BY DEF Threads
<1>1. PICK a : /\ a[0] = l
               /\ \A i \in 1 .. Len(ks) : a[i] = IF Committed(ks[i]) THEN LruTouch(a[i - 1], ks[i]) ELSE a[i - 1]
               /\ LruTouchHits(l, ks) = a[Len(ks)]
  BY <1>0, TouchHitsUnrolled
<1>2. PICK b : /\ b[0] = s
               /\ \A i \in 1 .. Len(ks) :
                     b[i] = IF Order!Contains(b[i - 1], ks[i]) THEN Order!ToFront(b[i - 1], ks[i]) ELSE b[i - 1]
               /\ Order!HitsToFront(s, ks) = b[Len(ks)]
  BY <1>0, HitsToFrontUnrolled
<1> DEFINE Same(i) == Threads(a[i], b[i]) /\ \A k \in Keys : Has(b[i], k) <=> Committed(k)
           S == {i \in Nat : i <= Len(ks) => Same(i)}
<1>3. 0 \in S
  BY <1>1, <1>2
<1>4. ASSUME NEW i \in Nat, i \in S PROVE i + 1 \in S
  <2> SUFFICES ASSUME i + 1 <= Len(ks) PROVE Same(i + 1)
    OBVIOUS
  <2>0. i + 1 \in 1 .. Len(ks) /\ (i + 1) - 1 = i /\ ks[i + 1] \in Keys
    OBVIOUS
  <2>1. Same(i)
    BY <1>4
  <2>2. PICK k, m, u : k \in Keys /\ k = ks[i + 1] /\ m = a[i] /\ u = b[i]
    BY <2>0
  <2>3. k \in Keys /\ Threads(m, u) /\ (Has(u, k) <=> Committed(k))
    BY <2>1, <2>2
  <2>4. a[i + 1] = IF Committed(k) THEN LruTouch(m, k) ELSE m
    BY <1>1, <2>0, <2>2
  <2>5. b[i + 1] = IF Has(u, k) THEN Front(k, Gone(u, k)) ELSE u
    BY <1>2, <2>0, <2>2, AbstractIs
  <2>6. CASE Committed(k)
    <3>1. /\ Threads(LruPushFront(LruRemove(m, k), k), Front(k, Gone(u, k)))
          /\ \A x : Has(Front(k, Gone(u, k)), x) <=> Has(u, x) \/ x = k
      BY <2>3, <2>6, FrontThreads
    <3>2. Threads(a[i + 1], b[i + 1])
      BY <2>3, <2>4, <2>5, <2>6, <3>1 DEF LruTouch
    <3>3. \A x \in Keys : Has(b[i + 1], x) <=> Committed(x)
      BY <2>1, <2>2, <2>3, <2>5, <2>6, <3>1
    <3> QED BY <3>2, <3>3
  <2>7. CASE ~Committed(k)
    <3>1. a[i + 1] = a[i] /\ b[i + 1] = b[i]
      BY <2>2, <2>3, <2>4, <2>5, <2>7
    <3> QED BY <2>1, <3>1
  <2> QED BY <2>6, <2>7
<1>5. Nat \subseteq S
  <2> HIDE DEF S
  <2> QED BY <1>3, <1>4, Induct
<1>6. Same(Len(ks))
  BY <1>5
<1> QED BY <1>1, <1>2, <1>6

----------------------------------------------------------------------------
(* Steps *)

LEMMA SetListIs ==
    ASSUME NEW l, NEW s, Threads(l, s), SetList(l)
    PROVE  List' = l /\ Walk(next)' = s
<1>1. l \in Lists
  BY DEF Threads
<1>2. List' = l
  BY <1>1 DEF SetList, List, Lists
<1>3. next' = l.next
  BY DEF SetList
<1>4. Walk(l.next) = s
  BY WalksAgree
<1> QED BY <1>2, <1>3, <1>4

LEMMA OrderIs ==
    ASSUME NEW s, InOrder(s)
    PROVE  Walk(next) = s /\ Walk(prev) = Seqs!Reverse(s) /\ s \in Seq(Keys) /\ Distinct(s)
<1>1. Threads(List, s)
  BY DEF InOrder
<1>2. List.next = next /\ List.prev = prev
  BY DEF List
<1>3. Walk(List.next) = s /\ Walk(List.prev) = Seqs!Reverse(s)
  BY <1>1, WalksAgree
<1> QED BY <1>1, <1>2, <1>3 DEF Threads

(* How the counter follows the committed keys. *)
LEMMA CountSteps ==
    ASSUME CountExact, NEW k \in Keys
    PROVE  /\ committedCount \in Nat
           /\ Cardinality(CommittedKeys \cup {k}) =
                 committedCount - (IF Committed(k) THEN 1 ELSE 0) + 1
           /\ Cardinality(CommittedKeys \ {k}) =
                 committedCount - (IF Committed(k) THEN 1 ELSE 0)
<1>1. IsFiniteSet(CommittedKeys) /\ Cardinality(CommittedKeys) \in Nat
  BY IndexAssumption, FS_Subset, FS_CardinalityType DEF CommittedKeys
<1>2. committedCount = Cardinality(CommittedKeys)
  BY DEF CountExact, CommittedKeys
<1>3. k \in CommittedKeys <=> Committed(k)
  BY DEF CommittedKeys
<1>4. Cardinality(CommittedKeys \cup {k}) =
         IF k \in CommittedKeys THEN Cardinality(CommittedKeys) ELSE Cardinality(CommittedKeys) + 1
  BY <1>1, FS_AddElement
<1>5. Cardinality(CommittedKeys \ {k}) =
         IF k \in CommittedKeys THEN Cardinality(CommittedKeys) - 1 ELSE Cardinality(CommittedKeys)
  BY <1>1, FS_RemoveElement
<1> QED BY <1>1, <1>2, <1>3, <1>4, <1>5

(* A record k gets the stat st: what becomes of the committed keys and of  *)
(* the others.                                                             *)
LEMMA StatSteps ==
    ASSUME stat \in [Keys -> Stats \cup {Absent}], NEW k \in Keys,
           NEW st \in Stats \cup {Absent}, stat' = [stat EXCEPT ![k] = st]
    PROVE  /\ stat' \in [Keys -> Stats \cup {Absent}]
           /\ \A x \in Keys : Committed(x)' <=> IF x = k THEN st = 1 ELSE Committed(x)
           /\ st = 1 => CommittedKeys' = CommittedKeys \cup {k}
           /\ st # 1 => CommittedKeys' = CommittedKeys \ {k}
           /\ {x \in Keys : stat'[x] \in {0, 2}} =
                 IF st \in {0, 2} THEN {x \in Keys : stat[x] \in {0, 2}} \cup {k}
                 ELSE {x \in Keys : stat[x] \in {0, 2}} \ {k}
<1>1. stat' \in [Keys -> Stats \cup {Absent}]
  OBVIOUS
<1>2. \A x \in Keys : stat'[x] = IF x = k THEN st ELSE stat[x]
  OBVIOUS
<1>3. \A x \in Keys : Committed(x)' <=> IF x = k THEN st = 1 ELSE Committed(x)
  BY <1>2 DEF Committed
<1>4. /\ st = 1 => CommittedKeys' = CommittedKeys \cup {k}
      /\ st # 1 => CommittedKeys' = CommittedKeys \ {k}
  BY <1>3 DEF CommittedKeys
<1>5. {x \in Keys : stat'[x] \in {0, 2}} =
         IF st \in {0, 2} THEN {x \in Keys : stat[x] \in {0, 2}} \cup {k}
         ELSE {x \in Keys : stat[x] \in {0, 2}} \ {k}
  BY <1>2
<1> QED BY <1>1, <1>3, <1>4, <1>5

(* A record becomes committed: linked in front, counted once. *)
LEMMA AdmitStep ==
    ASSUME IndexInv, NEW k \in Keys, stat' = [stat EXCEPT ![k] = 1],
           alloc' \in [Keys -> AllocSizes \cup {0}],
           SetList(LruPushFront(IF Committed(k) THEN LruRemove(List, k) ELSE List, k)),
           committedCount' = committedCount - (IF Committed(k) THEN 1 ELSE 0) + 1
    PROVE  IndexInv' /\ Order!Admit(k)
<1>1. PICK s : InOrder(s)
  BY DEF IndexInv
<1>2. Walk(next) = s /\ Threads(List, s) /\ \A x \in Keys : Has(s, x) <=> Committed(x)
  BY <1>1, OrderIs DEF InOrder
<1>3. PICK t : t = Front(k, Gone(s, k))
  OBVIOUS
<1>4. PICK l : l = LruPushFront(IF Committed(k) THEN LruRemove(List, k) ELSE List, k)
  OBVIOUS
<1>5. Threads(l, t) /\ \A x : Has(t, x) <=> Has(s, x) \/ x = k
  <2>1. Has(s, k) <=> Committed(k)
    BY <1>2
  <2>2. l = LruPushFront(IF Has(s, k) THEN LruRemove(List, k) ELSE List, k)
    BY <1>4, <2>1
  <2> QED BY <1>2, <1>3, <2>2, FrontThreads
<1>6. List' = l /\ Walk(next)' = t
  BY <1>4, <1>5, SetListIs
<1>7. /\ stat' \in [Keys -> Stats \cup {Absent}]
      /\ \A x \in Keys : Committed(x)' <=> IF x = k THEN 1 = 1 ELSE Committed(x)
      /\ CommittedKeys' = CommittedKeys \cup {k}
      /\ {x \in Keys : stat'[x] \in {0, 2}} = {x \in Keys : stat[x] \in {0, 2}} \ {k}
  <2>1. 1 \in Stats \cup {Absent} /\ 1 \notin {0, 2}
    BY DEF Stats
  <2>2. stat \in [Keys -> Stats \cup {Absent}]
    BY DEF IndexInv
  <2> QED BY <2>1, <2>2, StatSteps
<1>8. CountExact'
  BY <1>7, CountSteps DEF IndexInv, CountExact, CommittedKeys
<1>9. InOrder(t)'
  <2>1. Threads(List', t)
    BY <1>5, <1>6
  <2>2. \A x \in Keys : Has(t, x) <=> Committed(x)'
    BY <1>2, <1>5, <1>7
  <2> QED BY <2>1, <2>2 DEF InOrder
<1>10. IndexInv'
  BY <1>7, <1>8, <1>9 DEF IndexInv
<1>11. Order!Admit(k)
  <2>1. Walk(next)' = Order!ToFront(Walk(next), k)
    BY <1>2, <1>3, <1>6, AbstractIs
  <2> QED BY <1>7, <2>1 DEF Order!Admit
<1> QED BY <1>10, <1>11

(* A record stops being committed, or was not and is not. *)
LEMMA ExpelStep ==
    ASSUME IndexInv, NEW k \in Keys, NEW st \in {0, 2, Absent}, stat' = [stat EXCEPT ![k] = st],
           alloc' \in [Keys -> AllocSizes \cup {0}],
           SetList(IF Committed(k) THEN LruRemove(List, k) ELSE List),
           committedCount' = committedCount - (IF Committed(k) THEN 1 ELSE 0)
    PROVE  /\ IndexInv'
           /\ st = Absent => Order!Drop(k)
           /\ st # Absent => Order!Demote(k)
<1>1. PICK s : InOrder(s)
  BY DEF IndexInv
<1>2. /\ Walk(next) = s /\ s \in Seq(Keys) /\ Distinct(s)
      /\ Threads(List, s) /\ \A x \in Keys : Has(s, x) <=> Committed(x)
  BY <1>1, OrderIs DEF InOrder
<1>3. PICK t : t = Gone(s, k)
  OBVIOUS
<1>4. PICK l : l = IF Committed(k) THEN LruRemove(List, k) ELSE List
  OBVIOUS
<1>5. Threads(l, t) /\ \A x : Has(t, x) <=> Has(s, x) /\ x # k
  <2>1. Has(s, k) <=> Committed(k)
    BY <1>2
  <2>2. l = IF Has(s, k) THEN LruRemove(List, k) ELSE List
    BY <1>4, <2>1
  <2> QED BY <1>2, <1>3, <2>2, UnlinkThreads, GoneFacts
<1>6. List' = l /\ Walk(next)' = t
  BY <1>4, <1>5, SetListIs
<1>7. /\ stat' \in [Keys -> Stats \cup {Absent}]
      /\ \A x \in Keys : Committed(x)' <=> IF x = k THEN FALSE ELSE Committed(x)
      /\ CommittedKeys' = CommittedKeys \ {k}
      /\ {x \in Keys : stat'[x] \in {0, 2}} =
            IF st = Absent THEN {x \in Keys : stat[x] \in {0, 2}} \ {k}
            ELSE {x \in Keys : stat[x] \in {0, 2}} \cup {k}
  <2>1. st \in Stats \cup {Absent} /\ st # 1 /\ (st \in {0, 2} <=> st # Absent)
    BY DEF Stats, Absent
  <2> QED BY <2>1, StatSteps DEF IndexInv
<1>8. CountExact'
  BY <1>7, CountSteps DEF IndexInv, CountExact, CommittedKeys
<1>9. InOrder(t)'
  <2>1. Threads(List', t)
    BY <1>5, <1>6
  <2>2. \A x \in Keys : Has(t, x) <=> Committed(x)'
    BY <1>2, <1>5, <1>7
  <2> QED BY <2>1, <2>2 DEF InOrder
<1>10. IndexInv'
  BY <1>7, <1>8, <1>9 DEF IndexInv
<1>11. Walk(next)' = Order!Without(Walk(next), k)
  BY <1>2, <1>3, <1>6, AbstractIs
<1>12. st = Absent => Order!Drop(k)
  BY <1>7, <1>11 DEF Order!Drop
<1>13. st # Absent => Order!Demote(k)
  BY <1>7, <1>11 DEF Order!Demote
<1> QED BY <1>10, <1>12, <1>13

(* Lookups touch their hits. *)
LEMMA LookupStep ==
    ASSUME IndexInv, NEW ks \in Seq(Keys), SetList(LruTouchHits(List, ks)),
           UNCHANGED <<stat, alloc, committedCount>>
    PROVE  IndexInv' /\ Order!Use(ks)
<1>1. PICK s : InOrder(s)
  BY DEF IndexInv
<1>2. Walk(next) = s /\ Threads(List, s) /\ \A x \in Keys : Has(s, x) <=> Committed(x)
  BY <1>1, OrderIs DEF InOrder
<1>3. PICK t : t = Order!HitsToFront(s, ks)
  OBVIOUS
<1>4. PICK l : l = LruTouchHits(List, ks)
  OBVIOUS
<1>5. Threads(l, t) /\ \A x \in Keys : Has(t, x) <=> Committed(x)
  BY <1>2, <1>3, <1>4, BatchThreads
<1>6. List' = l /\ Walk(next)' = t
  BY <1>4, <1>5, SetListIs
<1>7. InOrder(t)'
  <2>1. Threads(List', t)
    BY <1>5, <1>6
  <2>2. \A x \in Keys : Has(t, x) <=> Committed(x)'
    BY <1>5 DEF Committed
  <2> QED BY <2>1, <2>2 DEF InOrder
<1>8. IndexInv'
  BY <1>7 DEF IndexInv, CountExact, Committed
<1>9. Order!Use(ks)
  BY <1>2, <1>3, <1>6 DEF Order!Use
<1> QED BY <1>8, <1>9

(* A single touch is a batch of one. *)
LEMMA TouchIsBatch ==
    ASSUME NEW k \in Keys, Committed(k), List \in Lists
    PROVE  <<k>> \in Seq(Keys) /\ LruTouchHits(List, <<k>>) = LruTouch(List, k)
<1>1. PICK ks : ks = <<k>>
  OBVIOUS
<1>2. ks \in Seq(Keys) /\ Len(ks) = 1 /\ ks[1] = k /\ 1 \in 1 .. 1 /\ 1 - 1 = 0
  BY <1>1
<1>3. PICK l \in Lists : l = List
  OBVIOUS
<1>4. PICK a : /\ a[0] = l
               /\ \A i \in 1 .. Len(ks) : a[i] = IF Committed(ks[i]) THEN LruTouch(a[i - 1], ks[i]) ELSE a[i - 1]
               /\ LruTouchHits(l, ks) = a[Len(ks)]
  BY <1>2, TouchHitsUnrolled
<1>5. a[1] = LruTouch(a[0], k) /\ LruTouchHits(l, ks) = a[1]
  BY <1>2, <1>4
<1> QED BY <1>1, <1>2, <1>3, <1>4, <1>5

LEMMA BatchesAre ==
    /\ \A ks \in Seqs!BoundedSeq(Keys, MaxBatch) : ks \in Seq(Keys)
    /\ \A ks \in Seqs!BoundedSeq(Keys, MaxBatch) : ks \in Order!BoundedSeq(Keys, MaxBatch)
    /\ \A k \in Keys : <<k>> \in Order!BoundedSeq(Keys, MaxBatch)
<1>0. MaxBatch \in Nat \ {0}
  BY IndexAssumption
<1>1. ASSUME NEW ks \in Seqs!BoundedSeq(Keys, MaxBatch) PROVE ks \in Seq(Keys)
  <2>1. PICK m \in 0 .. MaxBatch : ks \in [1 .. m -> Keys]
    BY DEF Seqs!BoundedSeq, Seqs!SeqOf
  <2> QED BY <1>0, <2>1
<1>2. \A ks \in Seqs!BoundedSeq(Keys, MaxBatch) : ks \in Order!BoundedSeq(Keys, MaxBatch)
  BY DEF Seqs!BoundedSeq, Seqs!SeqOf, Order!BoundedSeq, Order!SeqOf
<1>3. ASSUME NEW k \in Keys PROVE <<k>> \in Order!BoundedSeq(Keys, MaxBatch)
  <2>1. <<k>> \in [1 .. 1 -> Keys] /\ 1 \in 0 .. MaxBatch
    BY <1>0
  <2>2. <<k>> \in UNION {[1 .. m -> Keys] : m \in 0 .. MaxBatch}
    BY <2>1
  <2> QED BY <2>2 DEF Order!BoundedSeq, Order!SeqOf
<1> QED BY <1>1, <1>2, <1>3

(* Every step keeps the invariant and is a step of the order. *)
LEMMA IndexStep ==
    ASSUME IndexInv, Next
    PROVE  IndexInv' /\ Order!Next
<1>0. List \in Lists
  BY DEF IndexInv, InOrder, Threads
<1>1. ASSUME NEW k \in Keys, Get(k) \/ Touch(k) PROVE IndexInv' /\ Order!Next
  <2>1. Committed(k) /\ SetList(LruTouch(List, k)) /\ UNCHANGED <<stat, alloc, committedCount>>
    BY <1>1 DEF Get, Touch
  <2>2. <<k>> \in Seq(Keys) /\ LruTouchHits(List, <<k>>) = LruTouch(List, k)
    BY <1>0, <2>1, TouchIsBatch
  <2>3. IndexInv' /\ Order!Use(<<k>>)
    BY <2>1, <2>2, LookupStep
  <2> QED BY <2>3, BatchesAre DEF Order!Next
<1>2. ASSUME NEW k \in Keys, Commit(k) PROVE IndexInv' /\ Order!Next
  <2>1. ~Committed(k)
    BY <1>2 DEF Commit, Committed
  <2>2. alloc' \in [Keys -> AllocSizes \cup {0}]
    BY <1>2 DEF Commit, IndexInv
  <2>3. committedCount \in Nat
    BY CountSteps DEF IndexInv
  <2>4. committedCount' = committedCount - (IF Committed(k) THEN 1 ELSE 0) + 1
    BY <1>2, <2>1, <2>3 DEF Commit
  <2>5. IndexInv' /\ Order!Admit(k)
    BY <1>2, <2>1, <2>2, <2>4, AdmitStep DEF Commit
  <2> QED BY <2>5 DEF Order!Next
<1>3. ASSUME NEW k \in Keys, Remove(k) PROVE IndexInv' /\ Order!Next
  <2>1. alloc' \in [Keys -> AllocSizes \cup {0}]
    BY <1>3 DEF Remove, IndexInv
  <2>2. IndexInv' /\ Order!Drop(k)
    BY <1>3, <2>1, ExpelStep DEF Remove
  <2> QED BY <2>2 DEF Order!Next
<1>4. ASSUME NEW k \in Keys, NEW st \in Stats, NEW size \in AllocSizes, Put(k, st, size)
      PROVE  IndexInv' /\ Order!Next
  <2>1. alloc' \in [Keys -> AllocSizes \cup {0}] /\ stat' = [stat EXCEPT ![k] = st]
    BY <1>4 DEF Put, IndexInv
  <2>2. committedCount \in Nat
    BY CountSteps DEF IndexInv
  <2>3. CASE st = 1
    <3>1. committedCount' = committedCount - (IF Committed(k) THEN 1 ELSE 0) + 1
      BY <1>4, <2>3 DEF Put
    <3>2. SetList(LruPushFront(IF Committed(k) THEN LruRemove(List, k) ELSE List, k))
      BY <1>4, <2>3 DEF Put
    <3>3. IndexInv' /\ Order!Admit(k)
      BY <2>1, <2>3, <3>1, <3>2, AdmitStep
    <3> QED BY <3>3 DEF Order!Next
  <2>4. CASE st # 1
    <3>0. st \in {0, 2, Absent} /\ st # Absent
      BY <2>4 DEF Stats, Absent
    <3>1. committedCount' = committedCount - (IF Committed(k) THEN 1 ELSE 0)
      BY <1>4, <2>2, <2>4 DEF Put
    <3>2. SetList(IF Committed(k) THEN LruRemove(List, k) ELSE List)
      BY <1>4, <2>4 DEF Put
    <3>3. IndexInv' /\ Order!Demote(k)
      BY <2>1, <3>0, <3>1, <3>2, ExpelStep
    <3> QED BY <3>3 DEF Order!Next
  <2> QED BY <2>3, <2>4
<1>5. ASSUME NEW ks \in Seqs!BoundedSeq(Keys, MaxBatch), BatchContains(ks)
      PROVE  IndexInv' /\ Order!Next
  <2>1. ks \in Seq(Keys) /\ ks \in Order!BoundedSeq(Keys, MaxBatch)
    BY BatchesAre
  <2>2. IndexInv' /\ Order!Use(ks)
    BY <1>5, <2>1, LookupStep DEF BatchContains
  <2> QED BY <2>1, <2>2 DEF Order!Next
<1> QED BY <1>1, <1>2, <1>3, <1>4, <1>5 DEF Next

LEMMA IndexInit ==
    ASSUME Init
    PROVE  IndexInv /\ Order!Init
<1>1. Threads(List, <<>>)
  <2>0. <<>> \in Seq(Keys) /\ Len(<<>>) = 0
    OBVIOUS
  <2>1. PICK e : e = <<>>
    OBVIOUS
  <2>2. e \in Seq(Keys) /\ Len(e) = 0 /\ Distinct(e)
    BY <2>0, <2>1 DEF Distinct
  <2>3. List \in Lists
    BY DEF Init, List, Lists, Nodes
  <2>4. \A i : At(e, i) = Sentinel
    BY <2>2 DEF At
  <2>5. List.next[Sentinel] = Sentinel /\ List.prev[Sentinel] = Sentinel
    BY DEF Init, List, Nodes
  <2>6. \A k \in Keys : List.prev[k] = Null /\ List.next[k] = Null
    BY IndexAssumption DEF Init, List, Nodes
  <2> QED BY <2>1, <2>2, <2>3, <2>4, <2>5, <2>6 DEF Threads
<1>2. \A k \in Keys : ~Committed(k) /\ stat[k] \notin {0, 2}
  BY DEF Init, Committed, Absent
<1>3. \A k \in Keys : ~Has(<<>>, k)
  BY DEF Has
<1>4. InOrder(<<>>)
  BY <1>1, <1>2, <1>3 DEF InOrder
<1>5. CountExact
  <2>1. {k \in Keys : Committed(k)} = {}
    BY <1>2
  <2> QED BY <2>1, FS_EmptySet DEF CountExact, Init
<1>6. stat \in [Keys -> Stats \cup {Absent}] /\ alloc \in [Keys -> AllocSizes \cup {0}]
  BY DEF Init
<1>7. IndexInv
  BY <1>4, <1>5, <1>6 DEF IndexInv
<1>8. Order!Init
  BY <1>2, <1>4, OrderIs DEF Order!Init
<1> QED BY <1>7, <1>8

LEMMA IndexInvAlways == Spec => []IndexInv
<1>1. Init => IndexInv
  BY IndexInit
<1>2. IndexInv /\ [Next]_vars => IndexInv'
  <2>1. ASSUME IndexInv, UNCHANGED vars PROVE IndexInv'
    BY <2>1 DEF IndexInv, vars, CountExact, Committed, InOrder, Threads, List
  <2> QED BY <2>1, IndexStep
<1> QED BY <1>1, <1>2, PTL DEF Spec

----------------------------------------------------------------------------
(* Records, pointers and the counter keep their types: committed_count_    *)
(* never leaves 0 .. the number of keys, however puts, commits and         *)
(* removals of a key follow each other.                                    *)
THEOREM TypeCorrect == Spec => []TypeOK
<1>1. IndexInv => TypeOK
  <2> SUFFICES ASSUME IndexInv PROVE TypeOK
    OBVIOUS
  <2>1. prev \in [Nodes -> Nodes \cup {Null}] /\ next \in [Nodes -> Nodes \cup {Null}]
    BY DEF IndexInv, InOrder, Threads, Lists, List
  <2>2. committedCount \in 0 .. Cardinality(Keys)
    <3>1. PICK C \in SUBSET Keys : C = {k \in Keys : Committed(k)}
      OBVIOUS
    <3>2. Cardinality(C) \in Nat /\ Cardinality(C) <= Cardinality(Keys) /\ Cardinality(Keys) \in Nat
      BY IndexAssumption, FS_Subset, FS_CardinalityType
    <3> QED BY <3>1, <3>2 DEF IndexInv, CountExact
  <2> QED BY <2>1, <2>2 DEF IndexInv, TypeOK
<1> QED BY <1>1, IndexInvAlways, PTL

(* committed_count_ is the number of committed records, whatever order     *)
(* Put, Commit and Remove change a record's stat in.                       *)
THEOREM CountHolds == Spec => []CountExact
<1>1. IndexInv => CountExact
  BY DEF IndexInv
<1> QED BY <1>1, IndexInvAlways, PTL

(* LruRemove and LruPushFront keep the list whole: both walks meet every   *)
(* committed record once, in opposite orders, and no other record has a    *)
(* pointer left.                                                           *)
THEOREM ListHolds == Spec => []ListExact
<1>1. IndexInv => ListExact
  <2> SUFFICES ASSUME IndexInv PROVE ListExact
    OBVIOUS
  <2>1. PICK s : InOrder(s)
    BY DEF IndexInv
  <2>2. Walk(next) = s /\ Walk(prev) = Seqs!Reverse(s) /\ s \in Seq(Keys)
    BY <2>1, OrderIs
  <2>3. {s[i] : i \in DOMAIN s} = {k \in Keys : Committed(k)}
    <3>1. DOMAIN s = 1 .. Len(s)
      BY <2>2
    <3>2. \A k \in Keys : Has(s, k) <=> Committed(k)
      BY <2>1 DEF InOrder
    <3> QED BY <2>2, <3>1, <3>2 DEF Has
  <2>4. \A k \in Keys : ~Committed(k) => prev[k] = Null /\ next[k] = Null
    BY <2>1 DEF InOrder, Threads, List
  <2> QED BY <2>2, <2>3, <2>4 DEF ListExact
<1> QED BY <1>1, IndexInvAlways, PTL

(* The intrusive list implements the order of last use: every operation of *)
(* StoreMetaIndex moves keys as the abstract sequence of LruOrder does.    *)
THEOREM OrderRefined == Spec => OrderSpec
<1>1. Init => Order!Init
  BY IndexInit
<1>2. IndexInv /\ [Next]_vars => [Order!Next]_Order!vars
  <2>1. ASSUME IndexInv, Next PROVE Order!Next
    BY <2>1, IndexStep
  <2>2. ASSUME UNCHANGED vars PROVE UNCHANGED Order!vars
    BY <2>2 DEF vars, Order!vars
  <2> QED BY <2>1, <2>2
<1>3. Spec => Order!Spec
  BY <1>1, <1>2, IndexInvAlways, PTL DEF Spec, Order!Spec
<1> QED BY <1>3 DEF OrderSpec

----------------------------------------------------------------------------
(* Candidates of a forced eviction *)

(* The total collected along s, entry by entry. *)
(* Every record's size is a natural number. *)
LEMMA SizesNatural ==
    ASSUME alloc \in [Keys -> AllocSizes \cup {0}]
    PROVE  \A k \in Keys : alloc[k] \in Nat
<1>1. AllocSizes \subseteq Nat
  BY IndexAssumption
<1>2. AllocSizes \cup {0} \subseteq Nat
  BY <1>1
<1>3. ASSUME NEW k \in Keys PROVE alloc[k] \in Nat
  <2>1. alloc[k] \in AllocSizes \cup {0}
    OBVIOUS
  <2> QED BY <1>2, <2>1, Zenon
<1> QED BY <1>3

LEMMA CollectedIs ==
    ASSUME NEW s \in Seq(Keys), alloc \in [Keys -> AllocSizes \cup {0}]
    PROVE  /\ Collected(s)[0] = 0
           /\ \A i \in 1 .. Len(s) : Collected(s)[i] = Collected(s)[i - 1] + alloc[s[i]]
           /\ \A i \in 0 .. Len(s) : Collected(s)[i] \in Nat
<1> DEFINE G == [p \in Nat \X Keys |-> p[1] + alloc[p[2]]]
           Rec(a) == a = [i \in 0 .. Len(s) |-> IF i = 0 THEN 0 ELSE a[i - 1] + alloc[s[i]]]
           total == CHOOSE a : Rec(a)
<1>0. \A k \in Keys : alloc[k] \in Nat
  BY SizesNatural
<1>1. G \in [Nat \X Keys -> Nat]
  BY <1>0
<1>2. \A x \in Nat, k \in Keys : G[<<x, k>>] = x + alloc[k]
  OBVIOUS
<1> HIDE DEF G
<1>3. PICK f \in [0 .. Len(s) -> Nat] : Along(f, G, 0, s, Len(s))
  <2>1. 0 \in Nat
    OBVIOUS
  <2> QED BY <1>1, <2>1, ResultsExist
<1>4. Rec(f)
  <2>1. ASSUME NEW i \in 0 .. Len(s), i # 0
        PROVE  f[i] = f[i - 1] + alloc[s[i]]
    <3>1. i \in 1 .. Len(s) /\ i - 1 \in 0 .. Len(s)
      BY <2>1
    <3>2. f[i - 1] \in Nat /\ s[i] \in Keys
      BY <3>1
    <3> QED BY <1>2, <1>3, <3>1, <3>2 DEF Along
  <2>2. f[0] = 0
    BY <1>3 DEF Along
  <2> QED BY <2>1, <2>2
<1>5. Rec(total)
  <2>1. \E a : Rec(a)
    BY <1>4
  <2> HIDE DEF Rec
  <2> QED BY <2>1, Zenon
<1>6. Collected(s) = total
  BY DEF Collected
<1> HIDE DEF total
<1>7. PICK h : h = [i \in 0 .. Len(s) |-> IF i = 0 THEN 0 ELSE total[i - 1] + alloc[s[i]]]
  OBVIOUS
<1>8. total = h
  BY <1>5, <1>7
<1>9. h[0] = 0 /\ \A i \in 1 .. Len(s) : h[i] = total[i - 1] + alloc[s[i]]
  BY <1>7
<1> HIDE DEF Rec
<1>10. total[0] = 0 /\ \A i \in 1 .. Len(s) : total[i] = total[i - 1] + alloc[s[i]]
  BY <1>8, <1>9
<1>11. \A i \in 0 .. Len(s) : total[i] \in Nat
  <2> DEFINE S == {i \in Nat : i <= Len(s) => total[i] \in Nat}
  <2>1. 0 \in S
    BY <1>10
  <2>2. ASSUME NEW i \in Nat, i \in S PROVE i + 1 \in S
    <3> SUFFICES ASSUME i + 1 <= Len(s) PROVE total[i + 1] \in Nat
      OBVIOUS
    <3>1. i + 1 \in 1 .. Len(s) /\ (i + 1) - 1 = i /\ total[i] \in Nat /\ s[i + 1] \in Keys
      BY <2>2
    <3>2. total[i + 1] = total[i] + alloc[s[i + 1]]
      BY <1>10, <3>1
    <3> QED BY <1>0, <3>1, <3>2
  <2>3. Nat \subseteq S
    <3> HIDE DEF S
    <3> QED BY <2>1, <2>2, Induct
  <2> QED BY <2>3
<1> QED BY <1>6, <1>10, <1>11

(* More entries never collect less. *)
LEMMA CollectedGrows ==
    ASSUME NEW s \in Seq(Keys), alloc \in [Keys -> AllocSizes \cup {0}],
           NEW i \in 0 .. Len(s), NEW j \in 0 .. Len(s), i <= j
    PROVE  Collected(s)[i] <= Collected(s)[j]
<1>0. PICK T : /\ T = Collected(s) /\ T[0] = 0
               /\ \A n \in 1 .. Len(s) : T[n] = T[n - 1] + alloc[s[n]]
               /\ \A n \in 0 .. Len(s) : T[n] \in Nat
  BY CollectedIs
<1>1. \A k \in Keys : alloc[k] \in Nat
  BY SizesNatural
<1> DEFINE S == {d \in Nat : i + d <= Len(s) => T[i] <= T[i + d]}
<1>2. 0 \in S
  BY <1>0
<1>3. ASSUME NEW d \in Nat, d \in S PROVE d + 1 \in S
  <2> SUFFICES ASSUME i + (d + 1) <= Len(s) PROVE T[i] <= T[i + (d + 1)]
    OBVIOUS
  <2>1. PICK n \in 1 .. Len(s) : n = i + (d + 1)
    OBVIOUS
  <2>2. n - 1 = i + d /\ n - 1 \in 0 .. Len(s) /\ n \in 0 .. Len(s) /\ s[n] \in Keys
    BY <2>1
  <2>3. T[i] <= T[n - 1]
    BY <1>3, <2>1, <2>2
  <2>4. T[n] = T[n - 1] + alloc[s[n]] /\ alloc[s[n]] \in Nat /\ T[n - 1] \in Nat /\ T[i] \in Nat
    BY <1>0, <1>1, <2>2
  <2>5. T[i] <= T[n]
    BY <2>3, <2>4
  <2> QED BY <2>1, <2>5
<1>4. Nat \subseteq S
  <2> HIDE DEF S
  <2> QED BY <1>2, <1>3, Induct
<1>5. j - i \in Nat /\ i + (j - i) = j
  OBVIOUS
<1>6. j - i \in S
  BY <1>4, <1>5
<1> QED BY <1>0, <1>5, <1>6

(* What a prefix collects, the whole has collected up to there. *)
LEMMA CollectedPrefix ==
    ASSUME NEW s \in Seq(Keys), NEW m \in 0 .. Len(s), NEW p \in Seq(Keys),
           alloc \in [Keys -> AllocSizes \cup {0}],
           Len(p) = m, \A i \in 1 .. m : p[i] = s[i]
    PROVE  \A i \in 0 .. m : Collected(p)[i] = Collected(s)[i]
<1>1. PICK T : /\ T = Collected(s) /\ T[0] = 0
               /\ \A n \in 1 .. Len(s) : T[n] = T[n - 1] + alloc[s[n]]
  BY CollectedIs
<1>2. PICK U : /\ U = Collected(p) /\ U[0] = 0
               /\ \A n \in 1 .. Len(p) : U[n] = U[n - 1] + alloc[p[n]]
  BY CollectedIs
<1> DEFINE S == {i \in Nat : i <= m => U[i] = T[i]}
<1>3. 0 \in S
  BY <1>1, <1>2
<1>4. ASSUME NEW i \in Nat, i \in S PROVE i + 1 \in S
  <2> SUFFICES ASSUME i + 1 <= m PROVE U[i + 1] = T[i + 1]
    OBVIOUS
  <2>1. i + 1 \in 1 .. Len(p) /\ i + 1 \in 1 .. Len(s) /\ (i + 1) - 1 = i /\ U[i] = T[i] /\ i + 1 \in 1 .. m
    BY <1>4
  <2>2. U[i + 1] = U[i] + alloc[p[i + 1]] /\ T[i + 1] = T[i] + alloc[s[i + 1]]
    BY <1>1, <1>2, <2>1
  <2> QED BY <2>1, <2>2
<1>5. Nat \subseteq S
  <2> HIDE DEF S
  <2> QED BY <1>3, <1>4, Induct
<1>6. \A i \in 0 .. m : i \in S
  BY <1>5
<1> QED BY <1>1, <1>2, <1>6

(* A set of positions with every smaller one is an initial segment. *)
LEMMA InitialSegment ==
    ASSUME NEW N \in Nat, NEW C \in SUBSET (1 .. N),
           \A i \in C : \A j \in 1 .. i : j \in C
    PROVE  \E m \in 0 .. N : C = 1 .. m /\ Cardinality(C) = m
<1> DEFINE S == {n \in Nat : n <= N => \E m \in 0 .. n : \A i \in 1 .. n : i \in C <=> i <= m}
<1>1. 0 \in S
  OBVIOUS
<1>2. ASSUME NEW n \in Nat, n \in S PROVE n + 1 \in S
  <2> SUFFICES ASSUME n + 1 <= N
               PROVE  \E m \in 0 .. n + 1 : \A i \in 1 .. n + 1 : i \in C <=> i <= m
    OBVIOUS
  <2>1. CASE n + 1 \in C
    <3>1. \A i \in 1 .. n + 1 : i \in C
      BY <2>1
    <3> QED BY <3>1
  <2>2. CASE n + 1 \notin C
    <3>1. PICK m \in 0 .. n : \A i \in 1 .. n : i \in C <=> i <= m
      BY <1>2
    <3>2. m \in 0 .. n + 1 /\ \A i \in 1 .. n + 1 : i \in C <=> i <= m
      BY <2>2, <3>1
    <3> QED BY <3>2
  <2> QED BY <2>1, <2>2
<1>3. Nat \subseteq S
  <2> HIDE DEF S
  <2> QED BY <1>1, <1>2, Induct
<1>4. PICK m \in 0 .. N : \A i \in 1 .. N : i \in C <=> i <= m
  BY <1>3
<1>5. C = 1 .. m
  <2>1. ASSUME NEW i \in C PROVE i \in 1 .. m
    <3>1. i \in 1 .. N
      OBVIOUS
    <3> QED BY <1>4, <3>1
  <2>2. ASSUME NEW i \in 1 .. m PROVE i \in C
    <3>1. i \in 1 .. N /\ i <= m
      OBVIOUS
    <3> QED BY <1>4, <3>1
  <2> QED BY <2>1, <2>2
<1>6. Cardinality(1 .. m) = m
  BY FS_Interval
<1> QED BY <1>5, <1>6

LEMMA CandidatesAre ==
    ASSUME IndexInv, NEW needed \in Nat, NEW max \in Nat \ {0}
    PROVE  JustEnough(needed, max)
<1>1. PICK s : InOrder(s)
  BY DEF IndexInv
<1>2. PICK r : r = Walk(prev)
  OBVIOUS
<1>3. /\ s \in Seq(Keys) /\ Distinct(s) /\ r \in Seq(Keys) /\ Len(r) = Len(s) /\ Len(r) \in Nat
  BY <1>1, <1>2, OrderIs, ReverseFacts
<1>4. committedCount = Len(r)
  <2>1. {k \in Keys : Has(s, k)} = {k \in Keys : Committed(k)}
    BY <1>1 DEF InOrder
  <2> QED BY <1>3, <2>1, LengthBound DEF IndexInv, CountExact
<1>5. alloc \in [Keys -> AllocSizes \cup {0}]
  BY DEF IndexInv
<1>6. PICK T : T = Collected(r) /\ \A n \in 0 .. Len(r) : T[n] \in Nat
  BY <1>3, <1>5, CollectedIs
<1>7. PICK C : C = {i \in 1 .. Len(r) : i <= max /\ T[i - 1] < needed}
  OBVIOUS
<1>8. PICK m \in 0 .. Len(r) : C = 1 .. m /\ Cardinality(C) = m
  <2>1. ASSUME NEW i \in C, NEW j \in 1 .. i PROVE j \in C
    <3>1. /\ i \in 1 .. Len(r) /\ i <= max /\ T[i - 1] < needed
          /\ j \in 1 .. Len(r) /\ j <= max
          /\ i - 1 \in 0 .. Len(r) /\ j - 1 \in 0 .. Len(r) /\ j - 1 <= i - 1
      BY <1>3, <1>7
    <3>2. T[j - 1] <= T[i - 1] /\ T[j - 1] \in Nat /\ T[i - 1] \in Nat
      BY <1>3, <1>5, <1>6, <3>1, CollectedGrows
    <3> QED BY <1>7, <3>1, <3>2
  <2>2. C \in SUBSET (1 .. Len(r))
    BY <1>7
  <2> QED BY ZenonT(60), <1>3, <2>1, <2>2, InitialSegment
<1>9. PICK got : got = SubSeq(r, 1, m)
  OBVIOUS
<1>10. got \in Seq(Keys) /\ Len(got) = m /\ \A i \in 1 .. m : got[i] = r[i]
  BY <1>3, <1>9, SubSeqProperties
<1>11. GetLRUCandidatesBySize(needed, max) = got
  BY <1>2, <1>6, <1>7, <1>8, <1>9 DEF GetLRUCandidatesBySize
<1>12. GetLRUCandidates(m) = got
  <2>1. (IF m < Len(r) THEN m ELSE Len(r)) = m
    BY <1>3
  <2> QED BY <1>2, <1>9, <2>1 DEF GetLRUCandidates
<1>13. \A i \in 0 .. m : Collected(got)[i] = T[i]
  BY <1>3, <1>5, <1>6, <1>10, CollectedPrefix
<1>14. T[m] >= needed \/ m = max \/ m = committedCount
  <2> SUFFICES ASSUME m # max, m # Len(r) PROVE T[m] >= needed
    BY <1>4
  <2>1. m + 1 \in 1 .. Len(r) /\ m + 1 \notin C /\ (m + 1) - 1 = m
    BY <1>3, <1>8
  <2>2. m <= max
    <3>1. CASE m = 0
      BY <3>1
    <3>2. CASE m # 0
      <4>1. m \in C
        BY <1>8, <3>2
      <4> QED BY <1>7, <4>1
    <3> QED BY <3>1, <3>2
  <2>3. m + 1 <= max
    BY <2>2
  <2>4. ~(T[m] < needed)
    BY <1>7, <2>1, <2>3
  <2> QED BY <1>6, <2>4
<1>15. m > 0 => T[m - 1] < needed
  <2>1. ASSUME m > 0 PROVE m \in C
    BY <1>8, <2>1
  <2> QED BY <1>7, <2>1
<1>16. Collected(got)[m] = T[m] /\ (m > 0 => Collected(got)[m - 1] = T[m - 1])
  <2>1. m \in 0 .. m /\ (m > 0 => m - 1 \in 0 .. m)
    BY <1>3
  <2> QED BY <1>13, <2>1
<1> QED BY <1>10, <1>11, <1>12, <1>14, <1>15, <1>16 DEF JustEnough

(* GetLRUCandidatesBySize picks just enough, of any amount and with any    *)
(* cap: the coldest entries, none of which could be spared, and enough of  *)
(* them unless the cap or the list ends first.                             *)
THEOREM CandidatesHold ==
    Spec => []((\A needed \in Nat, max \in Nat \ {0} : JustEnough(needed, max)) /\ CandidatesJustEnough)
<1>1. IndexInv => \A needed \in Nat, max \in Nat \ {0} : JustEnough(needed, max)
  BY CandidatesAre
<1>2. (\A needed \in Nat, max \in Nat \ {0} : JustEnough(needed, max)) => CandidatesJustEnough
  <2>1. Cardinality(Keys) \in Nat
    BY IndexAssumption, FS_CardinalityType
  <2> QED BY <2>1 DEF CandidatesJustEnough
<1> QED BY <1>1, <1>2, IndexInvAlways, PTL
=============================================================================
