------------------------ MODULE FalconKVStoreProofs ------------------------
(***************************************************************************)
(* Proofs about FalconKVStore for any keys, slots, writers, batches and    *)
(* bounds.  Fairness plays no part in them.                                *)
(*                                                                         *)
(* Types and the grace period need nothing but Control, the sequences that *)
(* a thread's place keeps from being empty.  Slot ownership rests on       *)
(*   Alone        one thread at a time evicts or removes;                  *)
(*   CandsFresh   what an eviction has picked is what the index still says;*)
(*   KeysApart    no two puts want the same key, nor one put twice;        *)
(*   Unindexed    a key that a put wants is not in the index;              *)
(*   Cleared      a thread has left nothing in its locals;                 *)
(*   Single       no slot is on offer, or queued, more than once;          *)
(*   Owned        every slot has exactly one owner.                        *)
(* Intact values need in addition that only values of a slot's size are    *)
(* written, and what a put has written until it publishes it (Prepared).   *)
(***************************************************************************)
EXTENDS FalconKVStore, FiniteSetTheorems, SequenceTheorems, TLAPS

(* No two evictions overlap, no two puts of a key, and no batch has a key  *)
(* twice.                                                                  *)
Apart ==
    /\ Guarded
    /\ \A w \in Writers : \A ks \in Batches[w] :
          \A i, j \in DOMAIN ks : ks[i] = ks[j] => i = j

(* A batch has values that fit a slot, or values that do not, not both.    *)
OneSize ==
    \A w \in Writers : \A ks \in Batches[w] : \A i, j \in DOMAIN ks :
        ks[i] \in Oversize => ks[j] \in Oversize

Ladder == {"now", "take", "free", "takeall", "alloc", "pick", "sync", "remove", "enqueue"}
Removing == {"rmsync", "rmindex", "rmenqueue"}

TodoKept ==
    \A w \in Writers : pc[w] \in {"check", "rmsync", "rmindex"} => todo[w] # <<>>
NeedKept ==
    \A w \in Writers : pc[w] \in Ladder \cup {"balloc"} => need[w] # <<>>
ClockRead == \A t \in Threads : now[t] <= clock

Control == TodoKept /\ NeedKept /\ ClockRead

Alone == \A t, u \in Mutators : Evicting(t) /\ Evicting(u) => t = u

CandsFresh ==
    \A t \in Mutators : \A c \in cands[t] :
        pc[t] \in {"sync", "remove", "enqueue"} /\ index[c.key] = c.slot

Hands ==
    \A t \in Mutators :
        IF pc[t] \in {"enqueue", "rmenqueue"} THEN hand[t] \in Records
                                              ELSE hand[t] = NoRecord

ClearedPut(w) ==
    /\ pc[w] \in {"idle", "check", "balloc"} \cup Removing => items[w] = {}
    /\ pc[w] \in {"idle", "write", "writing", "unwind", "publish"} \cup Removing =>
          need[w] = <<>>
    /\ pc[w] \notin {"check", "rmsync", "rmindex"} => todo[w] = <<>>

Cleared ==
    /\ \A w \in Writers : ClearedPut(w)
    /\ \A t \in Threads : pc[t] # "free" => Nothing(spoils[t])

(* What a put still has to look up, to find a slot for, or to publish. *)
Asks(w, k) == pc[w] = "check" /\ \E i \in DOMAIN todo[w] : todo[w][i] = k
Needs(w, k) == \E i \in DOMAIN need[w] : need[w][i] = k
Holds(w, k) == \E c \in items[w] : c.key = k
Wants(w, k) == Asks(w, k) \/ Needs(w, k) \/ Holds(w, k)

OnceEach(w) ==
    /\ \A i, j \in DOMAIN todo[w] : todo[w][i] = todo[w][j] => i = j
    /\ \A i, j \in DOMAIN need[w] : need[w][i] = need[w][j] => i = j
    /\ \A c, d \in items[w] : c.key = d.key => c = d
    /\ \A k \in Keys : /\ ~(Asks(w, k) /\ Needs(w, k))
                       /\ ~(Needs(w, k) /\ Holds(w, k))

KeysApart ==
    /\ \A w \in Writers : OnceEach(w)
    /\ \A v, w \in Writers : \A k \in Keys : Wants(v, k) /\ Wants(w, k) => v = w

Unindexed ==
    \A w \in Writers : \A k \in Keys : Needs(w, k) \/ Holds(w, k) => index[k] = NoSlot

Single ==
    /\ \A s \in Slots : offers[s] <= 1
    /\ \A s \in Slots, e \in Times : pending[s][e] <= 1
    /\ \A t \in Threads, s \in Slots, e \in Times : spoils[t][s][e] <= 1

(* The owners of a slot: the allocator, a key of the index, an entry of    *)
(* the queue, a flush, a put or an eviction under way.                     *)
ByAllocator(q, s) == q = <<"allocator", 0, 0>> /\ offers[s] > 0
ByIndex(q, s) == \E k \in Keys : q = <<"index", k, 0>> /\ index[k] = s
ByQueue(q, s) == \E e \in Times : q = <<"queue", e, 0>> /\ pending[s][e] > 0
ByFlush(q, s) ==
    \E t \in Threads : \E e \in Times : q = <<"flush", t, e>> /\ spoils[t][s][e] > 0
ByPut(q, s) ==
    \E w \in Writers : \E c \in items[w] : q = <<"put", w, c.key>> /\ c.slot = s
ByEviction(q, s) == \E t \in Mutators : q = <<"evict", t, 0>> /\ hand[t].slot = s

Owner(q, s) ==
    \/ ByAllocator(q, s) \/ ByIndex(q, s) \/ ByQueue(q, s)
    \/ ByFlush(q, s) \/ ByPut(q, s) \/ ByEviction(q, s)

Owned == \A s \in Slots : \E p : \A q : Owner(q, s) <=> q = p

OwnInv ==
    /\ TypeOK /\ Control
    /\ Alone /\ CandsFresh /\ Hands /\ Cleared /\ KeysApart /\ Unindexed /\ Single /\ Owned

(* A put that holds a slot has a value that fits it, and what it still     *)
(* wants a slot for fits or does not fit as a whole.                       *)
Open(w, k) == Asks(w, k) \/ Needs(w, k)

Fits(w) ==
    /\ \A c \in items[w] : c.key \notin Oversize
    /\ \A j, k \in Keys : Open(w, j) /\ Open(w, k) /\ j \in Oversize => k \in Oversize

Fitting == \A w \in Writers : Fits(w)

Prepared ==
    \A w \in Writers : pc[w] = "publish" => \A c \in items[w] : content[c.slot] = c.key

DataInv == OwnInv /\ Fitting /\ Prepared /\ PublishedIntact


----------------------------------------------------------------------------
(* The operators the model is built from *)

LEMMA Bounds ==
    /\ MaxClock \in Nat /\ MaxCalls \in Nat /\ Grace \in Nat
    /\ EvictTarget \in Nat \ {0} /\ MaxRounds \in Nat \ {0}
  BY StoreAssumption

LEMMA HeadTail ==
    ASSUME NEW q \in Seq(Keys), q # <<>>
    PROVE  /\ Head(q) \in Keys /\ Tail(q) \in Seq(Keys)
           /\ Len(q) \in Nat \ {0} /\ Len(Tail(q)) = Len(q) - 1
           /\ Head(q) = q[1] /\ \A i \in 1 .. Len(q) - 1 : Tail(q)[i] = q[i + 1]
<1>1. q \in Seq(Keys) /\ Len(q) # 0
  BY EmptySeq
<1>2. Head(q) \in Keys /\ Tail(q) \in Seq(Keys) /\ Len(q) \in Nat
  BY HeadTailProperties, LenProperties
<1>. QED BY <1>1, <1>2

LEMMA EnqueueTypes ==
    ASSUME pending \in Queues, clock \in Times, NEW s
    PROVE  [pending EXCEPT ![s][clock] = @ + 1] \in Queues
<1>1. CASE s \in Slots
  <2>1. [pending[s] EXCEPT ![clock] = @ + 1] \in [Times -> Nat]
    BY <1>1 DEF Queues
  <2>. QED BY <1>1, <2>1 DEF Queues
<1>2. CASE s \notin Slots
  BY <1>2 DEF Queues
<1>. QED BY <1>1, <1>2

(* A snapshot is made of records the index has. *)
LEMMA SnapshotRecords ==
    ASSUME TypeOK, NEW n, NEW C \in Snapshots(n)
    PROVE  C \subseteq Records /\ \A c \in C : index[c.key] = c.slot
  BY DEF TypeOK, Snapshots, Indexed, Records

(* A write leaves a slot as it is, or with the value of a key. *)
LEMMA WrittenTypes ==
    ASSUME TypeOK, NEW R \in SUBSET Records
    PROVE  Written(R) \in [Slots -> Keys \cup {NoKey}]
<1>. SUFFICES ASSUME NEW s \in Slots
              PROVE  (IF \E c \in R : {d \in R : s \in Footprint(d)} = {c} /\ c.slot = s
                      THEN (CHOOSE c \in R : c.slot = s).key ELSE content[s])
                     \in Keys \cup {NoKey}
  BY DEF Written
<1>1. CASE \E c \in R : {d \in R : s \in Footprint(d)} = {c} /\ c.slot = s
  <2>1. (CHOOSE c \in R : c.slot = s) \in R
    BY <1>1
  <2>. QED BY <1>1, <2>1 DEF Records
<1>2. CASE ~\E c \in R : {d \in R : s \in Footprint(d)} = {c} /\ c.slot = s
  BY <1>2 DEF TypeOK
<1>. QED BY <1>1, <1>2

(* How often BatchAlloc hands out a slot. *)
Given(n, give, s) == {i \in 1 .. n : give[i] = s}

LEMMA GivenCount ==
    ASSUME NEW n \in Nat, NEW give \in [1 .. n -> Slots], NEW s \in Slots
    PROVE  /\ Cardinality(Given(n, give, s)) \in Nat
           /\ Given(n, give, s) = {} => Cardinality(Given(n, give, s)) = 0
           /\ Given(n, give, s) # {} => Cardinality(Given(n, give, s)) >= 1
           /\ \A i, j \in Given(n, give, s) :
                 i # j => Cardinality(Given(n, give, s)) >= 2
<1>1. IsFiniteSet(1 .. n)
  BY FS_Interval
<1>2. IsFiniteSet(Given(n, give, s))
  <2>1. Given(n, give, s) \subseteq 1 .. n
    BY DEF Given
  <2>. QED BY <1>1, <2>1, FS_Subset
<1>3. Cardinality(Given(n, give, s)) \in Nat
  BY <1>2, FS_CardinalityType
<1>4. Given(n, give, s) = {} <=> Cardinality(Given(n, give, s)) = 0
  BY <1>2, FS_EmptySet
<1>5. ASSUME NEW i \in Given(n, give, s), NEW j \in Given(n, give, s), i # j
      PROVE  Cardinality(Given(n, give, s)) >= 2
  <2>. DEFINE P == {i} \cup {j}
  <2>1. P \subseteq Given(n, give, s)
    OBVIOUS
  <2>2. IsFiniteSet({i}) /\ Cardinality({i}) = 1
    BY FS_Singleton
  <2>3. Cardinality(P) = Cardinality({i}) + 1
    BY <1>5, <2>2, FS_AddElement
  <2>. HIDE DEF P
  <2>4. Cardinality(P) <= Cardinality(Given(n, give, s))
    BY <1>2, <2>1, FS_Subset
  <2>. QED BY <1>3, <2>2, <2>3, <2>4
<1>. QED BY <1>3, <1>4, <1>5

(* What BatchAlloc does when it hands out the slots give. *)
Handout(w, n, give) ==
    /\ Head(need[w]) \in Oversize => n = 0
    /\ \A s \in Slots : offers[s] - Cardinality(Given(n, give, s)) >= 0
    /\ offers' = [s \in Slots |-> offers[s] - Cardinality(Given(n, give, s))]
    /\ items' = [items EXCEPT ![w] =
                    {[key |-> need[w][i], slot |-> give[i]] : i \in 1 .. n}]
    /\ need' = [need EXCEPT ![w] = SubSeq(need[w], n + 1, Len(need[w]))]

LEMMA BatchAllocHands ==
    ASSUME NEW w \in Writers, BatchAlloc(w)
    PROVE  \E n \in 0 .. Len(need[w]) : \E give \in [1 .. n -> Slots] :
              Handout(w, n, give)
<1>1. PICK n \in 0 .. Len(need[w]) : \E give \in [1 .. n -> Slots] :
        /\ Head(need[w]) \in Oversize => n = 0
        /\ \A s \in Slots : [u \in Slots |-> offers[u] - Cardinality(Given(n, give, u))][s] >= 0
        /\ offers' = [s \in Slots |-> offers[s] - Cardinality(Given(n, give, s))]
        /\ items' = [items EXCEPT ![w] =
                        {[key |-> need[w][i], slot |-> give[i]] : i \in 1 .. n}]
        /\ need' = [need EXCEPT ![w] = SubSeq(need[w], n + 1, Len(need[w]))]
  BY Zenon DEF BatchAlloc, Given
<1>2. PICK give \in [1 .. n -> Slots] :
        /\ Head(need[w]) \in Oversize => n = 0
        /\ \A s \in Slots : [u \in Slots |-> offers[u] - Cardinality(Given(n, give, u))][s] >= 0
        /\ offers' = [s \in Slots |-> offers[s] - Cardinality(Given(n, give, s))]
        /\ items' = [items EXCEPT ![w] =
                        {[key |-> need[w][i], slot |-> give[i]] : i \in 1 .. n}]
        /\ need' = [need EXCEPT ![w] = SubSeq(need[w], n + 1, Len(need[w]))]
  BY <1>1
<1>3. \A s \in Slots : offers[s] - Cardinality(Given(n, give, s)) >= 0
  BY <1>2, Zenon
<1>4. Handout(w, n, give)
  BY <1>2, <1>3 DEF Handout
<1>. QED BY <1>4

(* The locals of the eviction ladder. *)
LadderTypes ==
    /\ level \in [Writers -> 1 .. 3]
    /\ futile \in [Writers -> BOOLEAN]
    /\ lost \in [Writers -> 0 .. EvictTarget]
    /\ round \in [Writers -> Nat]
    /\ evicted \in [Writers -> Nat]

LEMMA LadderStarts ==
    ASSUME TypeOK, NEW w \in Writers, NEW n \in Nat, StartLadder(w, n)
    PROVE  LadderTypes'
<1>1. LadderTypes
  BY DEF TypeOK, LadderTypes
<1>2. level' \in [Writers -> 1 .. 3] /\ futile' \in [Writers -> BOOLEAN]
  BY <1>1 DEF StartLadder, LadderTypes
<1>3. round' \in [Writers -> Nat] /\ evicted' \in [Writers -> Nat]
  BY <1>1 DEF StartLadder, LadderTypes
<1>4. ASSUME NEW v \in Writers PROVE Least(EvictTarget, lost[v] + n) \in 0 .. EvictTarget
  BY <1>1, Bounds DEF Least, LadderTypes
<1>5. lost' \in [Writers -> 0 .. EvictTarget]
  BY <1>1, <1>4, Bounds DEF StartLadder, LadderTypes
<1>. QED BY <1>2, <1>3, <1>5 DEF LadderTypes

LEMMA TypesKept ==
    ASSUME TypeOK, Control, [Next]_vars
    PROVE  TypeOK'
<1>clock. clock \in Times
  BY DEF TypeOK
<1>calls. calls \in 0 .. MaxCalls
  BY DEF TypeOK
<1>offers. offers \in [Slots -> Nat]
  BY DEF TypeOK
<1>used. used \in Int
  BY DEF TypeOK
<1>index. index \in [Keys -> Slots \cup {NoSlot}]
  BY DEF TypeOK
<1>content. content \in [Slots -> Keys \cup {NoKey}]
  BY DEF TypeOK
<1>pending. pending \in Queues
  BY DEF TypeOK
<1>pc. pc \in [Threads -> Labels]
  BY DEF TypeOK
<1>todo. todo \in [Writers -> Seq(Keys)]
  BY DEF TypeOK
<1>need. need \in [Writers -> Seq(Keys)]
  BY DEF TypeOK
<1>items. items \in [Writers -> SUBSET Records]
  BY DEF TypeOK
<1>level. level \in [Writers -> 1 .. 3]
  BY DEF TypeOK
<1>futile. futile \in [Writers -> BOOLEAN]
  BY DEF TypeOK
<1>lost. lost \in [Writers -> 0 .. EvictTarget]
  BY DEF TypeOK
<1>cands. cands \in [Mutators -> SUBSET Records]
  BY DEF TypeOK
<1>hand. hand \in [Mutators -> Records \cup {NoRecord}]
  BY DEF TypeOK
<1>round. round \in [Writers -> Nat]
  BY DEF TypeOK
<1>evicted. evicted \in [Writers -> Nat]
  BY DEF TypeOK
<1>now. now \in [Threads -> Times]
  BY DEF TypeOK
<1>spoils. spoils \in [Threads -> Queues]
  BY DEF TypeOK
<1>. USE DEF Mutators, Threads
<1>1. ASSUME Tick PROVE TypeOK'
  <2>1. clock' \in Times
    BY <1>clock, <1>1, Bounds DEF Tick, Times
  <2>. QED BY <2>1, <1>1
     DEF Tick, TypeOK, putVars, evictVars, flushVars
<1>2. ASSUME ReaperWakes PROVE TypeOK'
  <2>1. pc' \in [Threads -> Labels]
    BY <1>pc, <1>2 DEF ReaperWakes, Goto, Labels
  <2>. QED BY <2>1, <1>2
     DEF ReaperWakes, TypeOK, putVars, evictVars, flushVars
<1>3. ASSUME LoopWakes PROVE TypeOK'
  <2>1. pc' \in [Threads -> Labels]
    BY <1>pc, <1>3 DEF LoopWakes, Goto, Labels
  <2>. QED BY <2>1, <1>3
     DEF LoopWakes, TypeOK, putVars, evictVars, flushVars
<1>30. ASSUME LoopTest PROVE TypeOK'
  <2>1. pc' \in [Threads -> Labels]
    BY <1>pc, <1>30 DEF LoopTest, Goto, Labels
  <2>. QED BY <2>1, <1>30
     DEF LoopTest, TypeOK, putVars, evictVars, flushVars
<1>4. ASSUME LoopPick PROVE TypeOK'
  <2>1. pc' \in [Threads -> Labels]
    BY <1>pc, <1>4 DEF LoopPick, Goto, Labels
  <2>2. cands' \in [Mutators -> SUBSET Records]
    <3>1. CASE cands' = cands
      BY <1>cands, <3>1
    <3>2. ASSUME NEW n, NEW C \in Snapshots(n), cands' = [cands EXCEPT ![Evictor] = C]
          PROVE  cands' \in [Mutators -> SUBSET Records]
      BY <1>cands, <3>2, SnapshotRecords
    <3>. QED BY <1>4, <3>1, <3>2 DEF LoopPick
  <2>. QED BY <2>1, <2>2, <1>4
     DEF LoopPick, TypeOK, putVars, evictVars, flushVars
<1>5. ASSUME NEW w \in Writers, NEW ks \in Batches[w], BatchPut(w, ks) PROVE TypeOK'
  <2>1. pc' \in [Threads -> Labels]
    BY <1>pc, <1>5 DEF BatchPut, Goto, Labels
  <2>2. calls' \in 0 .. MaxCalls
    <3>1. \/ calls' = calls
          \/ calls < MaxCalls /\ calls' = calls + 1
      BY <1>5 DEF BatchPut, CountCall
    <3>. QED BY <1>calls, <3>1, Bounds
  <2>3. todo' \in [Writers -> Seq(Keys)]
    BY <1>todo, StoreAssumption, <1>5 DEF BatchPut
  <2>. QED BY <2>1, <2>2, <2>3, <1>5
     DEF BatchPut, TypeOK, putVars, evictVars, flushVars
<1>6. ASSUME NEW w \in Writers, NEW k \in Removals[w], Remove(w, k) PROVE TypeOK'
  <2>1. pc' \in [Threads -> Labels]
    BY <1>pc, <1>6 DEF Remove, Goto, Labels
  <2>2. calls' \in 0 .. MaxCalls
    <3>1. \/ calls' = calls
          \/ calls < MaxCalls /\ calls' = calls + 1
      BY <1>6 DEF Remove, CountCall
    <3>. QED BY <1>calls, <3>1, Bounds
  <2>3. todo' \in [Writers -> Seq(Keys)]
    BY <1>todo, StoreAssumption, <1>6 DEF Remove
  <2>. QED BY <2>1, <2>2, <2>3, <1>6
     DEF Remove, TypeOK, putVars, evictVars, flushVars
<1>7. ASSUME NEW w \in Writers, CheckKey(w) PROVE TypeOK'
  <2>1. pc' \in [Threads -> Labels]
    BY <1>pc, <1>7 DEF CheckKey, Goto, Labels
  <2>2. todo' \in [Writers -> Seq(Keys)]
    <3>1. Tail(todo[w]) \in Seq(Keys)
      BY <1>todo, StoreAssumption, <1>7, HeadTail DEF CheckKey, Control, TodoKept
    <3>. QED BY <1>todo, StoreAssumption, <1>7, <3>1 DEF CheckKey
  <2>3. need' \in [Writers -> Seq(Keys)]
    <3>1. Head(todo[w]) \in Keys
      BY <1>need, <1>todo, <1>7, HeadTail DEF CheckKey, Control, TodoKept
    <3>2. Append(need[w], Head(todo[w])) \in Seq(Keys)
      BY <1>need, <1>todo, <3>1
    <3>3. \/ need' = [need EXCEPT ![w] = Append(need[w], Head(todo[w]))]
          \/ need' = [need EXCEPT ![w] = need[w]]
      BY <1>7 DEF CheckKey
    <3>. QED BY <1>need, <1>todo, <3>2, <3>3
  <2>. QED BY <2>1, <2>2, <2>3, <1>7
     DEF CheckKey, TypeOK, putVars, evictVars, flushVars
<1>8. ASSUME NEW w \in Writers, BatchAlloc(w) PROVE TypeOK'
  <2>1. pc' \in [Threads -> Labels]
    BY <1>pc, <1>8 DEF BatchAlloc, Goto, Labels, NextKey
  <2>2. offers' \in [Slots -> Nat]
    <3>1. PICK n \in 0 .. Len(need[w]) : \E give \in [1 .. n -> Slots] : Handout(w, n, give)
      BY <1>8, BatchAllocHands
    <3>2. PICK give \in [1 .. n -> Slots] : Handout(w, n, give)
      BY <3>1
    <3>3. n \in Nat
      BY <1>offers
    <3>4. ASSUME NEW s \in Slots
          PROVE  offers[s] - Cardinality(Given(n, give, s)) \in Nat
      <4>1. Cardinality(Given(n, give, s)) \in Nat
        BY <3>3, GivenCount
      <4>. QED BY <1>offers, <3>2, <4>1 DEF Handout
    <3>. QED BY <3>2, <3>4 DEF Handout
  <2>3. used' \in Int
    BY <1>used, <1>8 DEF BatchAlloc
  <2>4. items' \in [Writers -> SUBSET Records]
    <3>1. PICK n \in 0 .. Len(need[w]) : \E give \in [1 .. n -> Slots] : Handout(w, n, give)
      BY <1>8, BatchAllocHands
    <3>2. PICK give \in [1 .. n -> Slots] : Handout(w, n, give)
      BY <3>1
    <3>3. \A i \in 1 .. n : need[w][i] \in Keys /\ give[i] \in Slots
      BY <1>items, <1>need
    <3>4. {[key |-> need[w][i], slot |-> give[i]] : i \in 1 .. n} \in SUBSET Records
      BY <3>3 DEF Records
    <3>. QED BY <1>items, <1>need, <3>2, <3>4 DEF Handout
  <2>5. need' \in [Writers -> Seq(Keys)]
    <3>1. PICK n \in 0 .. Len(need[w]) : \E give \in [1 .. n -> Slots] : Handout(w, n, give)
      BY <1>8, BatchAllocHands
    <3>2. PICK give \in [1 .. n -> Slots] : Handout(w, n, give)
      BY <3>1
    <3>3. SubSeq(need[w], n + 1, Len(need[w])) \in Seq(Keys)
      BY <1>need, <1>todo, SubSeqProperties
    <3>. QED BY <1>need, <1>todo, <3>2, <3>3 DEF Handout
  <2>6. PICK n \in 0 .. Len(need[w]) : StartLadder(w, n)
    BY <1>8 DEF BatchAlloc
  <2>7. LadderTypes'
    BY <1>need, <2>6, LadderStarts
  <2>. QED BY <2>1, <2>2, <2>3, <2>4, <2>5, <2>7, <1>8
     DEF BatchAlloc, TypeOK, putVars, evictVars, flushVars, LadderTypes
<1>9. ASSUME NEW w \in Writers, AllocOk(w) PROVE TypeOK'
  <2>1. pc' \in [Threads -> Labels]
    BY <1>pc, <1>9 DEF AllocOk, Goto, Labels, NextKey
  <2>2. offers' \in [Slots -> Nat]
    BY <1>offers, <1>9 DEF AllocOk
  <2>3. used' \in Int
    BY <1>used, <1>9 DEF AllocOk
  <2>4. items' \in [Writers -> SUBSET Records]
    <3>1. Head(need[w]) \in Keys
      BY <1>items, <1>need, <1>9, HeadTail DEF AllocOk, Control, NeedKept, Ladder
    <3>2. PICK s \in Slots :
             items' = [items EXCEPT ![w] = @ \cup {[key |-> Head(need[w]), slot |-> s]}]
      BY <1>9 DEF AllocOk
    <3>3. items[w] \cup {[key |-> Head(need[w]), slot |-> s]} \in SUBSET Records
      BY <1>items, <1>need, <3>1 DEF Records
    <3>. QED BY <1>items, <1>need, <3>2, <3>3
  <2>5. need' \in [Writers -> Seq(Keys)]
    <3>1. Tail(need[w]) \in Seq(Keys)
      BY <1>need, <1>todo, <1>9, HeadTail DEF AllocOk, Control, NeedKept, Ladder
    <3>. QED BY <1>need, <1>todo, <1>9, <3>1 DEF AllocOk
  <2>6. LadderTypes'
    BY <1>9, LadderStarts DEF AllocOk
  <2>. QED BY <2>1, <2>2, <2>3, <2>4, <2>5, <2>6, <1>9
     DEF AllocOk, TypeOK, putVars, evictVars, flushVars, LadderTypes
<1>10. ASSUME NEW w \in Writers, ClimbLadder(w) PROVE TypeOK'
  <2>1. pc' \in [Threads -> Labels]
    BY <1>pc, <1>10 DEF ClimbLadder, Goto, Labels
  <2>2. level' \in [Writers -> 1 .. 3]
    <3>1. level[w] + 1 \in 1 .. 3
      BY <1>level, <1>10 DEF ClimbLadder
    <3>. QED BY <1>level, <1>10, <3>1 DEF ClimbLadder
  <2>. QED BY <2>1, <2>2, <1>10
     DEF ClimbLadder, TypeOK, putVars, evictVars, flushVars
<1>11. ASSUME NEW w \in Writers, NoSpace(w) PROVE TypeOK'
  <2>1. pc' \in [Threads -> Labels]
    BY <1>pc, <1>11 DEF NoSpace, Goto, Labels, NextKey
  <2>2. need' \in [Writers -> Seq(Keys)]
    <3>1. Tail(need[w]) \in Seq(Keys)
      BY <1>need, <1>todo, <1>11, HeadTail DEF NoSpace, Control, NeedKept, Ladder
    <3>. QED BY <1>need, <1>todo, <1>11, <3>1 DEF NoSpace
  <2>3. LadderTypes'
    BY <1>11, LadderStarts DEF NoSpace
  <2>. QED BY <2>1, <2>2, <2>3, <1>11
     DEF NoSpace, TypeOK, putVars, evictVars, flushVars, LadderTypes
<1>12. ASSUME NEW w \in Writers, WriteStarts(w) PROVE TypeOK'
  <2>1. pc' \in [Threads -> Labels]
    BY <1>pc, <1>12 DEF WriteStarts, Goto, Labels
  <2>2. content' \in [Slots -> Keys \cup {NoKey}]
    BY <1>content, <1>items, <1>12 DEF WriteStarts
  <2>. QED BY <2>1, <2>2, <1>12
     DEF WriteStarts, TypeOK, putVars, evictVars, flushVars
<1>13. ASSUME NEW w \in Writers, WriteOk(w) PROVE TypeOK'
  <2>1. pc' \in [Threads -> Labels]
    BY <1>pc, <1>13 DEF WriteOk, Goto, Labels
  <2>2. content' \in [Slots -> Keys \cup {NoKey}]
    BY <1>content, <1>items, <1>13, WrittenTypes DEF WriteOk
  <2>. QED BY <2>1, <2>2, <1>13
     DEF WriteOk, TypeOK, putVars, evictVars, flushVars
<1>14. ASSUME NEW w \in Writers, WriteFails(w) PROVE TypeOK'
  <2>1. pc' \in [Threads -> Labels]
    BY <1>pc, <1>14 DEF WriteFails, Goto, Labels
  <2>2. content' \in [Slots -> Keys \cup {NoKey}]
    <3>1. PICK done \in SUBSET items[w] : content' = Written(done)
      BY <1>14 DEF WriteFails
    <3>2. done \in SUBSET Records
      BY <1>content, <1>items
    <3>. QED BY <3>1, <3>2, WrittenTypes
  <2>. QED BY <2>1, <2>2, <1>14
     DEF WriteFails, TypeOK, putVars, evictVars, flushVars
<1>15. ASSUME NEW w \in Writers, Unwind(w) PROVE TypeOK'
  <2>1. pc' \in [Threads -> Labels]
    BY <1>pc, <1>15 DEF Unwind, Goto, Labels
  <2>2. offers' \in [Slots -> Nat]
    <3>1. PICK c \in items[w] : offers' = [offers EXCEPT ![c.slot] = @ + 1]
      BY <1>15 DEF Unwind, FreeSlot
    <3>2. c.slot \in Slots
      BY <1>items DEF Records
    <3>. QED BY <1>offers, <3>1, <3>2
  <2>3. used' \in Int
    BY <1>used, <1>15 DEF Unwind, FreeSlot
  <2>4. items' \in [Writers -> SUBSET Records]
    <3>1. PICK c \in items[w] : items' = [items EXCEPT ![w] = @ \ {c}]
      BY <1>15 DEF Unwind
    <3>2. items[w] \ {c} \in SUBSET Records
      BY <1>items, <1>need
    <3>. QED BY <1>items, <1>need, <3>1, <3>2
  <2>. QED BY <2>1, <2>2, <2>3, <2>4, <1>15
     DEF Unwind, TypeOK, putVars, evictVars, flushVars
<1>16. ASSUME NEW w \in Writers, Publish(w) PROVE TypeOK'
  <2>1. pc' \in [Threads -> Labels]
    BY <1>pc, <1>16 DEF Publish, Goto, Labels
  <2>2. index' \in [Keys -> Slots \cup {NoSlot}]
    BY <1>index, <1>items, <1>cands, <1>16 DEF Publish, Records
  <2>3. items' \in [Writers -> SUBSET Records]
    BY <1>items, <1>need, <1>16 DEF Publish, Records
  <2>. QED BY <2>1, <2>2, <2>3, <1>16
     DEF Publish, TypeOK, putVars, evictVars, flushVars
<1>17. ASSUME NEW w \in Writers, ForcePick(w) PROVE TypeOK'
  <2>1. pc' \in [Threads -> Labels]
    <3>1. Goto(w, "sync") \/ Goto(w, "now")
      BY <1>17 DEF ForcePick
    <3>. QED BY <1>pc, <3>1 DEF Goto, Labels
  <2>2. cands' \in [Mutators -> SUBSET Records]
    <3>1. CASE cands' = cands
      BY <1>cands, <3>1
    <3>2. ASSUME NEW n, NEW C \in Snapshots(n), cands' = [cands EXCEPT ![w] = C]
          PROVE  cands' \in [Mutators -> SUBSET Records]
      BY <1>cands, <3>2, SnapshotRecords
    <3>. QED BY <1>17, <3>1, <3>2 DEF ForcePick
  <2>3. round' \in [Writers -> Nat]
    <3>1. round' = round \/ round' = [round EXCEPT ![w] = @ + 1]
      BY <1>17 DEF ForcePick
    <3>. QED BY <1>round, <3>1
  <2>4. futile' \in [Writers -> BOOLEAN]
    <3>1. futile' = futile \/ futile' = [futile EXCEPT ![w] = @ \/ Indexed = {}]
      BY <1>17 DEF ForcePick
    <3>. QED BY <1>futile, <3>1
  <2>. QED BY <2>1, <2>2, <2>3, <2>4, <1>17
     DEF ForcePick, TypeOK, putVars, evictVars, flushVars
<1>18. ASSUME NEW t \in Mutators, SyncRemoveOk(t) PROVE TypeOK'
  <2>1. pc' \in [Threads -> Labels]
    BY <1>pc, <1>18 DEF SyncRemoveOk, Goto, Labels
  <2>. QED BY <2>1, <1>18
     DEF SyncRemoveOk, TypeOK, putVars, evictVars, flushVars
<1>19. ASSUME NEW t \in Mutators, SyncRemoveFails(t) PROVE TypeOK'
  <2>1. pc' \in [Threads -> Labels]
    BY <1>pc, <1>19 DEF SyncRemoveFails, Goto, Labels
  <2>2. cands' \in [Mutators -> SUBSET Records]
    BY <1>cands, <1>19 DEF SyncRemoveFails, Records, Snapshots, Indexed
  <2>3. futile' \in [Writers -> BOOLEAN]
    BY <1>futile, <1>19 DEF SyncRemoveFails
  <2>. QED BY <2>1, <2>2, <2>3, <1>19
     DEF SyncRemoveFails, TypeOK, putVars, evictVars, flushVars
<1>20. ASSUME NEW t \in Mutators, EvictRemove(t) PROVE TypeOK'
  <2>1. pc' \in [Threads -> Labels]
    BY <1>pc, <1>20 DEF EvictRemove, Goto, Labels
  <2>2. index' \in [Keys -> Slots \cup {NoSlot}]
    BY <1>index, <1>items, <1>cands, <1>20 DEF EvictRemove, Records
  <2>3. hand' \in [Mutators -> Records \cup {NoRecord}]
    BY <1>hand, <1>cands, <1>index, <1>20 DEF EvictRemove, Records
  <2>4. cands' \in [Mutators -> SUBSET Records]
    BY <1>cands, <1>20 DEF EvictRemove, Records, Snapshots, Indexed
  <2>. QED BY <2>1, <2>2, <2>3, <2>4, <1>20
     DEF EvictRemove, TypeOK, putVars, evictVars, flushVars
<1>21. ASSUME NEW t \in Mutators, EvictEnqueue(t) PROVE TypeOK'
  <2>1. pc' \in [Threads -> Labels]
    BY <1>pc, <1>21 DEF EvictEnqueue, Goto, Labels
  <2>2. pending' \in Queues
    <3>1. pending' = [pending EXCEPT ![hand[t].slot][clock] = @ + 1]
      BY <1>21 DEF EvictEnqueue, Enqueue
    <3>. QED BY <1>pending, <1>hand, <1>clock, <3>1, EnqueueTypes
  <2>3. hand' \in [Mutators -> Records \cup {NoRecord}]
    BY <1>hand, <1>cands, <1>index, <1>21 DEF EvictEnqueue, Records
  <2>4. evicted' \in [Writers -> Nat]
    BY <1>evicted, <1>21 DEF EvictEnqueue
  <2>. QED BY <2>1, <2>2, <2>3, <2>4, <1>21
     DEF EvictEnqueue, TypeOK, putVars, evictVars, flushVars
<1>22. ASSUME NEW t \in Threads, ReadNow(t) PROVE TypeOK'
  <2>1. pc' \in [Threads -> Labels]
    BY <1>pc, <1>22 DEF ReadNow, Goto, Labels
  <2>2. now' \in [Threads -> Times]
    BY <1>now, <1>clock, <1>22 DEF ReadNow
  <2>. QED BY <2>1, <2>2, <1>22
     DEF ReadNow, TypeOK, putVars, evictVars, flushVars
<1>23. ASSUME NEW t \in Threads, TakeExpired(t) PROVE TypeOK'
  <2>1. pc' \in [Threads -> Labels]
    BY <1>pc, <1>23 DEF TakeExpired, Goto, Labels, AfterFlush
  <2>2. spoils' \in [Threads -> Queues]
    <3>. DEFINE taken == [s \in Slots |-> [e \in Times |->
                            IF Expired(now[t], e) THEN pending[s][e] ELSE 0]]
    <3>1. taken \in Queues
      BY <1>spoils, <1>pending DEF Queues
    <3>2. spoils' = [spoils EXCEPT ![t] = taken]
      BY <1>23 DEF TakeExpired
    <3>. HIDE DEF taken
    <3>. QED BY <1>spoils, <1>pending, <3>1, <3>2
  <2>3. pending' \in Queues
    BY <1>pending, <1>hand, <1>clock, <1>23 DEF TakeExpired, Queues
  <2>. QED BY <2>1, <2>2, <2>3, <1>23
     DEF TakeExpired, TypeOK, putVars, evictVars, flushVars
<1>24. ASSUME NEW t \in Threads, FreeTaken(t) PROVE TypeOK'
  <2>1. pc' \in [Threads -> Labels]
    BY <1>pc, <1>24 DEF FreeTaken, Goto, Labels, AfterFlush
  <2>2. spoils' \in [Threads -> Queues]
    <3>1. PICK s \in Slots, e \in Times :
             spoils[t][s][e] > 0 /\ spoils' = [spoils EXCEPT ![t][s][e] = @ - 1]
      BY <1>24 DEF FreeTaken
    <3>2. spoils[t][s][e] - 1 \in Nat
      BY <1>spoils, <1>pending, <3>1 DEF Queues
    <3>3. [spoils[t] EXCEPT ![s] = [@ EXCEPT ![e] = spoils[t][s][e] - 1]] \in Queues
      BY <1>spoils, <1>pending, <3>2 DEF Queues
    <3>. QED BY <1>spoils, <1>pending, <3>1, <3>3
  <2>3. offers' \in [Slots -> Nat]
    <3>1. PICK s \in Slots : offers' = [offers EXCEPT ![s] = @ + 1]
      BY <1>24 DEF FreeTaken, FreeSlot
    <3>. QED BY <1>offers, <3>1
  <2>4. used' \in Int
    BY <1>used, <1>24 DEF FreeTaken, FreeSlot
  <2>. QED BY <2>1, <2>2, <2>3, <2>4, <1>24
     DEF FreeTaken, TypeOK, putVars, evictVars, flushVars
<1>25. ASSUME NEW w \in Writers, TakeAll(w) PROVE TypeOK'
  <2>1. pc' \in [Threads -> Labels]
    BY <1>pc, <1>25 DEF TakeAll, Goto, Labels
  <2>2. spoils' \in [Threads -> Queues]
    BY <1>spoils, <1>pending, <1>25 DEF TakeAll, Queues
  <2>3. pending' \in Queues
    BY <1>pending, <1>hand, <1>clock, <1>25 DEF TakeAll, Queues, EmptyQueue
  <2>. QED BY <2>1, <2>2, <2>3, <1>25
     DEF TakeAll, TypeOK, putVars, evictVars, flushVars
<1>26. ASSUME NEW w \in Writers, RemoveSync(w) PROVE TypeOK'
  <2>1. pc' \in [Threads -> Labels]
    BY <1>pc, <1>26 DEF RemoveSync, Goto, Labels
  <2>2. todo' \in [Writers -> Seq(Keys)]
    <3>1. todo' = todo \/ todo' = [todo EXCEPT ![w] = <<>>]
      BY <1>26 DEF RemoveSync
    <3>2. <<>> \in Seq(Keys)
      OBVIOUS
    <3>. QED BY <1>todo, <3>1, <3>2
  <2>. QED BY <2>1, <2>2, <1>26
     DEF RemoveSync, TypeOK, putVars, evictVars, flushVars
<1>27. ASSUME NEW w \in Writers, RemoveFromIndex(w) PROVE TypeOK'
  <2>1. pc' \in [Threads -> Labels]
    <3>1. Goto(w, "idle") \/ Goto(w, "rmenqueue")
      BY <1>27 DEF RemoveFromIndex
    <3>. QED BY <1>pc, <3>1 DEF Goto, Labels
  <2>2. todo' \in [Writers -> Seq(Keys)]
    BY <1>todo, StoreAssumption, <1>27 DEF RemoveFromIndex
  <2>3. index' \in [Keys -> Slots \cup {NoSlot}]
    BY <1>index, <1>items, <1>cands, <1>27 DEF RemoveFromIndex, Records
  <2>4. hand' \in [Mutators -> Records \cup {NoRecord}]
    <3>1. Head(todo[w]) \in Keys
      BY <1>todo, <1>27, HeadTail DEF RemoveFromIndex, Control, TodoKept
    <3>2. \/ hand' = hand
          \/ /\ index[Head(todo[w])] # NoSlot
             /\ hand' = [hand EXCEPT ![w] =
                           [key |-> Head(todo[w]), slot |-> index[Head(todo[w])]]]
      BY <1>27 DEF RemoveFromIndex
    <3>. QED BY <1>hand, <1>cands, <1>index, <3>1, <3>2 DEF Records
  <2>. QED BY <2>1, <2>2, <2>3, <2>4, <1>27
     DEF RemoveFromIndex, TypeOK, putVars, evictVars, flushVars
<1>28. ASSUME NEW w \in Writers, RemoveEnqueue(w) PROVE TypeOK'
  <2>1. pc' \in [Threads -> Labels]
    BY <1>pc, <1>28 DEF RemoveEnqueue, Goto, Labels
  <2>2. pending' \in Queues
    <3>1. pending' = [pending EXCEPT ![hand[w].slot][clock] = @ + 1]
      BY <1>28 DEF RemoveEnqueue, Enqueue
    <3>. QED BY <1>pending, <1>hand, <1>clock, <3>1, EnqueueTypes
  <2>3. hand' \in [Mutators -> Records \cup {NoRecord}]
    BY <1>hand, <1>cands, <1>index, <1>28 DEF RemoveEnqueue, Records
  <2>. QED BY <2>1, <2>2, <2>3, <1>28
     DEF RemoveEnqueue, TypeOK, putVars, evictVars, flushVars
<1>29. ASSUME UNCHANGED vars PROVE TypeOK'
  BY <1>29 DEF vars, TypeOK
<1>. QED BY <1>1, <1>2, <1>3, <1>4, <1>5, <1>6, <1>7, <1>8, <1>9, <1>10, <1>11, <1>12, <1>13, <1>14, <1>15,
             <1>16, <1>17, <1>18, <1>19, <1>20, <1>21, <1>22, <1>23, <1>24, <1>25, <1>26, <1>27, <1>28, <1>29,
             <1>30
   DEF Next, Calls, WriterStep, PutStep, EvictStep, FlushStep, RemoveStep, EvictorStep,
       Mutators, Threads


----------------------------------------------------------------------------
(* Types and control *)

LEMMA TodoKeptAlways ==
    ASSUME TypeOK, Control, [Next]_vars
    PROVE  TodoKept'
<1>0. pc \in [Threads -> Labels] /\ todo \in [Writers -> Seq(Keys)]
  BY DEF TypeOK
<1>. SUFFICES ASSUME NEW v \in Writers, pc'[v] \in {"check", "rmsync", "rmindex"}
              PROVE  todo'[v] # <<>>
  BY DEF TodoKept
<1>h. pc[v] \in {"check", "rmsync", "rmindex"} => todo[v] # <<>>
  BY DEF Control, TodoKept
<1>. USE <1>0, <1>h, StoreAssumption DEF Mutators, Threads
<1>1. ASSUME Tick PROVE todo'[v] # <<>>
  BY <1>1 DEF Tick, Goto, putVars, evictVars, flushVars, StartLadder, NextKey, AfterFlush
<1>2. ASSUME ReaperWakes PROVE todo'[v] # <<>>
  BY <1>2 DEF ReaperWakes, Goto, putVars, evictVars, flushVars, StartLadder, NextKey, AfterFlush
<1>3. ASSUME LoopWakes PROVE todo'[v] # <<>>
  BY <1>3 DEF LoopWakes, Goto, putVars, evictVars, flushVars, StartLadder, NextKey, AfterFlush
<1>30. ASSUME LoopTest PROVE todo'[v] # <<>>
  BY <1>30 DEF LoopTest, Goto, putVars, evictVars, flushVars, StartLadder, NextKey, AfterFlush
<1>4. ASSUME LoopPick PROVE todo'[v] # <<>>
  BY <1>4 DEF LoopPick, Goto, putVars, evictVars, flushVars, StartLadder, NextKey, AfterFlush
<1>5. ASSUME NEW w \in Writers, NEW ks \in Batches[w], BatchPut(w, ks) PROVE todo'[v] # <<>>
  BY <1>5 DEF BatchPut, Goto, putVars, evictVars, flushVars, StartLadder, NextKey, AfterFlush
<1>6. ASSUME NEW w \in Writers, NEW k \in Removals[w], Remove(w, k) PROVE todo'[v] # <<>>
  BY <1>6 DEF Remove, Goto, putVars, evictVars, flushVars, StartLadder, NextKey, AfterFlush
<1>7. ASSUME NEW w \in Writers, CheckKey(w) PROVE todo'[v] # <<>>
  BY <1>7 DEF CheckKey, Goto, putVars, evictVars, flushVars, StartLadder, NextKey, AfterFlush
<1>8. ASSUME NEW w \in Writers, BatchAlloc(w) PROVE todo'[v] # <<>>
  BY <1>8 DEF BatchAlloc, Goto, putVars, evictVars, flushVars, StartLadder, NextKey, AfterFlush
<1>9. ASSUME NEW w \in Writers, AllocOk(w) PROVE todo'[v] # <<>>
  BY <1>9 DEF AllocOk, Goto, putVars, evictVars, flushVars, StartLadder, NextKey, AfterFlush
<1>10. ASSUME NEW w \in Writers, ClimbLadder(w) PROVE todo'[v] # <<>>
  BY <1>10 DEF ClimbLadder, Goto, putVars, evictVars, flushVars, StartLadder, NextKey, AfterFlush
<1>11. ASSUME NEW w \in Writers, NoSpace(w) PROVE todo'[v] # <<>>
  BY <1>11 DEF NoSpace, Goto, putVars, evictVars, flushVars, StartLadder, NextKey, AfterFlush
<1>12. ASSUME NEW w \in Writers, WriteStarts(w) PROVE todo'[v] # <<>>
  BY <1>12 DEF WriteStarts, Goto, putVars, evictVars, flushVars, StartLadder, NextKey, AfterFlush
<1>13. ASSUME NEW w \in Writers, WriteOk(w) PROVE todo'[v] # <<>>
  BY <1>13 DEF WriteOk, Goto, putVars, evictVars, flushVars, StartLadder, NextKey, AfterFlush
<1>14. ASSUME NEW w \in Writers, WriteFails(w) PROVE todo'[v] # <<>>
  BY <1>14 DEF WriteFails, Goto, putVars, evictVars, flushVars, StartLadder, NextKey, AfterFlush
<1>15. ASSUME NEW w \in Writers, Unwind(w) PROVE todo'[v] # <<>>
  BY <1>15 DEF Unwind, Goto, putVars, evictVars, flushVars, StartLadder, NextKey, AfterFlush
<1>16. ASSUME NEW w \in Writers, Publish(w) PROVE todo'[v] # <<>>
  BY <1>16 DEF Publish, Goto, putVars, evictVars, flushVars, StartLadder, NextKey, AfterFlush
<1>17. ASSUME NEW w \in Writers, ForcePick(w) PROVE todo'[v] # <<>>
  BY <1>17 DEF ForcePick, Goto, putVars, evictVars, flushVars, StartLadder, NextKey, AfterFlush
<1>18. ASSUME NEW t \in Mutators, SyncRemoveOk(t) PROVE todo'[v] # <<>>
  BY <1>18 DEF SyncRemoveOk, Goto, putVars, evictVars, flushVars, StartLadder, NextKey, AfterFlush
<1>19. ASSUME NEW t \in Mutators, SyncRemoveFails(t) PROVE todo'[v] # <<>>
  BY <1>19 DEF SyncRemoveFails, Goto, putVars, evictVars, flushVars, StartLadder, NextKey, AfterFlush
<1>20. ASSUME NEW t \in Mutators, EvictRemove(t) PROVE todo'[v] # <<>>
  BY <1>20 DEF EvictRemove, Goto, putVars, evictVars, flushVars, StartLadder, NextKey, AfterFlush
<1>21. ASSUME NEW t \in Mutators, EvictEnqueue(t) PROVE todo'[v] # <<>>
  BY <1>21 DEF EvictEnqueue, Goto, putVars, evictVars, flushVars, StartLadder, NextKey, AfterFlush
<1>22. ASSUME NEW t \in Threads, ReadNow(t) PROVE todo'[v] # <<>>
  BY <1>22 DEF ReadNow, Goto, putVars, evictVars, flushVars, StartLadder, NextKey, AfterFlush
<1>23. ASSUME NEW t \in Threads, TakeExpired(t) PROVE todo'[v] # <<>>
  BY <1>23 DEF TakeExpired, Goto, putVars, evictVars, flushVars, StartLadder, NextKey, AfterFlush
<1>24. ASSUME NEW t \in Threads, FreeTaken(t) PROVE todo'[v] # <<>>
  BY <1>24 DEF FreeTaken, Goto, putVars, evictVars, flushVars, StartLadder, NextKey, AfterFlush
<1>25. ASSUME NEW w \in Writers, TakeAll(w) PROVE todo'[v] # <<>>
  BY <1>25 DEF TakeAll, Goto, putVars, evictVars, flushVars, StartLadder, NextKey, AfterFlush
<1>26. ASSUME NEW w \in Writers, RemoveSync(w) PROVE todo'[v] # <<>>
  BY <1>26 DEF RemoveSync, Goto, putVars, evictVars, flushVars, StartLadder, NextKey, AfterFlush
<1>27. ASSUME NEW w \in Writers, RemoveFromIndex(w) PROVE todo'[v] # <<>>
  BY <1>27 DEF RemoveFromIndex, Goto, putVars, evictVars, flushVars, StartLadder, NextKey, AfterFlush
<1>28. ASSUME NEW w \in Writers, RemoveEnqueue(w) PROVE todo'[v] # <<>>
  BY <1>28 DEF RemoveEnqueue, Goto, putVars, evictVars, flushVars, StartLadder, NextKey, AfterFlush
<1>29. ASSUME UNCHANGED vars PROVE todo'[v] # <<>>
  BY <1>29 DEF vars, Goto, putVars, evictVars, flushVars, StartLadder, NextKey, AfterFlush
<1>. QED BY <1>1, <1>2, <1>3, <1>4, <1>5, <1>6, <1>7, <1>8, <1>9, <1>10, <1>11, <1>12, <1>13, <1>14, <1>15,
             <1>16, <1>17, <1>18, <1>19, <1>20, <1>21, <1>22, <1>23, <1>24, <1>25, <1>26, <1>27, <1>28, <1>29,
             <1>30
   DEF Next, Calls, WriterStep, PutStep, EvictStep, FlushStep, RemoveStep, EvictorStep,
       Mutators, Threads

LEMMA NeedKeptAlways ==
    ASSUME TypeOK, Control, [Next]_vars
    PROVE  NeedKept'
<1>0. pc \in [Threads -> Labels] /\ need \in [Writers -> Seq(Keys)]
  BY DEF TypeOK
<1>. SUFFICES ASSUME NEW v \in Writers, pc'[v] \in Ladder \cup {"balloc"}
              PROVE  need'[v] # <<>>
  BY DEF NeedKept
<1>h. pc[v] \in Ladder \cup {"balloc"} => need[v] # <<>>
  BY DEF Control, NeedKept
<1>. USE <1>0, <1>h, StoreAssumption DEF Mutators, Threads, Ladder
<1>1. ASSUME Tick PROVE need'[v] # <<>>
  BY <1>1 DEF Tick, Goto, putVars, evictVars, flushVars, StartLadder, NextKey, AfterFlush
<1>2. ASSUME ReaperWakes PROVE need'[v] # <<>>
  BY <1>2 DEF ReaperWakes, Goto, putVars, evictVars, flushVars, StartLadder, NextKey, AfterFlush
<1>3. ASSUME LoopWakes PROVE need'[v] # <<>>
  BY <1>3 DEF LoopWakes, Goto, putVars, evictVars, flushVars, StartLadder, NextKey, AfterFlush
<1>30. ASSUME LoopTest PROVE need'[v] # <<>>
  BY <1>30 DEF LoopTest, Goto, putVars, evictVars, flushVars, StartLadder, NextKey, AfterFlush
<1>4. ASSUME LoopPick PROVE need'[v] # <<>>
  BY <1>4 DEF LoopPick, Goto, putVars, evictVars, flushVars, StartLadder, NextKey, AfterFlush
<1>5. ASSUME NEW w \in Writers, NEW ks \in Batches[w], BatchPut(w, ks) PROVE need'[v] # <<>>
  BY <1>5 DEF BatchPut, Goto, putVars, evictVars, flushVars, StartLadder, NextKey, AfterFlush
<1>6. ASSUME NEW w \in Writers, NEW k \in Removals[w], Remove(w, k) PROVE need'[v] # <<>>
  BY <1>6 DEF Remove, Goto, putVars, evictVars, flushVars, StartLadder, NextKey, AfterFlush
<1>7. ASSUME NEW w \in Writers, CheckKey(w) PROVE need'[v] # <<>>
  BY <1>7 DEF CheckKey, Goto, putVars, evictVars, flushVars, StartLadder, NextKey, AfterFlush
<1>8. ASSUME NEW w \in Writers, BatchAlloc(w) PROVE need'[v] # <<>>
  BY <1>8 DEF BatchAlloc, Goto, putVars, evictVars, flushVars, StartLadder, NextKey, AfterFlush
<1>9. ASSUME NEW w \in Writers, AllocOk(w) PROVE need'[v] # <<>>
  BY <1>9 DEF AllocOk, Goto, putVars, evictVars, flushVars, StartLadder, NextKey, AfterFlush
<1>10. ASSUME NEW w \in Writers, ClimbLadder(w) PROVE need'[v] # <<>>
  BY <1>10 DEF ClimbLadder, Goto, putVars, evictVars, flushVars, StartLadder, NextKey, AfterFlush
<1>11. ASSUME NEW w \in Writers, NoSpace(w) PROVE need'[v] # <<>>
  BY <1>11 DEF NoSpace, Goto, putVars, evictVars, flushVars, StartLadder, NextKey, AfterFlush
<1>12. ASSUME NEW w \in Writers, WriteStarts(w) PROVE need'[v] # <<>>
  BY <1>12 DEF WriteStarts, Goto, putVars, evictVars, flushVars, StartLadder, NextKey, AfterFlush
<1>13. ASSUME NEW w \in Writers, WriteOk(w) PROVE need'[v] # <<>>
  BY <1>13 DEF WriteOk, Goto, putVars, evictVars, flushVars, StartLadder, NextKey, AfterFlush
<1>14. ASSUME NEW w \in Writers, WriteFails(w) PROVE need'[v] # <<>>
  BY <1>14 DEF WriteFails, Goto, putVars, evictVars, flushVars, StartLadder, NextKey, AfterFlush
<1>15. ASSUME NEW w \in Writers, Unwind(w) PROVE need'[v] # <<>>
  BY <1>15 DEF Unwind, Goto, putVars, evictVars, flushVars, StartLadder, NextKey, AfterFlush
<1>16. ASSUME NEW w \in Writers, Publish(w) PROVE need'[v] # <<>>
  BY <1>16 DEF Publish, Goto, putVars, evictVars, flushVars, StartLadder, NextKey, AfterFlush
<1>17. ASSUME NEW w \in Writers, ForcePick(w) PROVE need'[v] # <<>>
  BY <1>17 DEF ForcePick, Goto, putVars, evictVars, flushVars, StartLadder, NextKey, AfterFlush
<1>18. ASSUME NEW t \in Mutators, SyncRemoveOk(t) PROVE need'[v] # <<>>
  BY <1>18 DEF SyncRemoveOk, Goto, putVars, evictVars, flushVars, StartLadder, NextKey, AfterFlush
<1>19. ASSUME NEW t \in Mutators, SyncRemoveFails(t) PROVE need'[v] # <<>>
  BY <1>19 DEF SyncRemoveFails, Goto, putVars, evictVars, flushVars, StartLadder, NextKey, AfterFlush
<1>20. ASSUME NEW t \in Mutators, EvictRemove(t) PROVE need'[v] # <<>>
  BY <1>20 DEF EvictRemove, Goto, putVars, evictVars, flushVars, StartLadder, NextKey, AfterFlush
<1>21. ASSUME NEW t \in Mutators, EvictEnqueue(t) PROVE need'[v] # <<>>
  BY <1>21 DEF EvictEnqueue, Goto, putVars, evictVars, flushVars, StartLadder, NextKey, AfterFlush
<1>22. ASSUME NEW t \in Threads, ReadNow(t) PROVE need'[v] # <<>>
  BY <1>22 DEF ReadNow, Goto, putVars, evictVars, flushVars, StartLadder, NextKey, AfterFlush
<1>23. ASSUME NEW t \in Threads, TakeExpired(t) PROVE need'[v] # <<>>
  BY <1>23 DEF TakeExpired, Goto, putVars, evictVars, flushVars, StartLadder, NextKey, AfterFlush
<1>24. ASSUME NEW t \in Threads, FreeTaken(t) PROVE need'[v] # <<>>
  BY <1>24 DEF FreeTaken, Goto, putVars, evictVars, flushVars, StartLadder, NextKey, AfterFlush
<1>25. ASSUME NEW w \in Writers, TakeAll(w) PROVE need'[v] # <<>>
  BY <1>25 DEF TakeAll, Goto, putVars, evictVars, flushVars, StartLadder, NextKey, AfterFlush
<1>26. ASSUME NEW w \in Writers, RemoveSync(w) PROVE need'[v] # <<>>
  BY <1>26 DEF RemoveSync, Goto, putVars, evictVars, flushVars, StartLadder, NextKey, AfterFlush
<1>27. ASSUME NEW w \in Writers, RemoveFromIndex(w) PROVE need'[v] # <<>>
  BY <1>27 DEF RemoveFromIndex, Goto, putVars, evictVars, flushVars, StartLadder, NextKey, AfterFlush
<1>28. ASSUME NEW w \in Writers, RemoveEnqueue(w) PROVE need'[v] # <<>>
  BY <1>28 DEF RemoveEnqueue, Goto, putVars, evictVars, flushVars, StartLadder, NextKey, AfterFlush
<1>29. ASSUME UNCHANGED vars PROVE need'[v] # <<>>
  BY <1>29 DEF vars, Goto, putVars, evictVars, flushVars, StartLadder, NextKey, AfterFlush
<1>. QED BY <1>1, <1>2, <1>3, <1>4, <1>5, <1>6, <1>7, <1>8, <1>9, <1>10, <1>11, <1>12, <1>13, <1>14, <1>15,
             <1>16, <1>17, <1>18, <1>19, <1>20, <1>21, <1>22, <1>23, <1>24, <1>25, <1>26, <1>27, <1>28, <1>29,
             <1>30
   DEF Next, Calls, WriterStep, PutStep, EvictStep, FlushStep, RemoveStep, EvictorStep,
       Mutators, Threads

LEMMA ClockReadAlways ==
    ASSUME TypeOK, Control, [Next]_vars
    PROVE  ClockRead'
<1>0. /\ clock \in Nat /\ now \in [Threads -> Times]
      /\ \A t \in Threads : now[t] \in Nat /\ now[t] <= clock
  BY Bounds DEF TypeOK, Times, Control, ClockRead
<1>. USE <1>0 DEF ClockRead
<1>1. ASSUME Tick PROVE ClockRead'
  BY <1>1 DEF Tick, flushVars
<1>2. ASSUME ReaperWakes PROVE ClockRead'
  BY <1>2 DEF ReaperWakes, flushVars
<1>3. ASSUME LoopWakes PROVE ClockRead'
  BY <1>3 DEF LoopWakes, flushVars
<1>30. ASSUME LoopTest PROVE ClockRead'
  BY <1>30 DEF LoopTest, flushVars
<1>4. ASSUME LoopPick PROVE ClockRead'
  BY <1>4 DEF LoopPick, flushVars
<1>5. ASSUME NEW w \in Writers, NEW ks \in Batches[w], BatchPut(w, ks) PROVE ClockRead'
  BY <1>5 DEF BatchPut, flushVars
<1>6. ASSUME NEW w \in Writers, NEW k \in Removals[w], Remove(w, k) PROVE ClockRead'
  BY <1>6 DEF Remove, flushVars
<1>7. ASSUME NEW w \in Writers, CheckKey(w) PROVE ClockRead'
  BY <1>7 DEF CheckKey, flushVars
<1>8. ASSUME NEW w \in Writers, BatchAlloc(w) PROVE ClockRead'
  BY <1>8 DEF BatchAlloc, flushVars
<1>9. ASSUME NEW w \in Writers, AllocOk(w) PROVE ClockRead'
  BY <1>9 DEF AllocOk, flushVars
<1>10. ASSUME NEW w \in Writers, ClimbLadder(w) PROVE ClockRead'
  BY <1>10 DEF ClimbLadder, flushVars
<1>11. ASSUME NEW w \in Writers, NoSpace(w) PROVE ClockRead'
  BY <1>11 DEF NoSpace, flushVars
<1>12. ASSUME NEW w \in Writers, WriteStarts(w) PROVE ClockRead'
  BY <1>12 DEF WriteStarts, flushVars
<1>13. ASSUME NEW w \in Writers, WriteOk(w) PROVE ClockRead'
  BY <1>13 DEF WriteOk, flushVars
<1>14. ASSUME NEW w \in Writers, WriteFails(w) PROVE ClockRead'
  BY <1>14 DEF WriteFails, flushVars
<1>15. ASSUME NEW w \in Writers, Unwind(w) PROVE ClockRead'
  BY <1>15 DEF Unwind, flushVars
<1>16. ASSUME NEW w \in Writers, Publish(w) PROVE ClockRead'
  BY <1>16 DEF Publish, flushVars
<1>17. ASSUME NEW w \in Writers, ForcePick(w) PROVE ClockRead'
  BY <1>17 DEF ForcePick, flushVars
<1>18. ASSUME NEW t \in Mutators, SyncRemoveOk(t) PROVE ClockRead'
  BY <1>18 DEF SyncRemoveOk, flushVars
<1>19. ASSUME NEW t \in Mutators, SyncRemoveFails(t) PROVE ClockRead'
  BY <1>19 DEF SyncRemoveFails, flushVars
<1>20. ASSUME NEW t \in Mutators, EvictRemove(t) PROVE ClockRead'
  BY <1>20 DEF EvictRemove, flushVars
<1>21. ASSUME NEW t \in Mutators, EvictEnqueue(t) PROVE ClockRead'
  BY <1>21 DEF EvictEnqueue, flushVars
<1>22. ASSUME NEW t \in Threads, ReadNow(t) PROVE ClockRead'
  BY <1>22 DEF ReadNow, flushVars
<1>23. ASSUME NEW t \in Threads, TakeExpired(t) PROVE ClockRead'
  BY <1>23 DEF TakeExpired, flushVars
<1>24. ASSUME NEW t \in Threads, FreeTaken(t) PROVE ClockRead'
  BY <1>24 DEF FreeTaken, flushVars
<1>25. ASSUME NEW w \in Writers, TakeAll(w) PROVE ClockRead'
  BY <1>25 DEF TakeAll, flushVars
<1>26. ASSUME NEW w \in Writers, RemoveSync(w) PROVE ClockRead'
  BY <1>26 DEF RemoveSync, flushVars
<1>27. ASSUME NEW w \in Writers, RemoveFromIndex(w) PROVE ClockRead'
  BY <1>27 DEF RemoveFromIndex, flushVars
<1>28. ASSUME NEW w \in Writers, RemoveEnqueue(w) PROVE ClockRead'
  BY <1>28 DEF RemoveEnqueue, flushVars
<1>29. ASSUME UNCHANGED vars PROVE ClockRead'
  BY <1>29 DEF vars, flushVars
<1>. QED BY <1>1, <1>2, <1>3, <1>4, <1>5, <1>6, <1>7, <1>8, <1>9, <1>10, <1>11, <1>12, <1>13, <1>14, <1>15,
             <1>16, <1>17, <1>18, <1>19, <1>20, <1>21, <1>22, <1>23, <1>24, <1>25, <1>26, <1>27, <1>28, <1>29,
             <1>30
   DEF Next, Calls, WriterStep, PutStep, EvictStep, FlushStep, RemoveStep, EvictorStep,
       Mutators, Threads

LEMMA ControlAlways ==
    ASSUME TypeOK, Control, [Next]_vars
    PROVE  TypeOK' /\ Control'
  BY TypesKept, TodoKeptAlways, NeedKeptAlways, ClockReadAlways DEF Control


LEMMA InitControl == ASSUME Init PROVE TypeOK /\ Control
<1>1. EmptyQueue \in Queues /\ 0 \in Times /\ 0 \in 0 .. MaxCalls /\ 0 \in 0 .. EvictTarget
  BY Bounds DEF EmptyQueue, Queues, Times
<1>2. [w \in Writers |-> <<>>] \in [Writers -> Seq(Keys)]
  OBVIOUS
<1>3. TypeOK
  <2>1. [w \in Writers |-> 0] \in [Writers -> 0 .. EvictTarget]
    BY <1>1
  <2>. QED BY SMTT(60), <1>1, <1>2, <2>1 DEF Init, TypeOK, Labels
<1>4. Control
  BY <1>1 DEF Init, Control, TodoKept, NeedKept, ClockRead, Ladder, Threads, Mutators
<1>. QED BY <1>3, <1>4

(* Every state of the store has the types of the code's fields and locals. *)
THEOREM TypeCorrect == Spec => []TypeOK
<1>1. Init => TypeOK /\ Control
  BY InitControl
<1>2. TypeOK /\ Control /\ [Next]_vars => TypeOK' /\ Control'
  BY ControlAlways
<1>. QED BY <1>1, <1>2, PTL DEF Spec

----------------------------------------------------------------------------
(* The grace period *)

(* What leaves the queue in a flush has waited, unless the flush had read  *)
(* the clock before it came.                                               *)
LEMMA TakenHasWaited ==
    ASSUME TypeOK, Control, NEW u \in Threads, TakeExpired(u),
           NEW s \in Slots, NEW e \in Times, pending'[s][e] < pending[s][e]
    PROVE  clock - e >= Grace \/ e > now[u]
<1>1. /\ clock \in Nat /\ now[u] \in Nat /\ e \in Nat /\ now[u] <= clock
      /\ pending[s][e] \in Nat
  BY Bounds DEF TypeOK, Times, Queues, Control, ClockRead
<1>2. pending'[s][e] = IF Expired(now[u], e) THEN 0 ELSE pending[s][e]
  BY DEF TakeExpired
<1>3. Expired(now[u], e)
  BY <1>1, <1>2
<1>. QED BY <1>1, <1>3, Bounds DEF Expired


Waited(e) ==
    \/ clock - e >= Grace
    \/ \E w \in Writers : TakeAll(w)
    \/ \E u \in Threads : e > now[u] /\ TakeExpired(u)

LEMMA WaitedOrForced ==
    ASSUME TypeOK, Control, [Next]_vars,
           NEW s \in Slots, NEW e \in Times, pending'[s][e] < pending[s][e]
    PROVE  Waited(e)
<1>0. pending \in Queues /\ clock \in Times /\ pending[s][e] \in Nat
  BY DEF TypeOK, Queues
<1>. USE <1>0
<1>1. ASSUME Tick PROVE Waited(e)
  BY <1>1 DEF Tick, putVars, evictVars, flushVars
<1>2. ASSUME ReaperWakes PROVE Waited(e)
  BY <1>2 DEF ReaperWakes, putVars, evictVars, flushVars
<1>3. ASSUME LoopWakes PROVE Waited(e)
  BY <1>3 DEF LoopWakes, putVars, evictVars, flushVars
<1>30. ASSUME LoopTest PROVE Waited(e)
  BY <1>30 DEF LoopTest, putVars, evictVars, flushVars
<1>4. ASSUME LoopPick PROVE Waited(e)
  BY <1>4 DEF LoopPick, putVars, evictVars, flushVars
<1>5. ASSUME NEW w \in Writers, NEW ks \in Batches[w], BatchPut(w, ks) PROVE Waited(e)
  BY <1>5 DEF BatchPut, putVars, evictVars, flushVars
<1>6. ASSUME NEW w \in Writers, NEW k \in Removals[w], Remove(w, k) PROVE Waited(e)
  BY <1>6 DEF Remove, putVars, evictVars, flushVars
<1>7. ASSUME NEW w \in Writers, CheckKey(w) PROVE Waited(e)
  BY <1>7 DEF CheckKey, putVars, evictVars, flushVars
<1>8. ASSUME NEW w \in Writers, BatchAlloc(w) PROVE Waited(e)
  BY <1>8 DEF BatchAlloc, putVars, evictVars, flushVars
<1>9. ASSUME NEW w \in Writers, AllocOk(w) PROVE Waited(e)
  BY <1>9 DEF AllocOk, putVars, evictVars, flushVars
<1>10. ASSUME NEW w \in Writers, ClimbLadder(w) PROVE Waited(e)
  BY <1>10 DEF ClimbLadder, putVars, evictVars, flushVars
<1>11. ASSUME NEW w \in Writers, NoSpace(w) PROVE Waited(e)
  BY <1>11 DEF NoSpace, putVars, evictVars, flushVars
<1>12. ASSUME NEW w \in Writers, WriteStarts(w) PROVE Waited(e)
  BY <1>12 DEF WriteStarts, putVars, evictVars, flushVars
<1>13. ASSUME NEW w \in Writers, WriteOk(w) PROVE Waited(e)
  BY <1>13 DEF WriteOk, putVars, evictVars, flushVars
<1>14. ASSUME NEW w \in Writers, WriteFails(w) PROVE Waited(e)
  BY <1>14 DEF WriteFails, putVars, evictVars, flushVars
<1>15. ASSUME NEW w \in Writers, Unwind(w) PROVE Waited(e)
  BY <1>15 DEF Unwind, putVars, evictVars, flushVars
<1>16. ASSUME NEW w \in Writers, Publish(w) PROVE Waited(e)
  BY <1>16 DEF Publish, putVars, evictVars, flushVars
<1>17. ASSUME NEW w \in Writers, ForcePick(w) PROVE Waited(e)
  BY <1>17 DEF ForcePick, putVars, evictVars, flushVars
<1>18. ASSUME NEW t \in Mutators, SyncRemoveOk(t) PROVE Waited(e)
  BY <1>18 DEF SyncRemoveOk, putVars, evictVars, flushVars
<1>19. ASSUME NEW t \in Mutators, SyncRemoveFails(t) PROVE Waited(e)
  BY <1>19 DEF SyncRemoveFails, putVars, evictVars, flushVars
<1>20. ASSUME NEW t \in Mutators, EvictRemove(t) PROVE Waited(e)
  BY <1>20 DEF EvictRemove, putVars, evictVars, flushVars
<1>21. ASSUME NEW t \in Mutators, EvictEnqueue(t) PROVE Waited(e)
  <2>1. pending' = [pending EXCEPT ![hand[t].slot][clock] = @ + 1]
    BY <1>21 DEF EvictEnqueue, Enqueue
  <2>2. pending'[s][e] = pending[s][e] \/ pending'[s][e] = pending[s][e] + 1
    BY <2>1 DEF Queues
  <2>. QED BY <2>2
<1>22. ASSUME NEW t \in Threads, ReadNow(t) PROVE Waited(e)
  BY <1>22 DEF ReadNow, putVars, evictVars, flushVars
<1>23. ASSUME NEW t \in Threads, TakeExpired(t) PROVE Waited(e)
  BY <1>23, TakenHasWaited DEF Waited
<1>24. ASSUME NEW t \in Threads, FreeTaken(t) PROVE Waited(e)
  BY <1>24 DEF FreeTaken, putVars, evictVars, flushVars
<1>25. ASSUME NEW w \in Writers, TakeAll(w) PROVE Waited(e)
  BY <1>25 DEF Waited
<1>26. ASSUME NEW w \in Writers, RemoveSync(w) PROVE Waited(e)
  BY <1>26 DEF RemoveSync, putVars, evictVars, flushVars
<1>27. ASSUME NEW w \in Writers, RemoveFromIndex(w) PROVE Waited(e)
  BY <1>27 DEF RemoveFromIndex, putVars, evictVars, flushVars
<1>28. ASSUME NEW w \in Writers, RemoveEnqueue(w) PROVE Waited(e)
  <2>1. pending' = [pending EXCEPT ![hand[w].slot][clock] = @ + 1]
    BY <1>28 DEF RemoveEnqueue, Enqueue
  <2>2. pending'[s][e] = pending[s][e] \/ pending'[s][e] = pending[s][e] + 1
    BY <2>1 DEF Queues
  <2>. QED BY <2>2
<1>29. ASSUME UNCHANGED vars PROVE Waited(e)
  BY <1>29 DEF vars, putVars, evictVars, flushVars
<1>. QED BY <1>1, <1>2, <1>3, <1>4, <1>5, <1>6, <1>7, <1>8, <1>9, <1>10, <1>11, <1>12, <1>13, <1>14, <1>15,
             <1>16, <1>17, <1>18, <1>19, <1>20, <1>21, <1>22, <1>23, <1>24, <1>25, <1>26, <1>27, <1>28, <1>29,
             <1>30
   DEF Next, Calls, WriterStep, PutStep, EvictStep, FlushStep, RemoveStep, EvictorStep,
       Mutators, Threads

(* An entry of the PendingEvictQueue leaves before its grace period is over*)
(* only by FlushAllForced, or by a flush whose clock is older than it.     *)
THEOREM GracePeriodKept == Spec => GraceUnlessStaleClock
<1>1. Init => TypeOK /\ Control
  BY InitControl
<1>2. TypeOK /\ Control /\ [Next]_vars => TypeOK' /\ Control'
  BY ControlAlways
<1>3. TypeOK /\ Control /\ [Next]_vars =>
        [\A s \in Slots, t \in Times :
          pending'[s][t] < pending[s][t] =>
              \/ clock - t >= Grace
              \/ \E w \in Writers : TakeAll(w)
              \/ \E u \in Threads : t > now[u] /\ TakeExpired(u)]_vars
  BY WaitedOrForced DEF Waited
<1>. QED BY <1>1, <1>2, <1>3, PTL DEF Spec, GraceUnlessStaleClock


----------------------------------------------------------------------------
(* One eviction at a time, and what a thread leaves behind *)

LEMMA AloneAlways ==
    ASSUME Apart, OwnInv, [Next]_vars
    PROVE  Alone'
<1>0. pc \in [Threads -> Labels] /\ Guarded /\ Evictor \notin Writers /\ Reaper \notin Mutators
  BY StoreAssumption DEF OwnInv, TypeOK, Apart
<1>. SUFFICES ASSUME NEW x \in Mutators, NEW y \in Mutators, Evicting(x)', Evicting(y)'
              PROVE  x = y
  BY DEF Alone
<1>h. Evicting(x) /\ Evicting(y) => x = y
  BY DEF OwnInv, Alone
<1>. USE <1>0, <1>h DEF Evicting, Mutators, Threads
<1>1. ASSUME Tick PROVE x = y
  BY <1>1 DEF Tick, Goto, putVars, evictVars, flushVars, StartLadder, NextKey, AfterFlush
<1>2. ASSUME ReaperWakes PROVE x = y
  BY <1>2 DEF ReaperWakes, Goto, putVars, evictVars, flushVars, StartLadder, NextKey, AfterFlush
<1>3. ASSUME LoopWakes PROVE x = y
  BY <1>3 DEF LoopWakes, Goto, putVars, evictVars, flushVars, StartLadder, NextKey, AfterFlush
<1>30. ASSUME LoopTest PROVE x = y
  BY <1>30 DEF LoopTest, Goto, putVars, evictVars, flushVars, StartLadder, NextKey, AfterFlush
<1>4. ASSUME LoopPick PROVE x = y
  BY <1>4 DEF LoopPick, MayEvict, Goto, putVars, evictVars, flushVars, StartLadder, NextKey, AfterFlush
<1>5. ASSUME NEW w \in Writers, NEW ks \in Batches[w], BatchPut(w, ks) PROVE x = y
  BY <1>5 DEF BatchPut, Goto, putVars, evictVars, flushVars, StartLadder, NextKey, AfterFlush
<1>6. ASSUME NEW w \in Writers, NEW k \in Removals[w], Remove(w, k) PROVE x = y
  BY <1>6 DEF Remove, MayEvict, Goto, putVars, evictVars, flushVars, StartLadder, NextKey, AfterFlush
<1>7. ASSUME NEW w \in Writers, CheckKey(w) PROVE x = y
  BY <1>7 DEF CheckKey, Goto, putVars, evictVars, flushVars, StartLadder, NextKey, AfterFlush
<1>8. ASSUME NEW w \in Writers, BatchAlloc(w) PROVE x = y
  BY <1>8 DEF BatchAlloc, Goto, putVars, evictVars, flushVars, StartLadder, NextKey, AfterFlush
<1>9. ASSUME NEW w \in Writers, AllocOk(w) PROVE x = y
  BY <1>9 DEF AllocOk, Goto, putVars, evictVars, flushVars, StartLadder, NextKey, AfterFlush
<1>10. ASSUME NEW w \in Writers, ClimbLadder(w) PROVE x = y
  BY <1>10 DEF ClimbLadder, Goto, putVars, evictVars, flushVars, StartLadder, NextKey, AfterFlush
<1>11. ASSUME NEW w \in Writers, NoSpace(w) PROVE x = y
  BY <1>11 DEF NoSpace, Goto, putVars, evictVars, flushVars, StartLadder, NextKey, AfterFlush
<1>12. ASSUME NEW w \in Writers, WriteStarts(w) PROVE x = y
  BY <1>12 DEF WriteStarts, Goto, putVars, evictVars, flushVars, StartLadder, NextKey, AfterFlush
<1>13. ASSUME NEW w \in Writers, WriteOk(w) PROVE x = y
  BY <1>13 DEF WriteOk, Goto, putVars, evictVars, flushVars, StartLadder, NextKey, AfterFlush
<1>14. ASSUME NEW w \in Writers, WriteFails(w) PROVE x = y
  BY <1>14 DEF WriteFails, Goto, putVars, evictVars, flushVars, StartLadder, NextKey, AfterFlush
<1>15. ASSUME NEW w \in Writers, Unwind(w) PROVE x = y
  BY <1>15 DEF Unwind, Goto, putVars, evictVars, flushVars, StartLadder, NextKey, AfterFlush
<1>16. ASSUME NEW w \in Writers, Publish(w) PROVE x = y
  BY <1>16 DEF Publish, Goto, putVars, evictVars, flushVars, StartLadder, NextKey, AfterFlush
<1>17. ASSUME NEW w \in Writers, ForcePick(w) PROVE x = y
  BY <1>17 DEF ForcePick, MayEvict, Goto, putVars, evictVars, flushVars, StartLadder, NextKey, AfterFlush
<1>18. ASSUME NEW t \in Mutators, SyncRemoveOk(t) PROVE x = y
  BY <1>18 DEF SyncRemoveOk, Goto, putVars, evictVars, flushVars, StartLadder, NextKey, AfterFlush
<1>19. ASSUME NEW t \in Mutators, SyncRemoveFails(t) PROVE x = y
  BY <1>19 DEF SyncRemoveFails, Goto, putVars, evictVars, flushVars, StartLadder, NextKey, AfterFlush
<1>20. ASSUME NEW t \in Mutators, EvictRemove(t) PROVE x = y
  BY <1>20 DEF EvictRemove, Goto, putVars, evictVars, flushVars, StartLadder, NextKey, AfterFlush
<1>21. ASSUME NEW t \in Mutators, EvictEnqueue(t) PROVE x = y
  BY <1>21 DEF EvictEnqueue, Goto, putVars, evictVars, flushVars, StartLadder, NextKey, AfterFlush
<1>22. ASSUME NEW t \in Threads, ReadNow(t) PROVE x = y
  BY <1>22 DEF ReadNow, Goto, putVars, evictVars, flushVars, StartLadder, NextKey, AfterFlush
<1>23. ASSUME NEW t \in Threads, TakeExpired(t) PROVE x = y
  BY <1>23 DEF TakeExpired, Goto, putVars, evictVars, flushVars, StartLadder, NextKey, AfterFlush
<1>24. ASSUME NEW t \in Threads, FreeTaken(t) PROVE x = y
  BY <1>24 DEF FreeTaken, Goto, putVars, evictVars, flushVars, StartLadder, NextKey, AfterFlush
<1>25. ASSUME NEW w \in Writers, TakeAll(w) PROVE x = y
  BY <1>25 DEF TakeAll, Goto, putVars, evictVars, flushVars, StartLadder, NextKey, AfterFlush
<1>26. ASSUME NEW w \in Writers, RemoveSync(w) PROVE x = y
  BY <1>26 DEF RemoveSync, Goto, putVars, evictVars, flushVars, StartLadder, NextKey, AfterFlush
<1>27. ASSUME NEW w \in Writers, RemoveFromIndex(w) PROVE x = y
  BY <1>27 DEF RemoveFromIndex, Goto, putVars, evictVars, flushVars, StartLadder, NextKey, AfterFlush
<1>28. ASSUME NEW w \in Writers, RemoveEnqueue(w) PROVE x = y
  BY <1>28 DEF RemoveEnqueue, Goto, putVars, evictVars, flushVars, StartLadder, NextKey, AfterFlush
<1>29. ASSUME UNCHANGED vars PROVE x = y
  BY <1>29 DEF vars, Goto, putVars, evictVars, flushVars, StartLadder, NextKey, AfterFlush
<1>. QED BY <1>1, <1>2, <1>3, <1>4, <1>5, <1>6, <1>7, <1>8, <1>9, <1>10, <1>11, <1>12, <1>13, <1>14, <1>15,
             <1>16, <1>17, <1>18, <1>19, <1>20, <1>21, <1>22, <1>23, <1>24, <1>25, <1>26, <1>27, <1>28, <1>29,
             <1>30
   DEF Next, Calls, WriterStep, PutStep, EvictStep, FlushStep, RemoveStep, EvictorStep,
       Mutators, Threads

LEMMA HandsAlways ==
    ASSUME Apart, OwnInv, [Next]_vars
    PROVE  Hands'
<1>0. /\ pc \in [Threads -> Labels] /\ hand \in [Mutators -> Records \cup {NoRecord}]
      /\ Evictor \notin Writers /\ Reaper \notin Mutators
  BY StoreAssumption DEF OwnInv, TypeOK
<1>. SUFFICES ASSUME NEW x \in Mutators
              PROVE  IF pc'[x] \in {"enqueue", "rmenqueue"} THEN hand'[x] \in Records
                                                            ELSE hand'[x] = NoRecord
  BY DEF Hands
<1>h. IF pc[x] \in {"enqueue", "rmenqueue"} THEN hand[x] \in Records
                                            ELSE hand[x] = NoRecord
  BY DEF OwnInv, Hands
<1>. DEFINE Kept == IF pc'[x] \in {"enqueue", "rmenqueue"} THEN hand'[x] \in Records
                                                           ELSE hand'[x] = NoRecord
<1>. USE <1>0, <1>h DEF Mutators, Threads
<1>1. ASSUME Tick PROVE Kept
  BY <1>1 DEF Tick, Goto, putVars, evictVars, flushVars, StartLadder, NextKey, AfterFlush
<1>2. ASSUME ReaperWakes PROVE Kept
  BY <1>2 DEF ReaperWakes, Goto, putVars, evictVars, flushVars, StartLadder, NextKey, AfterFlush
<1>3. ASSUME LoopWakes PROVE Kept
  BY <1>3 DEF LoopWakes, Goto, putVars, evictVars, flushVars, StartLadder, NextKey, AfterFlush
<1>30. ASSUME LoopTest PROVE Kept
  BY <1>30 DEF LoopTest, Goto, putVars, evictVars, flushVars, StartLadder, NextKey, AfterFlush
<1>4. ASSUME LoopPick PROVE Kept
  BY <1>4 DEF LoopPick, Goto, putVars, evictVars, flushVars, StartLadder, NextKey, AfterFlush
<1>5. ASSUME NEW w \in Writers, NEW ks \in Batches[w], BatchPut(w, ks) PROVE Kept
  BY <1>5 DEF BatchPut, Goto, putVars, evictVars, flushVars, StartLadder, NextKey, AfterFlush
<1>6. ASSUME NEW w \in Writers, NEW k \in Removals[w], Remove(w, k) PROVE Kept
  BY <1>6 DEF Remove, Goto, putVars, evictVars, flushVars, StartLadder, NextKey, AfterFlush
<1>7. ASSUME NEW w \in Writers, CheckKey(w) PROVE Kept
  BY <1>7 DEF CheckKey, Goto, putVars, evictVars, flushVars, StartLadder, NextKey, AfterFlush
<1>8. ASSUME NEW w \in Writers, BatchAlloc(w) PROVE Kept
  BY <1>8 DEF BatchAlloc, Goto, putVars, evictVars, flushVars, StartLadder, NextKey, AfterFlush
<1>9. ASSUME NEW w \in Writers, AllocOk(w) PROVE Kept
  BY <1>9 DEF AllocOk, Goto, putVars, evictVars, flushVars, StartLadder, NextKey, AfterFlush
<1>10. ASSUME NEW w \in Writers, ClimbLadder(w) PROVE Kept
  BY <1>10 DEF ClimbLadder, Goto, putVars, evictVars, flushVars, StartLadder, NextKey, AfterFlush
<1>11. ASSUME NEW w \in Writers, NoSpace(w) PROVE Kept
  BY <1>11 DEF NoSpace, Goto, putVars, evictVars, flushVars, StartLadder, NextKey, AfterFlush
<1>12. ASSUME NEW w \in Writers, WriteStarts(w) PROVE Kept
  BY <1>12 DEF WriteStarts, Goto, putVars, evictVars, flushVars, StartLadder, NextKey, AfterFlush
<1>13. ASSUME NEW w \in Writers, WriteOk(w) PROVE Kept
  BY <1>13 DEF WriteOk, Goto, putVars, evictVars, flushVars, StartLadder, NextKey, AfterFlush
<1>14. ASSUME NEW w \in Writers, WriteFails(w) PROVE Kept
  BY <1>14 DEF WriteFails, Goto, putVars, evictVars, flushVars, StartLadder, NextKey, AfterFlush
<1>15. ASSUME NEW w \in Writers, Unwind(w) PROVE Kept
  BY <1>15 DEF Unwind, Goto, putVars, evictVars, flushVars, StartLadder, NextKey, AfterFlush
<1>16. ASSUME NEW w \in Writers, Publish(w) PROVE Kept
  BY <1>16 DEF Publish, Goto, putVars, evictVars, flushVars, StartLadder, NextKey, AfterFlush
<1>17. ASSUME NEW w \in Writers, ForcePick(w) PROVE Kept
  BY <1>17 DEF ForcePick, Goto, putVars, evictVars, flushVars, StartLadder, NextKey, AfterFlush
<1>18. ASSUME NEW t \in Mutators, SyncRemoveOk(t) PROVE Kept
  BY <1>18 DEF SyncRemoveOk, Goto, putVars, evictVars, flushVars, StartLadder, NextKey, AfterFlush
<1>19. ASSUME NEW t \in Mutators, SyncRemoveFails(t) PROVE Kept
  BY <1>19 DEF SyncRemoveFails, Goto, putVars, evictVars, flushVars, StartLadder, NextKey, AfterFlush
<1>20. ASSUME NEW t \in Mutators, EvictRemove(t) PROVE Kept
  <2>1. PICK c \in cands[t] : hand' = [hand EXCEPT ![t] = c]
    BY <1>20 DEF EvictRemove
  <2>2. c \in Records
    BY DEF OwnInv, TypeOK
  <2>. QED BY <1>20, <2>1, <2>2 DEF EvictRemove, Goto, putVars, evictVars, flushVars, StartLadder, NextKey, AfterFlush
<1>21. ASSUME NEW t \in Mutators, EvictEnqueue(t) PROVE Kept
  BY <1>21 DEF EvictEnqueue, Goto, putVars, evictVars, flushVars, StartLadder, NextKey, AfterFlush
<1>22. ASSUME NEW t \in Threads, ReadNow(t) PROVE Kept
  BY <1>22 DEF ReadNow, Goto, putVars, evictVars, flushVars, StartLadder, NextKey, AfterFlush
<1>23. ASSUME NEW t \in Threads, TakeExpired(t) PROVE Kept
  BY <1>23 DEF TakeExpired, Goto, putVars, evictVars, flushVars, StartLadder, NextKey, AfterFlush
<1>24. ASSUME NEW t \in Threads, FreeTaken(t) PROVE Kept
  BY <1>24 DEF FreeTaken, Goto, putVars, evictVars, flushVars, StartLadder, NextKey, AfterFlush
<1>25. ASSUME NEW w \in Writers, TakeAll(w) PROVE Kept
  BY <1>25 DEF TakeAll, Goto, putVars, evictVars, flushVars, StartLadder, NextKey, AfterFlush
<1>26. ASSUME NEW w \in Writers, RemoveSync(w) PROVE Kept
  BY <1>26 DEF RemoveSync, Goto, putVars, evictVars, flushVars, StartLadder, NextKey, AfterFlush
<1>27. ASSUME NEW w \in Writers, RemoveFromIndex(w) PROVE Kept
  <2>1. Head(todo[w]) \in Keys /\ index[Head(todo[w])] \in Slots \cup {NoSlot}
    BY <1>27, HeadTail DEF RemoveFromIndex, OwnInv, TypeOK, Control, TodoKept
  <2>2. index[Head(todo[w])] # NoSlot =>
           [key |-> Head(todo[w]), slot |-> index[Head(todo[w])]] \in Records
    BY <2>1 DEF Records
  <2>. QED BY <1>27, <2>2 DEF RemoveFromIndex, Goto, putVars, evictVars, flushVars, StartLadder, NextKey, AfterFlush
<1>28. ASSUME NEW w \in Writers, RemoveEnqueue(w) PROVE Kept
  BY <1>28 DEF RemoveEnqueue, Goto, putVars, evictVars, flushVars, StartLadder, NextKey, AfterFlush
<1>29. ASSUME UNCHANGED vars PROVE Kept
  BY <1>29 DEF vars, Goto, putVars, evictVars, flushVars, StartLadder, NextKey, AfterFlush
<1>. QED BY <1>1, <1>2, <1>3, <1>4, <1>5, <1>6, <1>7, <1>8, <1>9, <1>10, <1>11, <1>12, <1>13, <1>14, <1>15,
             <1>16, <1>17, <1>18, <1>19, <1>20, <1>21, <1>22, <1>23, <1>24, <1>25, <1>26, <1>27, <1>28, <1>29,
             <1>30
   DEF Next, Calls, WriterStep, PutStep, EvictStep, FlushStep, RemoveStep, EvictorStep,
       Mutators, Threads

LEMMA PutsCleared ==
    ASSUME Apart, OwnInv, [Next]_vars
    PROVE  \A x \in Writers : ClearedPut(x)'
<1>0. /\ pc \in [Threads -> Labels] /\ todo \in [Writers -> Seq(Keys)]
      /\ need \in [Writers -> Seq(Keys)] /\ items \in [Writers -> SUBSET Records]
      /\ Evictor \notin Writers /\ Reaper \notin Mutators
  BY StoreAssumption DEF OwnInv, TypeOK
<1>. SUFFICES ASSUME NEW x \in Writers
              PROVE  ClearedPut(x)'
  OBVIOUS
<1>h. ClearedPut(x)
  BY DEF OwnInv, Cleared
<1>. USE <1>0, <1>h DEF Mutators, Threads, ClearedPut, Removing
<1>1. ASSUME Tick PROVE ClearedPut(x)'
  BY <1>1 DEF Tick, Goto, putVars, evictVars, flushVars, StartLadder, NextKey, AfterFlush
<1>2. ASSUME ReaperWakes PROVE ClearedPut(x)'
  BY <1>2 DEF ReaperWakes, Goto, putVars, evictVars, flushVars, StartLadder, NextKey, AfterFlush
<1>3. ASSUME LoopWakes PROVE ClearedPut(x)'
  BY <1>3 DEF LoopWakes, Goto, putVars, evictVars, flushVars, StartLadder, NextKey, AfterFlush
<1>30. ASSUME LoopTest PROVE ClearedPut(x)'
  BY <1>30 DEF LoopTest, Goto, putVars, evictVars, flushVars, StartLadder, NextKey, AfterFlush
<1>4. ASSUME LoopPick PROVE ClearedPut(x)'
  BY <1>4 DEF LoopPick, Goto, putVars, evictVars, flushVars, StartLadder, NextKey, AfterFlush
<1>5. ASSUME NEW w \in Writers, NEW ks \in Batches[w], BatchPut(w, ks) PROVE ClearedPut(x)'
  BY <1>5 DEF BatchPut, Goto, putVars, evictVars, flushVars, StartLadder, NextKey, AfterFlush
<1>6. ASSUME NEW w \in Writers, NEW k \in Removals[w], Remove(w, k) PROVE ClearedPut(x)'
  BY <1>6 DEF Remove, Goto, putVars, evictVars, flushVars, StartLadder, NextKey, AfterFlush
<1>7. ASSUME NEW w \in Writers, CheckKey(w) PROVE ClearedPut(x)'
  BY <1>7 DEF CheckKey, Goto, putVars, evictVars, flushVars, StartLadder, NextKey, AfterFlush
<1>8. ASSUME NEW w \in Writers, BatchAlloc(w) PROVE ClearedPut(x)'
  BY <1>8 DEF BatchAlloc, Goto, putVars, evictVars, flushVars, StartLadder, NextKey, AfterFlush
<1>9. ASSUME NEW w \in Writers, AllocOk(w) PROVE ClearedPut(x)'
  BY <1>9 DEF AllocOk, Goto, putVars, evictVars, flushVars, StartLadder, NextKey, AfterFlush
<1>10. ASSUME NEW w \in Writers, ClimbLadder(w) PROVE ClearedPut(x)'
  BY <1>10 DEF ClimbLadder, Goto, putVars, evictVars, flushVars, StartLadder, NextKey, AfterFlush
<1>11. ASSUME NEW w \in Writers, NoSpace(w) PROVE ClearedPut(x)'
  BY <1>11 DEF NoSpace, Goto, putVars, evictVars, flushVars, StartLadder, NextKey, AfterFlush
<1>12. ASSUME NEW w \in Writers, WriteStarts(w) PROVE ClearedPut(x)'
  BY <1>12 DEF WriteStarts, Goto, putVars, evictVars, flushVars, StartLadder, NextKey, AfterFlush
<1>13. ASSUME NEW w \in Writers, WriteOk(w) PROVE ClearedPut(x)'
  BY <1>13 DEF WriteOk, Goto, putVars, evictVars, flushVars, StartLadder, NextKey, AfterFlush
<1>14. ASSUME NEW w \in Writers, WriteFails(w) PROVE ClearedPut(x)'
  BY <1>14 DEF WriteFails, Goto, putVars, evictVars, flushVars, StartLadder, NextKey, AfterFlush
<1>15. ASSUME NEW w \in Writers, Unwind(w) PROVE ClearedPut(x)'
  BY <1>15 DEF Unwind, Goto, putVars, evictVars, flushVars, StartLadder, NextKey, AfterFlush
<1>16. ASSUME NEW w \in Writers, Publish(w) PROVE ClearedPut(x)'
  BY <1>16 DEF Publish, Goto, putVars, evictVars, flushVars, StartLadder, NextKey, AfterFlush
<1>17. ASSUME NEW w \in Writers, ForcePick(w) PROVE ClearedPut(x)'
  BY <1>17 DEF ForcePick, Goto, putVars, evictVars, flushVars, StartLadder, NextKey, AfterFlush
<1>18. ASSUME NEW t \in Mutators, SyncRemoveOk(t) PROVE ClearedPut(x)'
  BY <1>18 DEF SyncRemoveOk, Goto, putVars, evictVars, flushVars, StartLadder, NextKey, AfterFlush
<1>19. ASSUME NEW t \in Mutators, SyncRemoveFails(t) PROVE ClearedPut(x)'
  BY <1>19 DEF SyncRemoveFails, Goto, putVars, evictVars, flushVars, StartLadder, NextKey, AfterFlush
<1>20. ASSUME NEW t \in Mutators, EvictRemove(t) PROVE ClearedPut(x)'
  BY <1>20 DEF EvictRemove, Goto, putVars, evictVars, flushVars, StartLadder, NextKey, AfterFlush
<1>21. ASSUME NEW t \in Mutators, EvictEnqueue(t) PROVE ClearedPut(x)'
  BY <1>21 DEF EvictEnqueue, Goto, putVars, evictVars, flushVars, StartLadder, NextKey, AfterFlush
<1>22. ASSUME NEW t \in Threads, ReadNow(t) PROVE ClearedPut(x)'
  BY <1>22 DEF ReadNow, Goto, putVars, evictVars, flushVars, StartLadder, NextKey, AfterFlush
<1>23. ASSUME NEW t \in Threads, TakeExpired(t) PROVE ClearedPut(x)'
  BY <1>23 DEF TakeExpired, Goto, putVars, evictVars, flushVars, StartLadder, NextKey, AfterFlush
<1>24. ASSUME NEW t \in Threads, FreeTaken(t) PROVE ClearedPut(x)'
  BY <1>24 DEF FreeTaken, Goto, putVars, evictVars, flushVars, StartLadder, NextKey, AfterFlush
<1>25. ASSUME NEW w \in Writers, TakeAll(w) PROVE ClearedPut(x)'
  BY <1>25 DEF TakeAll, Goto, putVars, evictVars, flushVars, StartLadder, NextKey, AfterFlush
<1>26. ASSUME NEW w \in Writers, RemoveSync(w) PROVE ClearedPut(x)'
  BY <1>26 DEF RemoveSync, Goto, putVars, evictVars, flushVars, StartLadder, NextKey, AfterFlush
<1>27. ASSUME NEW w \in Writers, RemoveFromIndex(w) PROVE ClearedPut(x)'
  BY <1>27 DEF RemoveFromIndex, Goto, putVars, evictVars, flushVars, StartLadder, NextKey, AfterFlush
<1>28. ASSUME NEW w \in Writers, RemoveEnqueue(w) PROVE ClearedPut(x)'
  BY <1>28 DEF RemoveEnqueue, Goto, putVars, evictVars, flushVars, StartLadder, NextKey, AfterFlush
<1>29. ASSUME UNCHANGED vars PROVE ClearedPut(x)'
  BY <1>29 DEF vars, Goto, putVars, evictVars, flushVars, StartLadder, NextKey, AfterFlush
<1>. QED BY <1>1, <1>2, <1>3, <1>4, <1>5, <1>6, <1>7, <1>8, <1>9, <1>10, <1>11, <1>12, <1>13, <1>14, <1>15,
             <1>16, <1>17, <1>18, <1>19, <1>20, <1>21, <1>22, <1>23, <1>24, <1>25, <1>26, <1>27, <1>28, <1>29,
             <1>30
   DEF Next, Calls, WriterStep, PutStep, EvictStep, FlushStep, RemoveStep, EvictorStep,
       Mutators, Threads

LEMMA FlushesCleared ==
    ASSUME Apart, OwnInv, [Next]_vars
    PROVE  \A x \in Threads : pc'[x] # "free" => Nothing(spoils'[x])
<1>0. /\ pc \in [Threads -> Labels] /\ spoils \in [Threads -> Queues]
      /\ Evictor \notin Writers /\ Reaper \notin Mutators
  BY StoreAssumption DEF OwnInv, TypeOK
<1>. SUFFICES ASSUME NEW x \in Threads, pc'[x] # "free"
              PROVE  Nothing(spoils'[x])
  OBVIOUS
<1>h. pc[x] # "free" => Nothing(spoils[x])
  BY DEF OwnInv, Cleared
<1>. USE <1>0, <1>h DEF Mutators, Threads
<1>1. ASSUME Tick PROVE Nothing(spoils'[x])
  BY <1>1 DEF Tick, Goto, putVars, evictVars, flushVars, StartLadder, NextKey, AfterFlush
<1>2. ASSUME ReaperWakes PROVE Nothing(spoils'[x])
  BY <1>2 DEF ReaperWakes, Goto, putVars, evictVars, flushVars, StartLadder, NextKey, AfterFlush
<1>3. ASSUME LoopWakes PROVE Nothing(spoils'[x])
  BY <1>3 DEF LoopWakes, Goto, putVars, evictVars, flushVars, StartLadder, NextKey, AfterFlush
<1>30. ASSUME LoopTest PROVE Nothing(spoils'[x])
  BY <1>30 DEF LoopTest, Goto, putVars, evictVars, flushVars, StartLadder, NextKey, AfterFlush
<1>4. ASSUME LoopPick PROVE Nothing(spoils'[x])
  BY <1>4 DEF LoopPick, Goto, putVars, evictVars, flushVars, StartLadder, NextKey, AfterFlush
<1>5. ASSUME NEW w \in Writers, NEW ks \in Batches[w], BatchPut(w, ks) PROVE Nothing(spoils'[x])
  BY <1>5 DEF BatchPut, Goto, putVars, evictVars, flushVars, StartLadder, NextKey, AfterFlush
<1>6. ASSUME NEW w \in Writers, NEW k \in Removals[w], Remove(w, k) PROVE Nothing(spoils'[x])
  BY <1>6 DEF Remove, Goto, putVars, evictVars, flushVars, StartLadder, NextKey, AfterFlush
<1>7. ASSUME NEW w \in Writers, CheckKey(w) PROVE Nothing(spoils'[x])
  BY <1>7 DEF CheckKey, Goto, putVars, evictVars, flushVars, StartLadder, NextKey, AfterFlush
<1>8. ASSUME NEW w \in Writers, BatchAlloc(w) PROVE Nothing(spoils'[x])
  BY <1>8 DEF BatchAlloc, Goto, putVars, evictVars, flushVars, StartLadder, NextKey, AfterFlush
<1>9. ASSUME NEW w \in Writers, AllocOk(w) PROVE Nothing(spoils'[x])
  BY <1>9 DEF AllocOk, Goto, putVars, evictVars, flushVars, StartLadder, NextKey, AfterFlush
<1>10. ASSUME NEW w \in Writers, ClimbLadder(w) PROVE Nothing(spoils'[x])
  BY <1>10 DEF ClimbLadder, Goto, putVars, evictVars, flushVars, StartLadder, NextKey, AfterFlush
<1>11. ASSUME NEW w \in Writers, NoSpace(w) PROVE Nothing(spoils'[x])
  BY <1>11 DEF NoSpace, Goto, putVars, evictVars, flushVars, StartLadder, NextKey, AfterFlush
<1>12. ASSUME NEW w \in Writers, WriteStarts(w) PROVE Nothing(spoils'[x])
  BY <1>12 DEF WriteStarts, Goto, putVars, evictVars, flushVars, StartLadder, NextKey, AfterFlush
<1>13. ASSUME NEW w \in Writers, WriteOk(w) PROVE Nothing(spoils'[x])
  BY <1>13 DEF WriteOk, Goto, putVars, evictVars, flushVars, StartLadder, NextKey, AfterFlush
<1>14. ASSUME NEW w \in Writers, WriteFails(w) PROVE Nothing(spoils'[x])
  BY <1>14 DEF WriteFails, Goto, putVars, evictVars, flushVars, StartLadder, NextKey, AfterFlush
<1>15. ASSUME NEW w \in Writers, Unwind(w) PROVE Nothing(spoils'[x])
  BY <1>15 DEF Unwind, Goto, putVars, evictVars, flushVars, StartLadder, NextKey, AfterFlush
<1>16. ASSUME NEW w \in Writers, Publish(w) PROVE Nothing(spoils'[x])
  BY <1>16 DEF Publish, Goto, putVars, evictVars, flushVars, StartLadder, NextKey, AfterFlush
<1>17. ASSUME NEW w \in Writers, ForcePick(w) PROVE Nothing(spoils'[x])
  BY <1>17 DEF ForcePick, Goto, putVars, evictVars, flushVars, StartLadder, NextKey, AfterFlush
<1>18. ASSUME NEW t \in Mutators, SyncRemoveOk(t) PROVE Nothing(spoils'[x])
  BY <1>18 DEF SyncRemoveOk, Goto, putVars, evictVars, flushVars, StartLadder, NextKey, AfterFlush
<1>19. ASSUME NEW t \in Mutators, SyncRemoveFails(t) PROVE Nothing(spoils'[x])
  BY <1>19 DEF SyncRemoveFails, Goto, putVars, evictVars, flushVars, StartLadder, NextKey, AfterFlush
<1>20. ASSUME NEW t \in Mutators, EvictRemove(t) PROVE Nothing(spoils'[x])
  BY <1>20 DEF EvictRemove, Goto, putVars, evictVars, flushVars, StartLadder, NextKey, AfterFlush
<1>21. ASSUME NEW t \in Mutators, EvictEnqueue(t) PROVE Nothing(spoils'[x])
  BY <1>21 DEF EvictEnqueue, Goto, putVars, evictVars, flushVars, StartLadder, NextKey, AfterFlush
<1>22. ASSUME NEW t \in Threads, ReadNow(t) PROVE Nothing(spoils'[x])
  BY <1>22 DEF ReadNow, Goto, putVars, evictVars, flushVars, StartLadder, NextKey, AfterFlush
<1>23. ASSUME NEW t \in Threads, TakeExpired(t) PROVE Nothing(spoils'[x])
  BY <1>23 DEF TakeExpired, Goto, putVars, evictVars, flushVars, StartLadder, NextKey, AfterFlush
<1>24. ASSUME NEW t \in Threads, FreeTaken(t) PROVE Nothing(spoils'[x])
  BY <1>24 DEF FreeTaken, Goto, putVars, evictVars, flushVars, StartLadder, NextKey, AfterFlush
<1>25. ASSUME NEW w \in Writers, TakeAll(w) PROVE Nothing(spoils'[x])
  BY <1>25 DEF TakeAll, Goto, putVars, evictVars, flushVars, StartLadder, NextKey, AfterFlush
<1>26. ASSUME NEW w \in Writers, RemoveSync(w) PROVE Nothing(spoils'[x])
  BY <1>26 DEF RemoveSync, Goto, putVars, evictVars, flushVars, StartLadder, NextKey, AfterFlush
<1>27. ASSUME NEW w \in Writers, RemoveFromIndex(w) PROVE Nothing(spoils'[x])
  BY <1>27 DEF RemoveFromIndex, Goto, putVars, evictVars, flushVars, StartLadder, NextKey, AfterFlush
<1>28. ASSUME NEW w \in Writers, RemoveEnqueue(w) PROVE Nothing(spoils'[x])
  BY <1>28 DEF RemoveEnqueue, Goto, putVars, evictVars, flushVars, StartLadder, NextKey, AfterFlush
<1>29. ASSUME UNCHANGED vars PROVE Nothing(spoils'[x])
  BY <1>29 DEF vars, Goto, putVars, evictVars, flushVars, StartLadder, NextKey, AfterFlush
<1>. QED BY <1>1, <1>2, <1>3, <1>4, <1>5, <1>6, <1>7, <1>8, <1>9, <1>10, <1>11, <1>12, <1>13, <1>14, <1>15,
             <1>16, <1>17, <1>18, <1>19, <1>20, <1>21, <1>22, <1>23, <1>24, <1>25, <1>26, <1>27, <1>28, <1>29,
             <1>30
   DEF Next, Calls, WriterStep, PutStep, EvictStep, FlushStep, RemoveStep, EvictorStep,
       Mutators, Threads


----------------------------------------------------------------------------
(* Evictions work on what the index still says *)

LEMMA CandsFreshAlways ==
    ASSUME Apart, OwnInv, [Next]_vars
    PROVE  CandsFresh'
<1>0. /\ pc \in [Threads -> Labels] /\ cands \in [Mutators -> SUBSET Records]
      /\ index \in [Keys -> Slots \cup {NoSlot}]
      /\ Evictor \notin Writers /\ Reaper \notin Mutators /\ NoSlot \notin Slots
  BY StoreAssumption DEF OwnInv, TypeOK
<1>. SUFFICES ASSUME NEW x \in Mutators, NEW c \in cands'[x]
              PROVE  pc'[x] \in {"sync", "remove", "enqueue"} /\ index'[c.key] = c.slot
  BY DEF CandsFresh
<1>. DEFINE Fresh == pc'[x] \in {"sync", "remove", "enqueue"} /\ index'[c.key] = c.slot
<1>h. c \in cands[x] => /\ pc[x] \in {"sync", "remove", "enqueue"}
                        /\ index[c.key] = c.slot
                        /\ c.key \in Keys /\ c.slot \in Slots
  BY <1>0 DEF OwnInv, CandsFresh, Records
<1>. USE <1>0, <1>h DEF Mutators, Threads
<1>1. ASSUME Tick PROVE Fresh
  BY <1>1 DEF Tick, Goto, putVars, evictVars, flushVars, StartLadder, NextKey, AfterFlush
<1>2. ASSUME ReaperWakes PROVE Fresh
  BY <1>2 DEF ReaperWakes, Goto, putVars, evictVars, flushVars, StartLadder, NextKey, AfterFlush
<1>3. ASSUME LoopWakes PROVE Fresh
  BY <1>3 DEF LoopWakes, Goto, putVars, evictVars, flushVars, StartLadder, NextKey, AfterFlush
<1>30. ASSUME LoopTest PROVE Fresh
  BY <1>30 DEF LoopTest, Goto, putVars, evictVars, flushVars, StartLadder, NextKey, AfterFlush
<1>4. ASSUME LoopPick PROVE Fresh
  <2>1. CASE cands' = cands
    BY <1>4, <2>1 DEF LoopPick, Goto, putVars, evictVars, flushVars, StartLadder, NextKey, AfterFlush
  <2>2. ASSUME NEW n, NEW C \in Snapshots(n), cands' = [cands EXCEPT ![Evictor] = C],
               Goto(Evictor, "sync")
        PROVE  Fresh
    <3>1. \A d \in C : index[d.key] = d.slot
      BY SnapshotRecords DEF OwnInv
    <3>. QED BY <1>4, <2>2, <3>1 DEF LoopPick, Goto, putVars, evictVars, flushVars, StartLadder, NextKey, AfterFlush
  <2>. QED BY <1>4, <2>1, <2>2 DEF LoopPick
<1>5. ASSUME NEW w \in Writers, NEW ks \in Batches[w], BatchPut(w, ks) PROVE Fresh
  BY <1>5 DEF BatchPut, Goto, putVars, evictVars, flushVars, StartLadder, NextKey, AfterFlush
<1>6. ASSUME NEW w \in Writers, NEW k \in Removals[w], Remove(w, k) PROVE Fresh
  BY <1>6 DEF Remove, Goto, putVars, evictVars, flushVars, StartLadder, NextKey, AfterFlush
<1>7. ASSUME NEW w \in Writers, CheckKey(w) PROVE Fresh
  BY <1>7 DEF CheckKey, Goto, putVars, evictVars, flushVars, StartLadder, NextKey, AfterFlush
<1>8. ASSUME NEW w \in Writers, BatchAlloc(w) PROVE Fresh
  BY <1>8 DEF BatchAlloc, Goto, putVars, evictVars, flushVars, StartLadder, NextKey, AfterFlush
<1>9. ASSUME NEW w \in Writers, AllocOk(w) PROVE Fresh
  BY <1>9 DEF AllocOk, Goto, putVars, evictVars, flushVars, StartLadder, NextKey, AfterFlush
<1>10. ASSUME NEW w \in Writers, ClimbLadder(w) PROVE Fresh
  BY <1>10 DEF ClimbLadder, Goto, putVars, evictVars, flushVars, StartLadder, NextKey, AfterFlush
<1>11. ASSUME NEW w \in Writers, NoSpace(w) PROVE Fresh
  BY <1>11 DEF NoSpace, Goto, putVars, evictVars, flushVars, StartLadder, NextKey, AfterFlush
<1>12. ASSUME NEW w \in Writers, WriteStarts(w) PROVE Fresh
  BY <1>12 DEF WriteStarts, Goto, putVars, evictVars, flushVars, StartLadder, NextKey, AfterFlush
<1>13. ASSUME NEW w \in Writers, WriteOk(w) PROVE Fresh
  BY <1>13 DEF WriteOk, Goto, putVars, evictVars, flushVars, StartLadder, NextKey, AfterFlush
<1>14. ASSUME NEW w \in Writers, WriteFails(w) PROVE Fresh
  BY <1>14 DEF WriteFails, Goto, putVars, evictVars, flushVars, StartLadder, NextKey, AfterFlush
<1>15. ASSUME NEW w \in Writers, Unwind(w) PROVE Fresh
  BY <1>15 DEF Unwind, Goto, putVars, evictVars, flushVars, StartLadder, NextKey, AfterFlush
<1>16. ASSUME NEW w \in Writers, Publish(w) PROVE Fresh
  <2>1. PICK d \in items[w] : index' = [index EXCEPT ![d.key] = d.slot]
    BY <1>16 DEF Publish
  <2>2. d.key \in Keys /\ index[d.key] = NoSlot
    BY DEF OwnInv, TypeOK, Records, Unindexed, Holds
  <2>3. c \in cands[x]
    BY <1>16 DEF Publish, evictVars
  <2>. QED BY <1>16, <2>1, <2>2, <2>3 DEF Publish, Goto
<1>17. ASSUME NEW w \in Writers, ForcePick(w) PROVE Fresh
  <2>1. CASE cands' = cands
    BY <1>17, <2>1 DEF ForcePick, Goto, putVars, evictVars, flushVars, StartLadder, NextKey, AfterFlush
  <2>2. ASSUME NEW n, NEW C \in Snapshots(n), cands' = [cands EXCEPT ![w] = C],
               Goto(w, "sync")
        PROVE  Fresh
    <3>1. \A d \in C : index[d.key] = d.slot
      BY SnapshotRecords DEF OwnInv
    <3>. QED BY <1>17, <2>2, <3>1 DEF ForcePick, Goto, putVars, evictVars, flushVars, StartLadder, NextKey, AfterFlush
  <2>. QED BY <1>17, <2>1, <2>2 DEF ForcePick
<1>18. ASSUME NEW t \in Mutators, SyncRemoveOk(t) PROVE Fresh
  BY <1>18 DEF SyncRemoveOk, Goto, putVars, evictVars, flushVars, StartLadder, NextKey, AfterFlush
<1>19. ASSUME NEW t \in Mutators, SyncRemoveFails(t) PROVE Fresh
  BY <1>19 DEF SyncRemoveFails, Goto, putVars, evictVars, flushVars, StartLadder, NextKey, AfterFlush
<1>20. ASSUME NEW t \in Mutators, EvictRemove(t) PROVE Fresh
  <2>1. PICK d \in cands[t] :
           /\ index' = [index EXCEPT ![d.key] = NoSlot]
           /\ cands' = [cands EXCEPT ![t] = @ \ {d}]
    BY <1>20 DEF EvictRemove
  <2>2. d \in Records /\ index[d.key] = d.slot
    BY <1>0 DEF OwnInv, CandsFresh
  <2>3. c \in cands[x]
    BY <2>1
  <2>4. x = t
    BY <1>20, <2>3 DEF EvictRemove, OwnInv, Alone, Evicting
  <2>5. c # d /\ c \in Records
    BY <2>1, <2>3, <2>4
  <2>6. c.key # d.key
    BY <2>2, <2>3, <2>5 DEF Records
  <2>. QED BY <1>20, <2>1, <2>3, <2>4, <2>6 DEF EvictRemove, Goto
<1>21. ASSUME NEW t \in Mutators, EvictEnqueue(t) PROVE Fresh
  BY <1>21 DEF EvictEnqueue, Goto, putVars, evictVars, flushVars, StartLadder, NextKey, AfterFlush
<1>22. ASSUME NEW t \in Threads, ReadNow(t) PROVE Fresh
  BY <1>22 DEF ReadNow, Goto, putVars, evictVars, flushVars, StartLadder, NextKey, AfterFlush
<1>23. ASSUME NEW t \in Threads, TakeExpired(t) PROVE Fresh
  BY <1>23 DEF TakeExpired, Goto, putVars, evictVars, flushVars, StartLadder, NextKey, AfterFlush
<1>24. ASSUME NEW t \in Threads, FreeTaken(t) PROVE Fresh
  BY <1>24 DEF FreeTaken, Goto, putVars, evictVars, flushVars, StartLadder, NextKey, AfterFlush
<1>25. ASSUME NEW w \in Writers, TakeAll(w) PROVE Fresh
  BY <1>25 DEF TakeAll, Goto, putVars, evictVars, flushVars, StartLadder, NextKey, AfterFlush
<1>26. ASSUME NEW w \in Writers, RemoveSync(w) PROVE Fresh
  BY <1>26 DEF RemoveSync, Goto, putVars, evictVars, flushVars, StartLadder, NextKey, AfterFlush
<1>27. ASSUME NEW w \in Writers, RemoveFromIndex(w) PROVE Fresh
  <2>1. c \in cands[x]
    BY <1>27 DEF RemoveFromIndex
  <2>2. x = w
    BY <1>27, <2>1 DEF RemoveFromIndex, OwnInv, Alone, Evicting
  <2>. QED BY <1>27, <2>1, <2>2 DEF RemoveFromIndex
<1>28. ASSUME NEW w \in Writers, RemoveEnqueue(w) PROVE Fresh
  BY <1>28 DEF RemoveEnqueue, Goto, putVars, evictVars, flushVars, StartLadder, NextKey, AfterFlush
<1>29. ASSUME UNCHANGED vars PROVE Fresh
  BY <1>29 DEF vars, Goto, putVars, evictVars, flushVars, StartLadder, NextKey, AfterFlush
<1>. QED BY <1>1, <1>2, <1>3, <1>4, <1>5, <1>6, <1>7, <1>8, <1>9, <1>10, <1>11, <1>12, <1>13, <1>14, <1>15,
             <1>16, <1>17, <1>18, <1>19, <1>20, <1>21, <1>22, <1>23, <1>24, <1>25, <1>26, <1>27, <1>28, <1>29,
             <1>30
   DEF Next, Calls, WriterStep, PutStep, EvictStep, FlushStep, RemoveStep, EvictorStep,
       Mutators, Threads


----------------------------------------------------------------------------
(* No key is wanted twice *)

LEMMA WantsUnchanged ==
    ASSUME KeysApart, todo' = todo, need' = need, items' = items,
           \A x \in Writers : pc'[x] = "check" => pc[x] = "check"
    PROVE  KeysApart'
<1>1. \A x \in Writers, k \in Keys : /\ Asks(x, k)' => Asks(x, k)
                                     /\ Needs(x, k)' <=> Needs(x, k)
                                     /\ Holds(x, k)' <=> Holds(x, k)
  BY DEF Asks, Needs, Holds
<1>2. \A x \in Writers : OnceEach(x)'
  BY <1>1 DEF KeysApart, OnceEach
<1>3. \A v, w \in Writers : \A k \in Keys : Wants(v, k)' /\ Wants(w, k)' => v = w
  BY <1>1 DEF KeysApart, Wants
<1>. QED BY <1>2, <1>3 DEF KeysApart

(* One put w changes what it wants: it asks for nothing new. *)
LEMMA WantsLess ==
    ASSUME KeysApart, NEW w \in Writers,
           \A x \in Writers \ {w} : /\ todo'[x] = todo[x] /\ need'[x] = need[x]
                                    /\ items'[x] = items[x] /\ pc'[x] = pc[x],
           \A k \in Keys : Wants(w, k)' => Wants(w, k),
           OnceEach(w)'
    PROVE  KeysApart'
<1>1. \A x \in Writers \ {w}, k \in Keys : /\ Asks(x, k)' <=> Asks(x, k)
                                           /\ Needs(x, k)' <=> Needs(x, k)
                                           /\ Holds(x, k)' <=> Holds(x, k)
  BY DEF Asks, Needs, Holds
<1>2. \A x \in Writers \ {w} : OnceEach(x)'
  BY <1>1 DEF KeysApart, OnceEach
<1>3. \A x \in Writers, k \in Keys : Wants(x, k)' => Wants(x, k)
  BY <1>1 DEF Wants
<1>4. \A v, x \in Writers : \A k \in Keys : Wants(v, k)' /\ Wants(x, k)' => v = x
  BY <1>3 DEF KeysApart
<1>. QED BY <1>2, <1>4 DEF KeysApart

LEMMA TailWithin ==
    ASSUME NEW q \in Seq(Keys), q # <<>>
    PROVE  /\ \A i \in DOMAIN Tail(q) : i + 1 \in DOMAIN q /\ Tail(q)[i] = q[i + 1]
           /\ \A i, j \in DOMAIN Tail(q) : i + 1 = j + 1 => i = j
           /\ \A i \in DOMAIN Tail(q) : \E j \in DOMAIN q : Tail(q)[i] = q[j]
           /\ (\A i, j \in DOMAIN q : q[i] = q[j] => i = j) =>
                 \A i, j \in DOMAIN Tail(q) : Tail(q)[i] = Tail(q)[j] => i = j
<1>1. /\ DOMAIN q = 1 .. Len(q) /\ DOMAIN Tail(q) = 1 .. Len(q) - 1 /\ Len(q) \in Nat \ {0}
      /\ \A i \in 1 .. Len(q) - 1 : Tail(q)[i] = q[i + 1]
  BY HeadTail, LenProperties
<1>2. \A i \in DOMAIN Tail(q) : i + 1 \in DOMAIN q /\ Tail(q)[i] = q[i + 1]
  BY <1>1
<1>3. \A i, j \in DOMAIN Tail(q) : i + 1 = j + 1 => i = j
  BY <1>1
<1>. QED BY <1>2, <1>3

LEMMA TailWithoutHead ==
    ASSUME NEW q \in Seq(Keys), q # <<>>,
           \A i, j \in DOMAIN q : q[i] = q[j] => i = j,
           NEW i \in DOMAIN Tail(q)
    PROVE  Tail(q)[i] # Head(q)
  BY HeadTail, LenProperties

LEMMA AppendWithin ==
    ASSUME NEW q \in Seq(Keys), NEW k \in Keys
    PROVE  \A i \in DOMAIN Append(q, k) :
              Append(q, k)[i] = k \/ \E j \in DOMAIN q : q[j] = Append(q, k)[i]
<1>1. /\ DOMAIN q = 1 .. Len(q) /\ Len(q) \in Nat /\ DOMAIN Append(q, k) = 1 .. Len(q) + 1
      /\ \A i \in 1 .. Len(q) : Append(q, k)[i] = q[i]
      /\ Append(q, k)[Len(q) + 1] = k
  BY LenProperties, AppendProperties
<1>. QED BY <1>1

LEMMA AppendOnce ==
    ASSUME NEW q \in Seq(Keys), NEW k \in Keys,
           \A i, j \in DOMAIN q : q[i] = q[j] => i = j,
           \A i \in DOMAIN q : q[i] # k
    PROVE  \A i, j \in DOMAIN Append(q, k) : Append(q, k)[i] = Append(q, k)[j] => i = j
<1>1. /\ DOMAIN q = 1 .. Len(q) /\ Len(q) \in Nat /\ DOMAIN Append(q, k) = 1 .. Len(q) + 1
      /\ \A i \in 1 .. Len(q) : Append(q, k)[i] = q[i]
      /\ Append(q, k)[Len(q) + 1] = k
  BY LenProperties, AppendProperties
<1>. QED BY <1>1

LEMMA RestOf ==
    ASSUME NEW q \in Seq(Keys), NEW n \in 0 .. Len(q)
    PROVE  /\ DOMAIN SubSeq(q, n + 1, Len(q)) = 1 .. Len(q) - n
           /\ \A i \in 1 .. Len(q) - n : SubSeq(q, n + 1, Len(q))[i] = q[n + i]
<1>1. Len(q) \in Nat /\ n \in Nat /\ \A i \in n + 1 .. Len(q) : q[i] \in Keys
  BY LenProperties
<1>2. /\ SubSeq(q, n + 1, Len(q)) \in Seq(Keys)
      /\ Len(SubSeq(q, n + 1, Len(q))) = IF n + 1 <= Len(q) THEN Len(q) - (n + 1) + 1 ELSE 0
      /\ \A i \in 1 .. Len(q) - (n + 1) + 1 :
            SubSeq(q, n + 1, Len(q))[i] = q[(n + 1) + i - 1]
  BY <1>1, SubSeqProperties
<1>3. DOMAIN SubSeq(q, n + 1, Len(q)) = 1 .. Len(SubSeq(q, n + 1, Len(q)))
  BY <1>2, LenProperties
<1>4. Len(SubSeq(q, n + 1, Len(q))) = Len(q) - n
  BY <1>1, <1>2
<1>5. ASSUME NEW i \in 1 .. Len(q) - n PROVE SubSeq(q, n + 1, Len(q))[i] = q[n + i]
  <2>1. i \in 1 .. Len(q) - (n + 1) + 1 /\ (n + 1) + i - 1 = n + i
    BY <1>1
  <2>. QED BY <1>2, <2>1
<1>. QED BY <1>3, <1>4, <1>5

(* A key among the first n of a sequence, or among the others. *)
InFirst(q, n, k) == \E i \in 1 .. n : q[i] = k
InRest(q, n, k) == \E i \in n + 1 .. Len(q) : q[i] = k

LEMMA RestWithin ==
    ASSUME NEW q \in Seq(Keys), NEW n \in 0 .. Len(q),
           \A i, j \in DOMAIN q : q[i] = q[j] => i = j
    PROVE  /\ \A i \in DOMAIN SubSeq(q, n + 1, Len(q)) :
                 InRest(q, n, SubSeq(q, n + 1, Len(q))[i])
           /\ \A k : InRest(q, n, k) \/ InFirst(q, n, k) => \E i \in DOMAIN q : q[i] = k
           /\ \A k : ~(InRest(q, n, k) /\ InFirst(q, n, k))
           /\ \A i, j \in DOMAIN SubSeq(q, n + 1, Len(q)) :
                 SubSeq(q, n + 1, Len(q))[i] = SubSeq(q, n + 1, Len(q))[j] => i = j
<1>. DEFINE rest == SubSeq(q, n + 1, Len(q))
<1>1. /\ DOMAIN rest = 1 .. Len(q) - n
      /\ \A i \in 1 .. Len(q) - n : rest[i] = q[n + i]
  BY RestOf
<1>2. DOMAIN q = 1 .. Len(q) /\ Len(q) \in Nat /\ n \in Nat
  BY LenProperties
<1>. HIDE DEF rest
<1>3. \A i \in DOMAIN rest : n + i \in n + 1 .. Len(q) /\ n + i \in DOMAIN q
  BY <1>1, <1>2
<1>4. \A i \in DOMAIN rest : InRest(q, n, rest[i])
  BY <1>1, <1>3 DEF InRest
<1>5. \A k : InRest(q, n, k) \/ InFirst(q, n, k) => \E i \in DOMAIN q : q[i] = k
  BY <1>2 DEF InRest, InFirst
<1>6. \A k : ~(InRest(q, n, k) /\ InFirst(q, n, k))
  <2>1. \A i \in 1 .. n, j \in n + 1 .. Len(q) : i # j /\ i \in DOMAIN q /\ j \in DOMAIN q
    BY <1>2
  <2>. QED BY <2>1 DEF InRest, InFirst
<1>7. \A i, j \in DOMAIN rest : rest[i] = rest[j] => i = j
  <2>1. ASSUME NEW i \in DOMAIN rest, NEW j \in DOMAIN rest, rest[i] = rest[j]
        PROVE  i = j
    <3>1. rest[i] = q[n + i] /\ rest[j] = q[n + j]
      BY <1>1
    <3>2. n + i = n + j
      BY <1>3, <2>1, <3>1
    <3>. QED BY <1>1, <1>2, <3>2
  <2>. QED BY <2>1
<1>. QED BY <1>4, <1>5, <1>6, <1>7 DEF rest

LEMMA HandoutKeys ==
    ASSUME TypeOK, KeysApart, NEW w \in Writers, NEW n \in 0 .. Len(need[w]),
           NEW give \in [1 .. n -> Slots], Handout(w, n, give), NEW k \in Keys
    PROVE  /\ Needs(w, k)' => InRest(need[w], n, k)
           /\ Holds(w, k)' => InFirst(need[w], n, k)
           /\ InRest(need[w], n, k) \/ InFirst(need[w], n, k) => Needs(w, k)
<1>1. /\ need[w] \in Seq(Keys) /\ \A i, j \in DOMAIN need[w] : need[w][i] = need[w][j] => i = j
      /\ need'[w] = SubSeq(need[w], n + 1, Len(need[w]))
      /\ items'[w] = {[key |-> need[w][i], slot |-> give[i]] : i \in 1 .. n}
  BY DEF TypeOK, KeysApart, OnceEach, Handout
<1>2. ASSUME Needs(w, k)' PROVE InRest(need[w], n, k)
  <2>1. PICK i \in DOMAIN need'[w] : need'[w][i] = k
    BY <1>2 DEF Needs
  <2>. QED BY <1>1, <2>1, RestWithin
<1>3. Holds(w, k)' => InFirst(need[w], n, k)
  BY <1>1 DEF Holds, InFirst
<1>4. InRest(need[w], n, k) \/ InFirst(need[w], n, k) => Needs(w, k)
  BY <1>1, RestWithin DEF Needs
<1>. QED BY <1>2, <1>3, <1>4

LEMMA KeysApartAlways ==
    ASSUME Apart, OwnInv, [Next]_vars
    PROVE  KeysApart'
<1>0. /\ pc \in [Threads -> Labels] /\ todo \in [Writers -> Seq(Keys)]
      /\ need \in [Writers -> Seq(Keys)] /\ items \in [Writers -> SUBSET Records]
  BY DEF OwnInv, TypeOK
<1>h. KeysApart
  BY DEF OwnInv
<1>r. Evictor \notin Writers /\ Reaper \notin Writers
  BY StoreAssumption DEF Mutators
<1>. USE <1>0, <1>h, <1>r DEF Mutators, Threads
<1>1. ASSUME Tick PROVE KeysApart'
  <2>1. todo' = todo /\ need' = need /\ items' = items
    BY <1>1 DEF Tick, putVars
  <2>2. \A x \in Writers : pc'[x] = "check" => pc[x] = "check"
    BY <1>1 DEF Tick, Goto, AfterFlush
  <2>. QED BY <2>1, <2>2, WantsUnchanged
<1>2. ASSUME ReaperWakes PROVE KeysApart'
  <2>1. todo' = todo /\ need' = need /\ items' = items
    BY <1>2 DEF ReaperWakes, putVars
  <2>2. \A x \in Writers : pc'[x] = "check" => pc[x] = "check"
    BY <1>2 DEF ReaperWakes, Goto, AfterFlush
  <2>. QED BY <2>1, <2>2, WantsUnchanged
<1>3. ASSUME LoopWakes PROVE KeysApart'
  <2>1. todo' = todo /\ need' = need /\ items' = items
    BY <1>3 DEF LoopWakes, putVars
  <2>2. \A x \in Writers : pc'[x] = "check" => pc[x] = "check"
    BY <1>3 DEF LoopWakes, Goto, AfterFlush
  <2>. QED BY <2>1, <2>2, WantsUnchanged
<1>30. ASSUME LoopTest PROVE KeysApart'
  <2>1. todo' = todo /\ need' = need /\ items' = items
    BY <1>30 DEF LoopTest, putVars
  <2>2. \A x \in Writers : pc'[x] = "check" => pc[x] = "check"
    BY <1>30 DEF LoopTest, Goto, AfterFlush
  <2>. QED BY <2>1, <2>2, WantsUnchanged
<1>4. ASSUME LoopPick PROVE KeysApart'
  <2>1. todo' = todo /\ need' = need /\ items' = items
    BY <1>4 DEF LoopPick, putVars
  <2>2. \A x \in Writers : pc'[x] = "check" => pc[x] = "check"
    BY <1>4 DEF LoopPick, Goto, AfterFlush
  <2>. QED BY <2>1, <2>2, WantsUnchanged
<1>5. ASSUME NEW w \in Writers, NEW ks \in Batches[w], BatchPut(w, ks) PROVE KeysApart'
  <2>0. /\ ks \in Seq(Keys) /\ Guarded
        /\ \A i, j \in DOMAIN ks : ks[i] = ks[j] => i = j
    BY StoreAssumption DEF Apart
  <2>o. \A x \in Writers \ {w} : todo'[x] = todo[x] /\ pc'[x] = pc[x]
    BY <1>5 DEF BatchPut, Goto
  <2>1. need' = need /\ items' = items /\ todo'[w] = ks /\ pc[w] = "idle"
    BY <1>5 DEF BatchPut
  <2>2. need[w] = <<>> /\ items[w] = {}
    BY <2>1 DEF OwnInv, Cleared, ClearedPut
  <2>3. \A k \in Keys : /\ ~Needs(w, k)' /\ ~Holds(w, k)'
                        /\ Asks(w, k)' => \E i \in DOMAIN ks : ks[i] = k
    BY <2>1, <2>2 DEF Asks, Needs, Holds
  <2>4. \A x \in Writers \ {w}, k \in Keys : /\ Asks(x, k)' <=> Asks(x, k)
                                             /\ Needs(x, k)' <=> Needs(x, k)
                                             /\ Holds(x, k)' <=> Holds(x, k)
    BY <2>o, <2>1 DEF Asks, Needs, Holds
  <2>5. OnceEach(w)'
    <3>1. \A i, j \in DOMAIN todo'[w] : todo'[w][i] = todo'[w][j] => i = j
      BY <2>0, <2>1
    <3>2. /\ \A i, j \in DOMAIN need'[w] : need'[w][i] = need'[w][j] => i = j
          /\ \A c, d \in items'[w] : c.key = d.key => c = d
      BY <2>1, <2>2
    <3>. QED BY <2>3, <3>1, <3>2 DEF OnceEach
  <2>6. \A x \in Writers \ {w} : OnceEach(x)'
    BY <2>o, <2>1, <2>4 DEF KeysApart, OnceEach
  <2>7. ASSUME NEW x \in Writers \ {w}, NEW k \in Keys, Wants(x, k)', Wants(w, k)'
        PROVE  FALSE
    <3>1. PICK i \in DOMAIN ks : ks[i] = k
      BY <2>3, <2>7 DEF Wants
    <3>2. Busy(x) \cap {ks[j] : j \in DOMAIN ks} = {}
      BY <1>5, <2>0 DEF BatchPut, MayPut
    <3>3. k \in Busy(x)
      <4>1. Asks(x, k) => k \in {todo[x][j] : j \in DOMAIN todo[x]}
        BY DEF Asks
      <4>2. Needs(x, k) => k \in {need[x][j] : j \in DOMAIN need[x]}
        BY DEF Needs
      <4>3. Holds(x, k) => k \in {c.key : c \in items[x]}
        BY DEF Holds
      <4>4. Asks(x, k) \/ Needs(x, k) \/ Holds(x, k)
        BY <2>4, <2>7 DEF Wants
      <4>. QED BY <4>1, <4>2, <4>3, <4>4 DEF Busy
    <3>. QED BY <3>1, <3>2, <3>3
  <2>8. \A v, x \in Writers \ {w} : \A k \in Keys : Wants(v, k)' /\ Wants(x, k)' => v = x
    BY <2>4 DEF KeysApart, Wants
  <2>. QED BY <2>5, <2>6, <2>7, <2>8 DEF KeysApart
<1>6. ASSUME NEW w \in Writers, NEW k \in Removals[w], Remove(w, k) PROVE KeysApart'
  <2>o. \A x \in Writers \ {w} : /\ todo'[x] = todo[x] /\ need'[x] = need[x]
                                  /\ items'[x] = items[x] /\ pc'[x] = pc[x]
    BY <1>6 DEF Remove, Goto
  <2>h. OnceEach(w)
    BY DEF KeysApart
  <2>1. /\ need' = need /\ items' = items /\ pc'[w] # "check"
        /\ \A i, j \in DOMAIN todo'[w] : todo'[w][i] = todo'[w][j] => i = j
    BY <1>6, <2>h DEF Remove, Goto, putVars, OnceEach
  <2>2. \A j \in Keys : /\ ~Asks(w, j)' /\ (Needs(w, j)' <=> Needs(w, j))
                        /\ Holds(w, j)' <=> Holds(w, j)
    BY <2>1 DEF Asks, Needs, Holds
  <2>w. \A j \in Keys : Wants(w, j)' => Wants(w, j)
    BY <2>2 DEF Wants
  <2>e. OnceEach(w)'
    BY <2>h, <2>1, <2>2 DEF OnceEach
  <2>. QED BY <2>o, <2>w, <2>e, WantsLess
<1>7. ASSUME NEW w \in Writers, CheckKey(w) PROVE KeysApart'
  <2>o. \A x \in Writers \ {w} : /\ todo'[x] = todo[x] /\ need'[x] = need[x]
                                  /\ items'[x] = items[x] /\ pc'[x] = pc[x]
    BY <1>7 DEF CheckKey, Goto
  <2>h. OnceEach(w)
    BY DEF KeysApart
  <2>0. todo[w] \in Seq(Keys) /\ todo[w] # <<>> /\ need[w] \in Seq(Keys)
    BY <1>7 DEF CheckKey, OwnInv, Control, TodoKept
  <2>1. /\ todo'[w] = Tail(todo[w]) /\ items' = items /\ pc[w] = "check"
        /\ need'[w] = need[w] \/ need'[w] = Append(need[w], Head(todo[w]))
    BY <1>7 DEF CheckKey, putVars
  <2>k. Head(todo[w]) \in Keys /\ Asks(w, Head(todo[w])) /\ items[w] = {}
    BY <2>0, <2>1, HeadTail DEF Asks, OwnInv, Cleared, ClearedPut
  <2>2. \A k \in Keys : Asks(w, k)' => Asks(w, k) /\ k # Head(todo[w])
    BY <2>0, <2>1, <2>h, TailWithin, TailWithoutHead DEF Asks, OnceEach
  <2>3. \A k \in Keys : Needs(w, k)' => Needs(w, k) \/ k = Head(todo[w])
    <3>1. CASE need'[w] = need[w]
      BY <3>1 DEF Needs
    <3>2. CASE need'[w] = Append(need[w], Head(todo[w]))
      BY <2>0, <2>k, <3>2, AppendWithin DEF Needs
    <3>. QED BY <2>1, <3>1, <3>2
  <2>4. \A k \in Keys : ~Holds(w, k)'
    BY <2>1, <2>k DEF Holds
  <2>w. \A k \in Keys : Wants(w, k)' => Wants(w, k)
    BY <2>k, <2>2, <2>3, <2>4 DEF Wants
  <2>e. OnceEach(w)'
    <3>1. \A i, j \in DOMAIN todo'[w] : todo'[w][i] = todo'[w][j] => i = j
      BY <2>0, <2>1, <2>h, TailWithin DEF OnceEach
    <3>2. \A i, j \in DOMAIN need'[w] : need'[w][i] = need'[w][j] => i = j
      <4>1. ~Needs(w, Head(todo[w]))
        BY <2>h, <2>k DEF OnceEach
      <4>2. CASE need'[w] = need[w]
        BY <2>h, <4>2 DEF OnceEach
      <4>3. CASE need'[w] = Append(need[w], Head(todo[w]))
        <5>1. /\ \A i, j \in DOMAIN need[w] : need[w][i] = need[w][j] => i = j
              /\ \A i \in DOMAIN need[w] : need[w][i] # Head(todo[w])
          BY <2>h, <4>1 DEF OnceEach, Needs
        <5>. QED BY <2>0, <2>k, <4>3, <5>1, AppendOnce
      <4>. QED BY <2>1, <4>2, <4>3
    <3>3. \A c, d \in items'[w] : c.key = d.key => c = d
      BY <2>1, <2>k
    <3>4. \A k \in Keys : ~(Asks(w, k)' /\ Needs(w, k)')
      BY <2>h, <2>2, <2>3 DEF OnceEach
    <3>. QED BY <2>4, <3>1, <3>2, <3>3, <3>4 DEF OnceEach
  <2>. QED BY <2>o, <2>w, <2>e, WantsLess
<1>8. ASSUME NEW w \in Writers, BatchAlloc(w) PROVE KeysApart'
  <2>o. \A x \in Writers \ {w} : /\ todo'[x] = todo[x] /\ need'[x] = need[x]
                                  /\ items'[x] = items[x] /\ pc'[x] = pc[x]
    BY <1>8 DEF BatchAlloc, Goto
  <2>h. OnceEach(w)
    BY DEF KeysApart
  <2>0. PICK n \in 0 .. Len(need[w]) : \E give \in [1 .. n -> Slots] : Handout(w, n, give)
    BY <1>8, BatchAllocHands
  <2>1. PICK give \in [1 .. n -> Slots] : Handout(w, n, give)
    BY <2>0
  <2>2. /\ todo' = todo /\ pc'[w] # "check"
        /\ need'[w] = SubSeq(need[w], n + 1, Len(need[w]))
        /\ items'[w] = {[key |-> need[w][i], slot |-> give[i]] : i \in 1 .. n}
    BY <1>8, <2>1 DEF BatchAlloc, Goto, NextKey, Handout
  <2>3. need[w] \in Seq(Keys) /\ \A i, j \in DOMAIN need[w] : need[w][i] = need[w][j] => i = j
    BY <2>h DEF OnceEach
  <2>4. \A k \in Keys : Needs(w, k)' => InRest(need[w], n, k)
    BY <2>1, HandoutKeys DEF OwnInv
  <2>5. \A k \in Keys : Holds(w, k)' => InFirst(need[w], n, k)
    BY <2>1, HandoutKeys DEF OwnInv
  <2>6. \A k \in Keys : InRest(need[w], n, k) \/ InFirst(need[w], n, k) => Needs(w, k)
    BY <2>1, HandoutKeys DEF OwnInv
  <2>7. \A k \in Keys : ~Asks(w, k)'
    BY <2>2 DEF Asks
  <2>w. \A k \in Keys : Wants(w, k)' => Wants(w, k)
    BY <2>4, <2>5, <2>6, <2>7 DEF Wants
  <2>e. OnceEach(w)'
    <3>1. \A i, j \in DOMAIN todo'[w] : todo'[w][i] = todo'[w][j] => i = j
      BY <2>2, <2>h DEF OnceEach
    <3>2. \A i, j \in DOMAIN need'[w] : need'[w][i] = need'[w][j] => i = j
      BY <2>2, <2>3, RestWithin
    <3>3. \A c, d \in items'[w] : c.key = d.key => c = d
      <4>. SUFFICES ASSUME NEW c \in items'[w], NEW d \in items'[w], c.key = d.key
                    PROVE  c = d
        OBVIOUS
      <4>1. PICK i \in 1 .. n : c = [key |-> need[w][i], slot |-> give[i]]
        BY <2>2
      <4>2. PICK j \in 1 .. n : d = [key |-> need[w][j], slot |-> give[j]]
        BY <2>2
      <4>3. i \in DOMAIN need[w] /\ j \in DOMAIN need[w]
        BY <2>3, LenProperties
      <4>. QED BY <2>3, <4>1, <4>2, <4>3
    <3>4. \A k \in Keys : ~(Needs(w, k)' /\ Holds(w, k)')
      BY <2>3, <2>4, <2>5, RestWithin
    <3>. QED BY <2>7, <3>1, <3>2, <3>3, <3>4 DEF OnceEach
  <2>. QED BY <2>o, <2>w, <2>e, WantsLess
<1>9. ASSUME NEW w \in Writers, AllocOk(w) PROVE KeysApart'
  <2>o. \A x \in Writers \ {w} : /\ todo'[x] = todo[x] /\ need'[x] = need[x]
                                  /\ items'[x] = items[x] /\ pc'[x] = pc[x]
    BY <1>9 DEF AllocOk, Goto
  <2>h. OnceEach(w)
    BY DEF KeysApart
  <2>0. need[w] \in Seq(Keys) /\ need[w] # <<>>
    BY <1>9 DEF AllocOk, OwnInv, Control, NeedKept, Ladder
  <2>n. need'[w] = Tail(need[w]) /\ todo' = todo /\ pc'[w] # "check"
    BY <1>9 DEF AllocOk, Goto, NextKey
  <2>1. PICK s \in Slots :
           items'[w] = items[w] \cup {[key |-> Head(need[w]), slot |-> s]}
    BY <1>9 DEF AllocOk
  <2>k. Head(need[w]) \in Keys /\ Needs(w, Head(need[w]))
    BY <2>0, HeadTail DEF Needs
  <2>2. \A k \in Keys : Needs(w, k)' => Needs(w, k) /\ k # Head(need[w])
    BY <2>0, <2>n, <2>h, TailWithin, TailWithoutHead DEF Needs, OnceEach
  <2>3. \A k \in Keys : /\ ~Asks(w, k)'
                        /\ Holds(w, k)' => Holds(w, k) \/ k = Head(need[w])
    BY <2>n, <2>1 DEF Asks, Holds
  <2>w. \A k \in Keys : Wants(w, k)' => Wants(w, k)
    BY <2>k, <2>2, <2>3 DEF Wants
  <2>e. OnceEach(w)'
    <3>1. \A i, j \in DOMAIN need'[w] : need'[w][i] = need'[w][j] => i = j
      BY <2>0, <2>n, <2>h, TailWithin DEF OnceEach
    <3>2. \A i, j \in DOMAIN todo'[w] : todo'[w][i] = todo'[w][j] => i = j
      BY <2>n, <2>h DEF OnceEach
    <3>3. \A c, d \in items'[w] : c.key = d.key => c = d
      <4>1. ~Holds(w, Head(need[w]))
        BY <2>h, <2>k DEF OnceEach
      <4>. QED BY <2>h, <2>1, <4>1 DEF OnceEach, Holds
    <3>4. \A k \in Keys : ~(Needs(w, k)' /\ Holds(w, k)')
      BY <2>h, <2>2, <2>3 DEF OnceEach
    <3>. QED BY <2>3, <3>1, <3>2, <3>3, <3>4 DEF OnceEach
  <2>. QED BY <2>o, <2>w, <2>e, WantsLess
<1>10. ASSUME NEW w \in Writers, ClimbLadder(w) PROVE KeysApart'
  <2>1. todo' = todo /\ need' = need /\ items' = items
    BY <1>10 DEF ClimbLadder, putVars
  <2>2. \A x \in Writers : pc'[x] = "check" => pc[x] = "check"
    BY <1>10 DEF ClimbLadder, Goto, AfterFlush
  <2>. QED BY <2>1, <2>2, WantsUnchanged
<1>11. ASSUME NEW w \in Writers, NoSpace(w) PROVE KeysApart'
  <2>o. \A x \in Writers \ {w} : /\ todo'[x] = todo[x] /\ need'[x] = need[x]
                                  /\ items'[x] = items[x] /\ pc'[x] = pc[x]
    BY <1>11 DEF NoSpace, Goto, putVars
  <2>h. OnceEach(w)
    BY DEF KeysApart
  <2>0. need[w] \in Seq(Keys) /\ need[w] # <<>>
    BY <1>11 DEF NoSpace, OwnInv, Control, NeedKept, Ladder
  <2>1. /\ todo' = todo /\ items' = items /\ need'[w] = Tail(need[w])
        /\ pc'[w] # "check"
    BY <1>11 DEF NoSpace, Goto, NextKey
  <2>2. \A k \in Keys : Needs(w, k)' => Needs(w, k)
    BY <2>0, <2>1, TailWithin DEF Needs
  <2>3. \A k \in Keys : ~Asks(w, k)' /\ (Holds(w, k)' <=> Holds(w, k))
    BY <2>1 DEF Asks, Holds
  <2>w. \A k \in Keys : Wants(w, k)' => Wants(w, k)
    BY <2>2, <2>3 DEF Wants
  <2>e. OnceEach(w)'
    <3>1. \A i, j \in DOMAIN need'[w] : need'[w][i] = need'[w][j] => i = j
      BY <2>0, <2>1, <2>h, TailWithin DEF OnceEach
    <3>2. /\ \A i, j \in DOMAIN todo'[w] : todo'[w][i] = todo'[w][j] => i = j
          /\ \A c, d \in items'[w] : c.key = d.key => c = d
      BY <2>1, <2>h DEF OnceEach
    <3>. QED BY <2>h, <2>2, <2>3, <3>1, <3>2 DEF OnceEach
  <2>. QED BY <2>o, <2>w, <2>e, WantsLess
<1>12. ASSUME NEW w \in Writers, WriteStarts(w) PROVE KeysApart'
  <2>1. todo' = todo /\ need' = need /\ items' = items
    BY <1>12 DEF WriteStarts, putVars
  <2>2. \A x \in Writers : pc'[x] = "check" => pc[x] = "check"
    BY <1>12 DEF WriteStarts, Goto, AfterFlush
  <2>. QED BY <2>1, <2>2, WantsUnchanged
<1>13. ASSUME NEW w \in Writers, WriteOk(w) PROVE KeysApart'
  <2>1. todo' = todo /\ need' = need /\ items' = items
    BY <1>13 DEF WriteOk, putVars
  <2>2. \A x \in Writers : pc'[x] = "check" => pc[x] = "check"
    BY <1>13 DEF WriteOk, Goto, AfterFlush
  <2>. QED BY <2>1, <2>2, WantsUnchanged
<1>14. ASSUME NEW w \in Writers, WriteFails(w) PROVE KeysApart'
  <2>1. todo' = todo /\ need' = need /\ items' = items
    BY <1>14 DEF WriteFails, putVars
  <2>2. \A x \in Writers : pc'[x] = "check" => pc[x] = "check"
    BY <1>14 DEF WriteFails, Goto, AfterFlush
  <2>. QED BY <2>1, <2>2, WantsUnchanged
<1>15. ASSUME NEW w \in Writers, Unwind(w) PROVE KeysApart'
  <2>o. \A x \in Writers \ {w} : /\ todo'[x] = todo[x] /\ need'[x] = need[x]
                                  /\ items'[x] = items[x] /\ pc'[x] = pc[x]
    BY <1>15 DEF Unwind, Goto
  <2>h. OnceEach(w)
    BY DEF KeysApart
  <2>1. todo' = todo /\ need' = need /\ items'[w] \subseteq items[w] /\ pc'[w] # "check"
    BY <1>15 DEF Unwind, Goto, putVars
  <2>2. \A k \in Keys : /\ ~Asks(w, k)' /\ (Needs(w, k)' <=> Needs(w, k))
                        /\ Holds(w, k)' => Holds(w, k)
    BY <2>1 DEF Asks, Needs, Holds
  <2>w. \A k \in Keys : Wants(w, k)' => Wants(w, k)
    BY <2>2 DEF Wants
  <2>e. OnceEach(w)'
    BY <2>h, <2>1, <2>2 DEF OnceEach
  <2>. QED BY <2>o, <2>w, <2>e, WantsLess
<1>16. ASSUME NEW w \in Writers, Publish(w) PROVE KeysApart'
  <2>o. \A x \in Writers \ {w} : /\ todo'[x] = todo[x] /\ need'[x] = need[x]
                                  /\ items'[x] = items[x] /\ pc'[x] = pc[x]
    BY <1>16 DEF Publish, Goto
  <2>h. OnceEach(w)
    BY DEF KeysApart
  <2>1. todo' = todo /\ need' = need /\ items'[w] \subseteq items[w] /\ pc'[w] # "check"
    BY <1>16 DEF Publish, Goto, putVars
  <2>2. \A k \in Keys : /\ ~Asks(w, k)' /\ (Needs(w, k)' <=> Needs(w, k))
                        /\ Holds(w, k)' => Holds(w, k)
    BY <2>1 DEF Asks, Needs, Holds
  <2>w. \A k \in Keys : Wants(w, k)' => Wants(w, k)
    BY <2>2 DEF Wants
  <2>e. OnceEach(w)'
    BY <2>h, <2>1, <2>2 DEF OnceEach
  <2>. QED BY <2>o, <2>w, <2>e, WantsLess
<1>17. ASSUME NEW w \in Writers, ForcePick(w) PROVE KeysApart'
  <2>1. todo' = todo /\ need' = need /\ items' = items
    BY <1>17 DEF ForcePick, putVars
  <2>2. \A x \in Writers : pc'[x] = "check" => pc[x] = "check"
    BY <1>17 DEF ForcePick, Goto, AfterFlush
  <2>. QED BY <2>1, <2>2, WantsUnchanged
<1>18. ASSUME NEW t \in Mutators, SyncRemoveOk(t) PROVE KeysApart'
  <2>1. todo' = todo /\ need' = need /\ items' = items
    BY <1>18 DEF SyncRemoveOk, putVars
  <2>2. \A x \in Writers : pc'[x] = "check" => pc[x] = "check"
    BY <1>18 DEF SyncRemoveOk, Goto, AfterFlush
  <2>. QED BY <2>1, <2>2, WantsUnchanged
<1>19. ASSUME NEW t \in Mutators, SyncRemoveFails(t) PROVE KeysApart'
  <2>1. todo' = todo /\ need' = need /\ items' = items
    BY <1>19 DEF SyncRemoveFails, putVars
  <2>2. \A x \in Writers : pc'[x] = "check" => pc[x] = "check"
    BY <1>19 DEF SyncRemoveFails, Goto, AfterFlush
  <2>. QED BY <2>1, <2>2, WantsUnchanged
<1>20. ASSUME NEW t \in Mutators, EvictRemove(t) PROVE KeysApart'
  <2>1. todo' = todo /\ need' = need /\ items' = items
    BY <1>20 DEF EvictRemove, putVars
  <2>2. \A x \in Writers : pc'[x] = "check" => pc[x] = "check"
    BY <1>20 DEF EvictRemove, Goto, AfterFlush
  <2>. QED BY <2>1, <2>2, WantsUnchanged
<1>21. ASSUME NEW t \in Mutators, EvictEnqueue(t) PROVE KeysApart'
  <2>1. todo' = todo /\ need' = need /\ items' = items
    BY <1>21 DEF EvictEnqueue, putVars
  <2>2. \A x \in Writers : pc'[x] = "check" => pc[x] = "check"
    BY <1>21 DEF EvictEnqueue, Goto, AfterFlush
  <2>. QED BY <2>1, <2>2, WantsUnchanged
<1>22. ASSUME NEW t \in Threads, ReadNow(t) PROVE KeysApart'
  <2>1. todo' = todo /\ need' = need /\ items' = items
    BY <1>22 DEF ReadNow, putVars
  <2>2. \A x \in Writers : pc'[x] = "check" => pc[x] = "check"
    BY <1>22 DEF ReadNow, Goto, AfterFlush
  <2>. QED BY <2>1, <2>2, WantsUnchanged
<1>23. ASSUME NEW t \in Threads, TakeExpired(t) PROVE KeysApart'
  <2>1. todo' = todo /\ need' = need /\ items' = items
    BY <1>23 DEF TakeExpired, putVars
  <2>2. \A x \in Writers : pc'[x] = "check" => pc[x] = "check"
    BY <1>23 DEF TakeExpired, Goto, AfterFlush
  <2>. QED BY <2>1, <2>2, WantsUnchanged
<1>24. ASSUME NEW t \in Threads, FreeTaken(t) PROVE KeysApart'
  <2>1. todo' = todo /\ need' = need /\ items' = items
    BY <1>24 DEF FreeTaken, putVars
  <2>2. \A x \in Writers : pc'[x] = "check" => pc[x] = "check"
    BY <1>24 DEF FreeTaken, Goto, AfterFlush
  <2>. QED BY <2>1, <2>2, WantsUnchanged
<1>25. ASSUME NEW w \in Writers, TakeAll(w) PROVE KeysApart'
  <2>1. todo' = todo /\ need' = need /\ items' = items
    BY <1>25 DEF TakeAll, putVars
  <2>2. \A x \in Writers : pc'[x] = "check" => pc[x] = "check"
    BY <1>25 DEF TakeAll, Goto, AfterFlush
  <2>. QED BY <2>1, <2>2, WantsUnchanged
<1>26. ASSUME NEW w \in Writers, RemoveSync(w) PROVE KeysApart'
  <2>o. \A x \in Writers \ {w} : /\ todo'[x] = todo[x] /\ need'[x] = need[x]
                                  /\ items'[x] = items[x] /\ pc'[x] = pc[x]
    BY <1>26 DEF RemoveSync, Goto
  <2>h. OnceEach(w)
    BY DEF KeysApart
  <2>1. /\ need' = need /\ items' = items /\ pc'[w] # "check"
        /\ \A i, j \in DOMAIN todo'[w] : todo'[w][i] = todo'[w][j] => i = j
    BY <1>26, <2>h DEF RemoveSync, Goto, putVars, OnceEach
  <2>2. \A k \in Keys : /\ ~Asks(w, k)' /\ (Needs(w, k)' <=> Needs(w, k))
                        /\ Holds(w, k)' <=> Holds(w, k)
    BY <2>1 DEF Asks, Needs, Holds
  <2>w. \A k \in Keys : Wants(w, k)' => Wants(w, k)
    BY <2>2 DEF Wants
  <2>e. OnceEach(w)'
    BY <2>h, <2>1, <2>2 DEF OnceEach
  <2>. QED BY <2>o, <2>w, <2>e, WantsLess
<1>27. ASSUME NEW w \in Writers, RemoveFromIndex(w) PROVE KeysApart'
  <2>o. \A x \in Writers \ {w} : /\ todo'[x] = todo[x] /\ need'[x] = need[x]
                                  /\ items'[x] = items[x] /\ pc'[x] = pc[x]
    BY <1>27 DEF RemoveFromIndex, Goto
  <2>h. OnceEach(w)
    BY DEF KeysApart
  <2>1. /\ need' = need /\ items' = items /\ pc'[w] # "check"
        /\ \A i, j \in DOMAIN todo'[w] : todo'[w][i] = todo'[w][j] => i = j
    BY <1>27, <2>h DEF RemoveFromIndex, Goto, putVars, OnceEach
  <2>2. \A k \in Keys : /\ ~Asks(w, k)' /\ (Needs(w, k)' <=> Needs(w, k))
                        /\ Holds(w, k)' <=> Holds(w, k)
    BY <2>1 DEF Asks, Needs, Holds
  <2>w. \A k \in Keys : Wants(w, k)' => Wants(w, k)
    BY <2>2 DEF Wants
  <2>e. OnceEach(w)'
    BY <2>h, <2>1, <2>2 DEF OnceEach
  <2>. QED BY <2>o, <2>w, <2>e, WantsLess
<1>28. ASSUME NEW w \in Writers, RemoveEnqueue(w) PROVE KeysApart'
  <2>1. todo' = todo /\ need' = need /\ items' = items
    BY <1>28 DEF RemoveEnqueue, putVars
  <2>2. \A x \in Writers : pc'[x] = "check" => pc[x] = "check"
    BY <1>28 DEF RemoveEnqueue, Goto, AfterFlush
  <2>. QED BY <2>1, <2>2, WantsUnchanged
<1>29. ASSUME UNCHANGED vars PROVE KeysApart'
  BY <1>29, WantsUnchanged DEF vars
<1>. QED BY <1>1, <1>2, <1>3, <1>4, <1>5, <1>6, <1>7, <1>8, <1>9, <1>10, <1>11, <1>12, <1>13, <1>14, <1>15,
             <1>16, <1>17, <1>18, <1>19, <1>20, <1>21, <1>22, <1>23, <1>24, <1>25, <1>26, <1>27, <1>28, <1>29,
             <1>30
   DEF Next, Calls, WriterStep, PutStep, EvictStep, FlushStep, RemoveStep, EvictorStep,
       Mutators, Threads

LEMMA UnindexedAlways ==
    ASSUME Apart, OwnInv, [Next]_vars
    PROVE  Unindexed'
<1>0. /\ need \in [Writers -> Seq(Keys)] /\ items \in [Writers -> SUBSET Records]
      /\ index \in [Keys -> Slots \cup {NoSlot}] /\ todo \in [Writers -> Seq(Keys)]
  BY DEF OwnInv, TypeOK
<1>. SUFFICES ASSUME NEW x \in Writers, NEW y \in Keys, Needs(x, y)' \/ Holds(x, y)'
              PROVE  index'[y] = NoSlot
  BY DEF Unindexed
<1>h. Needs(x, y) \/ Holds(x, y) => index[y] = NoSlot
  BY DEF OwnInv, Unindexed
<1>. USE <1>0, <1>h
<1>1. ASSUME Tick PROVE index'[y] = NoSlot
  BY <1>1 DEF Tick, Needs, Holds, putVars, evictVars, flushVars
<1>2. ASSUME ReaperWakes PROVE index'[y] = NoSlot
  BY <1>2 DEF ReaperWakes, Needs, Holds, putVars, evictVars, flushVars
<1>3. ASSUME LoopWakes PROVE index'[y] = NoSlot
  BY <1>3 DEF LoopWakes, Needs, Holds, putVars, evictVars, flushVars
<1>30. ASSUME LoopTest PROVE index'[y] = NoSlot
  BY <1>30 DEF LoopTest, Needs, Holds, putVars, evictVars, flushVars
<1>4. ASSUME LoopPick PROVE index'[y] = NoSlot
  BY <1>4 DEF LoopPick, Needs, Holds, putVars
<1>5. ASSUME NEW w \in Writers, NEW ks \in Batches[w], BatchPut(w, ks) PROVE index'[y] = NoSlot
  BY <1>5 DEF BatchPut, Needs, Holds, putVars, evictVars, flushVars
<1>6. ASSUME NEW w \in Writers, NEW k \in Removals[w], Remove(w, k) PROVE index'[y] = NoSlot
  BY <1>6 DEF Remove, Needs, Holds, putVars, evictVars, flushVars
<1>7. ASSUME NEW w \in Writers, CheckKey(w) PROVE index'[y] = NoSlot
  <2>1. todo[w] \in Seq(Keys) /\ todo[w] # <<>>
    BY <1>7 DEF CheckKey, OwnInv, Control, TodoKept
  <2>2. Head(todo[w]) \in Keys
    BY <2>1, HeadTail
  <2>3. items' = items /\ index' = index /\ \A v \in Writers \ {w} : need'[v] = need[v]
    BY <1>7 DEF CheckKey
  <2>4. \/ need'[w] = need[w]
        \/ need'[w] = Append(need[w], Head(todo[w])) /\ index[Head(todo[w])] = NoSlot
    BY <1>7 DEF CheckKey
  <2>5. need'[w] = Append(need[w], Head(todo[w])) /\ Needs(w, y)' =>
           Needs(w, y) \/ y = Head(todo[w])
    BY <2>2, AppendWithin DEF Needs
  <2>6. x # w \/ need'[w] = need[w] => (Needs(x, y)' => Needs(x, y))
    BY <2>3 DEF Needs
  <2>7. Holds(x, y)' => Holds(x, y)
    BY <2>3 DEF Holds
  <2>. QED BY <2>3, <2>4, <2>5, <2>6, <2>7
<1>8. ASSUME NEW w \in Writers, BatchAlloc(w) PROVE index'[y] = NoSlot
  <2>1. PICK n \in 0 .. Len(need[w]) : \E give \in [1 .. n -> Slots] : Handout(w, n, give)
    BY <1>8, BatchAllocHands
  <2>2. PICK give \in [1 .. n -> Slots] : Handout(w, n, give)
    BY <2>1
  <2>3. index' = index
    BY <1>8 DEF BatchAlloc
  <2>4. CASE x = w
    BY <2>2, <2>3, <2>4, HandoutKeys DEF OwnInv
  <2>5. CASE x # w
    <3>1. need'[x] = need[x] /\ items'[x] = items[x]
      BY <2>2, <2>5 DEF Handout
    <3>. QED BY <2>3, <3>1 DEF Needs, Holds
  <2>. QED BY <2>4, <2>5
<1>9. ASSUME NEW w \in Writers, AllocOk(w) PROVE index'[y] = NoSlot
  <2>1. need[w] \in Seq(Keys) /\ need[w] # <<>>
    BY <1>9 DEF AllocOk, OwnInv, Control, NeedKept, Ladder
  <2>2. Needs(w, Head(need[w]))
    BY <2>1, HeadTail, LenProperties DEF Needs
  <2>3. index' = index /\ need' = [need EXCEPT ![w] = Tail(@)]
    BY <1>9 DEF AllocOk
  <2>4. PICK s \in Slots :
           items' = [items EXCEPT ![w] = @ \cup {[key |-> Head(need[w]), slot |-> s]}]
    BY <1>9 DEF AllocOk
  <2>5. Holds(x, y)' => Holds(x, y) \/ (x = w /\ y = Head(need[w]))
    BY <2>4 DEF Holds
  <2>6. Needs(x, y)' => Needs(x, y)
    BY <2>1, <2>3, TailWithin DEF Needs
  <2>. QED BY <2>2, <2>3, <2>5, <2>6
<1>10. ASSUME NEW w \in Writers, ClimbLadder(w) PROVE index'[y] = NoSlot
  BY <1>10 DEF ClimbLadder, Needs, Holds, putVars, evictVars, flushVars
<1>11. ASSUME NEW w \in Writers, NoSpace(w) PROVE index'[y] = NoSlot
  <2>1. need[w] \in Seq(Keys) /\ need[w] # <<>>
    BY <1>11 DEF NoSpace, OwnInv, Control, NeedKept, Ladder
  <2>2. Needs(w, Head(need[w]))
    BY <2>1, HeadTail, LenProperties DEF Needs
  <2>3. index' = index /\ need' = [need EXCEPT ![w] = Tail(@)]
    BY <1>11 DEF NoSpace
  <2>5. Holds(x, y)' => Holds(x, y)
    BY <1>11 DEF NoSpace, Holds
  <2>6. Needs(x, y)' => Needs(x, y)
    BY <2>1, <2>3, TailWithin DEF Needs
  <2>. QED BY <2>2, <2>3, <2>5, <2>6
<1>12. ASSUME NEW w \in Writers, WriteStarts(w) PROVE index'[y] = NoSlot
  BY <1>12 DEF WriteStarts, Needs, Holds, putVars, evictVars, flushVars
<1>13. ASSUME NEW w \in Writers, WriteOk(w) PROVE index'[y] = NoSlot
  BY <1>13 DEF WriteOk, Needs, Holds, putVars, evictVars, flushVars
<1>14. ASSUME NEW w \in Writers, WriteFails(w) PROVE index'[y] = NoSlot
  BY <1>14 DEF WriteFails, Needs, Holds, putVars, evictVars, flushVars
<1>15. ASSUME NEW w \in Writers, Unwind(w) PROVE index'[y] = NoSlot
  <2>1. need' = need /\ index' = index /\ \A v \in Writers : items'[v] \subseteq items[v]
    BY <1>15 DEF Unwind
  <2>. QED BY <2>1 DEF Needs, Holds
<1>16. ASSUME NEW w \in Writers, Publish(w) PROVE index'[y] = NoSlot
  <2>1. PICK c \in items[w] : /\ index' = [index EXCEPT ![c.key] = c.slot]
                              /\ items' = [items EXCEPT ![w] = @ \ {c}]
    BY <1>16 DEF Publish
  <2>2. need' = need /\ need[w] = <<>> /\ c.key \in Keys /\ Holds(w, c.key)
    BY <1>16 DEF Publish, OwnInv, TypeOK, Records, Cleared, ClearedPut, Holds
  <2>3. Needs(x, y) \/ Holds(x, y)
    BY <2>1, <2>2 DEF Needs, Holds
  <2>4. y # c.key
    <3>1. CASE x # w
      BY <2>2, <2>3, <3>1 DEF OwnInv, KeysApart, Wants
    <3>2. CASE x = w
      <4>1. OnceEach(w) /\ Holds(w, y)' /\ items'[w] = items[w] \ {c}
        BY <2>1, <2>2, <3>2 DEF OwnInv, KeysApart, Needs
      <4>. QED BY <4>1 DEF OnceEach, Holds
    <3>. QED BY <3>1, <3>2
  <2>. QED BY <2>1, <2>2, <2>3, <2>4
<1>17. ASSUME NEW w \in Writers, ForcePick(w) PROVE index'[y] = NoSlot
  BY <1>17 DEF ForcePick, Needs, Holds, putVars, evictVars, flushVars
<1>18. ASSUME NEW t \in Mutators, SyncRemoveOk(t) PROVE index'[y] = NoSlot
  BY <1>18 DEF SyncRemoveOk, Needs, Holds, putVars, evictVars, flushVars
<1>19. ASSUME NEW t \in Mutators, SyncRemoveFails(t) PROVE index'[y] = NoSlot
  BY <1>19 DEF SyncRemoveFails, Needs, Holds, putVars, evictVars, flushVars
<1>20. ASSUME NEW t \in Mutators, EvictRemove(t) PROVE index'[y] = NoSlot
  <2>1. PICK c \in cands[t] : index' = [index EXCEPT ![c.key] = NoSlot]
    BY <1>20 DEF EvictRemove
  <2>. QED BY <1>20, <2>1 DEF EvictRemove, Needs, Holds, putVars
<1>21. ASSUME NEW t \in Mutators, EvictEnqueue(t) PROVE index'[y] = NoSlot
  BY <1>21 DEF EvictEnqueue, Needs, Holds, putVars, evictVars, flushVars
<1>22. ASSUME NEW t \in Threads, ReadNow(t) PROVE index'[y] = NoSlot
  BY <1>22 DEF ReadNow, Needs, Holds, putVars, evictVars, flushVars
<1>23. ASSUME NEW t \in Threads, TakeExpired(t) PROVE index'[y] = NoSlot
  BY <1>23 DEF TakeExpired, Needs, Holds, putVars, evictVars, flushVars
<1>24. ASSUME NEW t \in Threads, FreeTaken(t) PROVE index'[y] = NoSlot
  BY <1>24 DEF FreeTaken, Needs, Holds, putVars, evictVars, flushVars
<1>25. ASSUME NEW w \in Writers, TakeAll(w) PROVE index'[y] = NoSlot
  BY <1>25 DEF TakeAll, Needs, Holds, putVars, evictVars, flushVars
<1>26. ASSUME NEW w \in Writers, RemoveSync(w) PROVE index'[y] = NoSlot
  BY <1>26 DEF RemoveSync, Needs, Holds, putVars, evictVars, flushVars
<1>27. ASSUME NEW w \in Writers, RemoveFromIndex(w) PROVE index'[y] = NoSlot
  BY <1>27 DEF RemoveFromIndex, Needs, Holds, putVars, evictVars, flushVars
<1>28. ASSUME NEW w \in Writers, RemoveEnqueue(w) PROVE index'[y] = NoSlot
  BY <1>28 DEF RemoveEnqueue, Needs, Holds, putVars, evictVars, flushVars
<1>29. ASSUME UNCHANGED vars PROVE index'[y] = NoSlot
  BY <1>29 DEF vars, Needs, Holds
<1>. QED BY <1>1, <1>2, <1>3, <1>4, <1>5, <1>6, <1>7, <1>8, <1>9, <1>10, <1>11, <1>12, <1>13, <1>14, <1>15,
             <1>16, <1>17, <1>18, <1>19, <1>20, <1>21, <1>22, <1>23, <1>24, <1>25, <1>26, <1>27, <1>28, <1>29,
             <1>30
   DEF Next, Calls, WriterStep, PutStep, EvictStep, FlushStep, RemoveStep, EvictorStep,
       Mutators, Threads


----------------------------------------------------------------------------
(* Every slot has one owner *)

Alloc == <<"allocator", 0, 0>>

(* A slot that nothing happens to keeps its owner. *)
LEMMA Stays ==
    ASSUME NEW s, \A q : Owner(q, s)' <=> Owner(q, s), \E p : \A q : Owner(q, s) <=> q = p
    PROVE  \E p : \A q : Owner(q, s)' <=> q = p
<1>1. PICK p : \A q : Owner(q, s) <=> q = p
  OBVIOUS
<1>2. \A q : Owner(q, s)' <=> q = p
  BY <1>1
<1>. QED BY <1>2

(* A slot that moves from one owner to another is the other's alone. *)
LEMMA Moves ==
    ASSUME NEW s, NEW from, NEW to,
           Owner(from, s), \E p : \A q : Owner(q, s) <=> q = p,
           \A q : Owner(q, s)' <=> (Owner(q, s) /\ q # from) \/ q = to
    PROVE  \E p : \A q : Owner(q, s)' <=> q = p
<1>1. \A q : Owner(q, s) <=> q = from
  OBVIOUS
<1>2. \A q : Owner(q, s)' <=> q = to
  BY <1>1
<1>. QED BY <1>2

(* The owner of a slot is its only one. *)
LEMMA OnlyOwner ==
    ASSUME Owned, NEW s \in Slots, NEW p, Owner(p, s), NEW q, Owner(q, s)
    PROVE  q = p
  BY DEF Owned

(* The parts of Owner that a step leaves alone. *)
LEMMA PartsKept ==
    ASSUME NEW q, NEW s
    PROVE  /\ offers' = offers => (ByAllocator(q, s)' <=> ByAllocator(q, s))
           /\ index' = index => (ByIndex(q, s)' <=> ByIndex(q, s))
           /\ pending' = pending => (ByQueue(q, s)' <=> ByQueue(q, s))
           /\ spoils' = spoils => (ByFlush(q, s)' <=> ByFlush(q, s))
           /\ items' = items => (ByPut(q, s)' <=> ByPut(q, s))
           /\ hand' = hand => (ByEviction(q, s)' <=> ByEviction(q, s))
<1>1. offers' = offers => (ByAllocator(q, s)' <=> ByAllocator(q, s))
  BY DEF ByAllocator
<1>2. index' = index => (ByIndex(q, s)' <=> ByIndex(q, s))
  BY DEF ByIndex
<1>3. pending' = pending => (ByQueue(q, s)' <=> ByQueue(q, s))
  BY DEF ByQueue
<1>4. spoils' = spoils => (ByFlush(q, s)' <=> ByFlush(q, s))
  BY DEF ByFlush
<1>5. items' = items => (ByPut(q, s)' <=> ByPut(q, s))
  BY DEF ByPut
<1>6. hand' = hand => (ByEviction(q, s)' <=> ByEviction(q, s))
  BY DEF ByEviction
<1>. QED BY <1>1, <1>2, <1>3, <1>4, <1>5, <1>6

(* How each part changes when something is taken out or put in. *)
LEMMA OfferedMore ==
    ASSUME TypeOK, NEW z \in Slots, offers' = [offers EXCEPT ![z] = @ + 1],
           NEW q, NEW s \in Slots
    PROVE  ByAllocator(q, s)' <=> ByAllocator(q, s) \/ (s = z /\ q = Alloc)
<1>1. offers[s] \in Nat /\ offers'[s] = IF s = z THEN offers[s] + 1 ELSE offers[s]
  BY DEF TypeOK
<1>2. offers'[s] > 0 <=> offers[s] > 0 \/ s = z
  BY <1>1
<1>. QED BY <1>2 DEF ByAllocator, Alloc

LEMMA OfferedLess ==
    ASSUME TypeOK, Single, NEW z \in Slots, offers[z] > 0, offers' = [offers EXCEPT ![z] = @ - 1],
           NEW q, NEW s \in Slots
    PROVE  ByAllocator(q, s)' <=> ByAllocator(q, s) /\ ~(s = z /\ q = Alloc)
<1>1. /\ offers[s] \in Nat /\ offers'[s] = IF s = z THEN offers[s] - 1 ELSE offers[s]
      /\ offers[s] <= 1
  BY DEF TypeOK, Single
<1>2. offers'[s] > 0 <=> offers[s] > 0 /\ s # z
  BY <1>1
<1>. QED BY <1>2 DEF ByAllocator, Alloc

LEMMA QueuedMore ==
    ASSUME TypeOK, NEW z \in Slots, pending' = [pending EXCEPT ![z][clock] = @ + 1],
           NEW q, NEW s \in Slots
    PROVE  ByQueue(q, s)' <=> ByQueue(q, s) \/ (s = z /\ q = <<"queue", clock, 0>>)
<1>1. clock \in Times /\ \A e \in Times : pending[s][e] \in Nat
  BY DEF TypeOK, Queues
<1>2. \A e \in Times : pending'[s][e] = IF s = z /\ e = clock THEN pending[s][e] + 1
                                                              ELSE pending[s][e]
  BY <1>1 DEF TypeOK, Queues
<1>3. \A e \in Times : pending'[s][e] > 0 <=> pending[s][e] > 0 \/ (s = z /\ e = clock)
  BY <1>1, <1>2
<1>. QED BY <1>1, <1>3 DEF ByQueue

LEMMA FlushedLess ==
    ASSUME TypeOK, Single, NEW t \in Threads, NEW z \in Slots, NEW e \in Times,
           spoils[t][z][e] > 0, spoils' = [spoils EXCEPT ![t][z][e] = @ - 1],
           NEW q, NEW s \in Slots
    PROVE  ByFlush(q, s)' <=> ByFlush(q, s) /\ ~(s = z /\ q = <<"flush", t, e>>)
<1>1. \A u \in Threads, f \in Times : spoils[u][s][f] \in Nat /\ spoils[u][s][f] <= 1
  BY DEF TypeOK, Queues, Single
<1>2. \A u \in Threads, f \in Times :
         spoils'[u][s][f] = IF u = t /\ s = z /\ f = e THEN spoils[u][s][f] - 1
                                                       ELSE spoils[u][s][f]
  <2>1. spoils \in [Threads -> [Slots -> [Times -> Nat]]]
    BY DEF TypeOK, Queues
  <2>2. \A u \in Threads : u # t => spoils'[u] = spoils[u]
    BY <2>1
  <2>3. spoils'[t] = [spoils[t] EXCEPT ![z][e] = @ - 1]
    BY <2>1
  <2>4. \A f \in Times :
           spoils'[t][s][f] = IF s = z /\ f = e THEN spoils[t][s][f] - 1 ELSE spoils[t][s][f]
    BY <2>1, <2>3
  <2>. QED BY <2>2, <2>4
<1>3. \A u \in Threads, f \in Times :
         spoils'[u][s][f] > 0 <=> spoils[u][s][f] > 0 /\ ~(u = t /\ s = z /\ f = e)
  BY <1>1, <1>2
<1>. QED BY <1>3 DEF ByFlush

LEMMA HeldMore ==
    ASSUME TypeOK, NEW w \in Writers, NEW c \in Records,
           items' = [items EXCEPT ![w] = @ \cup {c}], NEW q, NEW s
    PROVE  ByPut(q, s)' <=> ByPut(q, s) \/ (s = c.slot /\ q = <<"put", w, c.key>>)
<1>1. \A v \in Writers : items'[v] = IF v = w THEN items[v] \cup {c} ELSE items[v]
  BY DEF TypeOK
<1>. QED BY <1>1 DEF ByPut

LEMMA HeldLess ==
    ASSUME TypeOK, KeysApart, NEW w \in Writers, NEW c \in items[w],
           items' = [items EXCEPT ![w] = @ \ {c}], NEW q, NEW s
    PROVE  ByPut(q, s)' <=> ByPut(q, s) /\ ~(s = c.slot /\ q = <<"put", w, c.key>>)
<1>1. \A v \in Writers : items'[v] = IF v = w THEN items[v] \ {c} ELSE items[v]
  BY DEF TypeOK
<1>2. \A d \in items[w] : d.key = c.key => d = c
  BY DEF KeysApart, OnceEach
<1>. QED BY <1>1, <1>2 DEF ByPut

LEMMA IndexedMore ==
    ASSUME TypeOK, NEW k \in Keys, NEW z \in Slots, index[k] = NoSlot,
           index' = [index EXCEPT ![k] = z], NEW q, NEW s \in Slots
    PROVE  ByIndex(q, s)' <=> ByIndex(q, s) \/ (s = z /\ q = <<"index", k, 0>>)
<1>1. \A j \in Keys : index'[j] = IF j = k THEN z ELSE index[j]
  BY DEF TypeOK
<1>2. NoSlot # s
  BY StoreAssumption
<1>. QED BY <1>1, <1>2 DEF ByIndex

LEMMA IndexedLess ==
    ASSUME TypeOK, NEW k \in Keys, index' = [index EXCEPT ![k] = NoSlot],
           NEW q, NEW s \in Slots
    PROVE  ByIndex(q, s)' <=> ByIndex(q, s) /\ ~(s = index[k] /\ q = <<"index", k, 0>>)
<1>1. \A j \in Keys : index'[j] = IF j = k THEN NoSlot ELSE index[j]
  BY DEF TypeOK
<1>2. NoSlot # s
  BY StoreAssumption
<1>. QED BY <1>1, <1>2 DEF ByIndex

LEMMA EvictedMore ==
    ASSUME TypeOK, NEW t \in Mutators, NEW c \in Records, hand[t] = NoRecord,
           hand' = [hand EXCEPT ![t] = c], NEW q, NEW s \in Slots
    PROVE  ByEviction(q, s)' <=> ByEviction(q, s) \/ (s = c.slot /\ q = <<"evict", t, 0>>)
<1>1. \A u \in Mutators : hand'[u] = IF u = t THEN c ELSE hand[u]
  BY DEF TypeOK
<1>2. hand[t].slot # s
  BY StoreAssumption DEF NoRecord
<1>. QED BY <1>1, <1>2 DEF ByEviction

LEMMA EvictedLess ==
    ASSUME TypeOK, NEW t \in Mutators, hand' = [hand EXCEPT ![t] = NoRecord],
           NEW q, NEW s \in Slots
    PROVE  ByEviction(q, s)' <=> ByEviction(q, s) /\ ~(s = hand[t].slot /\ q = <<"evict", t, 0>>)
<1>1. \A u \in Mutators : hand'[u] = IF u = t THEN NoRecord ELSE hand[u]
  BY DEF TypeOK
<1>2. NoRecord.slot # s
  BY StoreAssumption DEF NoRecord
<1>. QED BY <1>1, <1>2 DEF ByEviction

LEMMA Tags ==
    ASSUME NEW q, NEW s
    PROVE  /\ ByAllocator(q, s) => q[1] = "allocator"
           /\ ByIndex(q, s) => q[1] = "index"
           /\ ByQueue(q, s) => q[1] = "queue"
           /\ ByFlush(q, s) => q[1] = "flush"
           /\ ByPut(q, s) => q[1] = "put"
           /\ ByEviction(q, s) => q[1] = "evict"
  BY DEF ByAllocator, ByIndex, ByQueue, ByFlush, ByPut, ByEviction

LEMMA OwnedUnchanged ==
    ASSUME Owned, offers' = offers, index' = index, pending' = pending, spoils' = spoils,
           items' = items, hand' = hand
    PROVE  Owned'
<1>1. \A s \in Slots : \A q : Owner(q, s)' <=> Owner(q, s)
  BY PartsKept DEF Owner
<1>. QED BY <1>1, Stays DEF Owned

LEMMA Transfer ==
    ASSUME Owned, NEW z \in Slots, NEW from, NEW to, Owner(from, z),
           \A s \in Slots : \A q :
              Owner(q, s)' <=> \/ Owner(q, s) /\ ~(s = z /\ q = from)
                               \/ s = z /\ q = to
    PROVE  Owned'
<1>. SUFFICES ASSUME NEW s \in Slots PROVE \E p : \A q : Owner(q, s)' <=> q = p
  BY DEF Owned
<1>1. CASE s = z
  <2>1. \A q : Owner(q, s)' <=> (Owner(q, s) /\ q # from) \/ q = to
    BY <1>1
  <2>2. Owner(from, s)
    BY <1>1
  <2>3. \A q : Owner(q, s)' <=> q = to
    BY <2>1, <2>2 DEF Owned
  <2>. QED BY <2>3
<1>2. CASE s # z
  BY <1>2, Stays DEF Owned
<1>. QED BY <1>1, <1>2

LEMMA OwnedAlways ==
    ASSUME Apart, OwnInv, [Next]_vars
    PROVE  Owned'
<1>0. TypeOK /\ Owned /\ Single /\ KeysApart
  BY DEF OwnInv
<1>. USE <1>0
<1>1. ASSUME Tick PROVE Owned'
  BY <1>1, OwnedUnchanged DEF Tick, putVars, evictVars, flushVars
<1>2. ASSUME ReaperWakes PROVE Owned'
  BY <1>2, OwnedUnchanged DEF ReaperWakes, putVars, evictVars, flushVars
<1>3. ASSUME LoopWakes PROVE Owned'
  BY <1>3, OwnedUnchanged DEF LoopWakes, putVars, evictVars, flushVars
<1>30. ASSUME LoopTest PROVE Owned'
  BY <1>30, OwnedUnchanged DEF LoopTest, putVars, evictVars, flushVars
<1>4. ASSUME LoopPick PROVE Owned'
  BY <1>4, OwnedUnchanged DEF LoopPick, putVars, evictVars, flushVars
<1>5. ASSUME NEW w \in Writers, NEW ks \in Batches[w], BatchPut(w, ks) PROVE Owned'
  BY <1>5, OwnedUnchanged DEF BatchPut, putVars, evictVars, flushVars
<1>6. ASSUME NEW w \in Writers, NEW k \in Removals[w], Remove(w, k) PROVE Owned'
  BY <1>6, OwnedUnchanged DEF Remove, putVars, evictVars, flushVars
<1>7. ASSUME NEW w \in Writers, CheckKey(w) PROVE Owned'
  BY <1>7, OwnedUnchanged DEF CheckKey, putVars, evictVars, flushVars
<1>8. ASSUME NEW w \in Writers, BatchAlloc(w) PROVE Owned'
  <2>1. PICK n \in 0 .. Len(need[w]) : \E give \in [1 .. n -> Slots] : Handout(w, n, give)
    BY <1>8, BatchAllocHands
  <2>2. PICK give \in [1 .. n -> Slots] : Handout(w, n, give)
    BY <2>1
  <2>k. index' = index /\ pending' = pending /\ spoils' = spoils /\ hand' = hand
    BY <1>8 DEF BatchAlloc, flushVars
  <2>3. items[w] = {} /\ n \in Nat
    BY <1>8 DEF BatchAlloc, OwnInv, Cleared, ClearedPut, TypeOK
  <2>. SUFFICES ASSUME NEW s \in Slots PROVE \E p : \A q : Owner(q, s)' <=> q = p
    BY DEF Owned
  <2>4. \A q : (ByIndex(q, s)' <=> ByIndex(q, s)) /\ (ByQueue(q, s)' <=> ByQueue(q, s))
               /\ (ByFlush(q, s)' <=> ByFlush(q, s)) /\ (ByEviction(q, s)' <=> ByEviction(q, s))
    BY <2>k, PartsKept
  <2>5. \A q : ByPut(q, s)' <=>
                 \/ ByPut(q, s)
                 \/ \E i \in Given(n, give, s) : q = <<"put", w, need[w][i]>>
    <3>1. \A v \in Writers : items'[v] = IF v = w
                                  THEN {[key |-> need[w][i], slot |-> give[i]] : i \in 1 .. n}
                                  ELSE items[v]
      BY <2>2 DEF Handout, TypeOK
    <3>2. ASSUME NEW q, ByPut(q, s)'
          PROVE  ByPut(q, s) \/ \E i \in Given(n, give, s) : q = <<"put", w, need[w][i]>>
      <4>1. PICK v \in Writers : \E c \in items'[v] : q = <<"put", v, c.key>> /\ c.slot = s
        BY <3>2 DEF ByPut
      <4>2. PICK c \in items'[v] : q = <<"put", v, c.key>> /\ c.slot = s
        BY <4>1
      <4>3. CASE v = w
        <5>1. PICK i \in 1 .. n : c = [key |-> need[w][i], slot |-> give[i]]
          BY <3>1, <4>2, <4>3
        <5>. QED BY <4>2, <4>3, <5>1 DEF Given
      <4>4. CASE v # w
        BY <3>1, <4>2, <4>4 DEF ByPut
      <4>. QED BY <4>3, <4>4
    <3>3. ASSUME NEW q, ByPut(q, s) PROVE ByPut(q, s)'
      BY <2>3, <3>1, <3>3 DEF ByPut
    <3>4. ASSUME NEW q, NEW i \in Given(n, give, s), q = <<"put", w, need[w][i]>>
          PROVE  ByPut(q, s)'
      <4>1. PICK c : c = [key |-> need[w][i], slot |-> give[i]]
        OBVIOUS
      <4>2. c \in items'[w] /\ c.key = need[w][i] /\ c.slot = s
        BY <3>1, <4>1 DEF Given
      <4>. QED BY <3>4, <4>2 DEF ByPut
    <3>. QED BY <3>2, <3>3, <3>4
  <2>6. /\ offers[s] \in Nat /\ offers[s] <= 1
        /\ offers'[s] = offers[s] - Cardinality(Given(n, give, s))
        /\ offers[s] - Cardinality(Given(n, give, s)) >= 0
    BY <2>2 DEF Handout, TypeOK, Single
  <2>7. CASE Given(n, give, s) = {}
    <3>1. offers'[s] = offers[s]
      <4>1. Cardinality(Given(n, give, s)) = 0
        BY <2>3, <2>7, GivenCount
      <4>. QED BY <2>6, <4>1
    <3>2. \A q : (ByAllocator(q, s)' <=> ByAllocator(q, s)) /\ (ByPut(q, s)' <=> ByPut(q, s))
      BY <2>5, <2>7, <3>1 DEF ByAllocator
    <3>3. \A q : Owner(q, s)' <=> Owner(q, s)
      BY <2>4, <3>2 DEF Owner
    <3>. QED BY <3>3, Stays DEF Owned
  <2>8. CASE Given(n, give, s) # {}
    <3>1. PICK i \in Given(n, give, s) : TRUE
      BY <2>8
    <3>2. Cardinality(Given(n, give, s)) \in Nat /\ Cardinality(Given(n, give, s)) >= 1
      BY <2>3, <2>8, GivenCount
    <3>3. offers[s] = 1 /\ offers'[s] = 0 /\ Cardinality(Given(n, give, s)) < 2
      BY <2>6, <3>2
    <3>4. \A j \in Given(n, give, s) : j = i
      BY <2>3, <3>2, <3>3, GivenCount
    <3>5. Owner(Alloc, s)
      BY <3>3 DEF Owner, ByAllocator, Alloc
    <3>6. \A q : Owner(q, s) <=> q = Alloc
      BY <3>5 DEF Owned
    <3>7. \A q : ~ByIndex(q, s) /\ ~ByQueue(q, s) /\ ~ByFlush(q, s) /\ ~ByEviction(q, s)
                 /\ ~ByPut(q, s)
      <4>. SUFFICES ASSUME NEW q PROVE ~ByIndex(q, s) /\ ~ByQueue(q, s) /\ ~ByFlush(q, s)
                                       /\ ~ByEviction(q, s) /\ ~ByPut(q, s)
        OBVIOUS
      <4>1. Owner(q, s) => q[1] = "allocator"
        BY <3>6 DEF Alloc
      <4>. QED BY <4>1, Tags DEF Owner
    <3>8. \A q : ~ByAllocator(q, s)'
      BY <3>3 DEF ByAllocator
    <3>9. PICK r : r = <<"put", w, need[w][i]>>
      OBVIOUS
    <3>10. \A q : ByPut(q, s)' <=> q = r
      BY <2>5, <3>1, <3>4, <3>7, <3>9
    <3>11. \A q : Owner(q, s)' <=> q = r
      BY <2>4, <3>7, <3>8, <3>10 DEF Owner
    <3>. QED BY <3>11
  <2>. QED BY <2>7, <2>8
<1>9. ASSUME NEW w \in Writers, AllocOk(w) PROVE Owned'
  <2>1. need[w] \in Seq(Keys) /\ need[w] # <<>>
    BY <1>9 DEF AllocOk, OwnInv, TypeOK, Control, NeedKept, Ladder
  <2>2. PICK z \in Slots :
           /\ offers[z] > 0
           /\ offers' = [offers EXCEPT ![z] = @ - 1]
           /\ items' = [items EXCEPT ![w] = @ \cup {[key |-> Head(need[w]), slot |-> z]}]
    BY <1>9 DEF AllocOk
  <2>3. PICK c \in Records : c = [key |-> Head(need[w]), slot |-> z]
    BY <2>1, HeadTail DEF Records
  <2>z. z \in Slots /\ c.slot = z
    BY <2>3
  <2>k. index' = index /\ pending' = pending /\ spoils' = spoils /\ hand' = hand
    BY <1>9 DEF AllocOk, flushVars
  <2>n. PICK from, to : from = Alloc /\ to = <<"put", w, c.key>>
    OBVIOUS
  <2>f. Owner(from, z)
    BY <2>n, <2>2 DEF Owner, ByAllocator, Alloc
  <2>m. ASSUME NEW s \in Slots, NEW q
        PROVE  Owner(q, s)' <=> \/ Owner(q, s) /\ ~(s = z /\ q = from)
                                \/ s = z /\ q = to
    <3>1. ByAllocator(q, s)' <=> ByAllocator(q, s) /\ ~(s = z /\ q = Alloc)
      BY <2>2, OfferedLess
    <3>2. ByPut(q, s)' <=> ByPut(q, s) \/ (s = z /\ q = <<"put", w, c.key>>)
      BY <2>2, <2>3, <2>z, HeldMore
    <3>k. (ByIndex(q, s)' <=> ByIndex(q, s)) /\ (ByQueue(q, s)' <=> ByQueue(q, s))
          /\ (ByFlush(q, s)' <=> ByFlush(q, s)) /\ (ByEviction(q, s)' <=> ByEviction(q, s))
      BY <2>k, PartsKept
    <3>. QED BY <2>n, <3>1, <3>2, <3>k, Tags DEF Owner, Alloc
  <2>o. Owned
    BY <1>0
  <2>. QED BY <2>o, <2>f, <2>m, <2>z, Transfer
<1>10. ASSUME NEW w \in Writers, ClimbLadder(w) PROVE Owned'
  BY <1>10, OwnedUnchanged DEF ClimbLadder, putVars, evictVars, flushVars
<1>11. ASSUME NEW w \in Writers, NoSpace(w) PROVE Owned'
  BY <1>11, OwnedUnchanged DEF NoSpace, putVars, evictVars, flushVars
<1>12. ASSUME NEW w \in Writers, WriteStarts(w) PROVE Owned'
  BY <1>12, OwnedUnchanged DEF WriteStarts, putVars, evictVars, flushVars
<1>13. ASSUME NEW w \in Writers, WriteOk(w) PROVE Owned'
  BY <1>13, OwnedUnchanged DEF WriteOk, putVars, evictVars, flushVars
<1>14. ASSUME NEW w \in Writers, WriteFails(w) PROVE Owned'
  BY <1>14, OwnedUnchanged DEF WriteFails, putVars, evictVars, flushVars
<1>15. ASSUME NEW w \in Writers, Unwind(w) PROVE Owned'
  <2>1. PICK c \in items[w] : /\ offers' = [offers EXCEPT ![c.slot] = @ + 1]
                              /\ items' = [items EXCEPT ![w] = @ \ {c}]
    BY <1>15 DEF Unwind, FreeSlot
  <2>z. c.slot \in Slots
    BY DEF TypeOK, Records
  <2>k. index' = index /\ pending' = pending /\ spoils' = spoils /\ hand' = hand
    BY <1>15 DEF Unwind, evictVars, flushVars
  <2>n. PICK from, to : from = <<"put", w, c.key>> /\ to = Alloc
    OBVIOUS
  <2>f. Owner(from, c.slot)
    BY <2>n DEF Owner, ByPut
  <2>m. ASSUME NEW s \in Slots, NEW q
        PROVE  Owner(q, s)' <=> \/ Owner(q, s) /\ ~(s = c.slot /\ q = from)
                                \/ s = c.slot /\ q = to
    <3>1. ByAllocator(q, s)' <=> ByAllocator(q, s) \/ (s = c.slot /\ q = Alloc)
      BY <2>1, <2>z, OfferedMore
    <3>2. ByPut(q, s)' <=> ByPut(q, s) /\ ~(s = c.slot /\ q = <<"put", w, c.key>>)
      BY <2>1, HeldLess
    <3>k. (ByIndex(q, s)' <=> ByIndex(q, s)) /\ (ByQueue(q, s)' <=> ByQueue(q, s))
          /\ (ByFlush(q, s)' <=> ByFlush(q, s)) /\ (ByEviction(q, s)' <=> ByEviction(q, s))
      BY <2>k, PartsKept
    <3>. QED BY <2>n, <3>1, <3>2, <3>k, Tags DEF Owner, Alloc
  <2>o. Owned
    BY <1>0
  <2>. QED BY SMTT(60), <2>o, <2>f, <2>m, <2>z, Transfer
<1>16. ASSUME NEW w \in Writers, Publish(w) PROVE Owned'
  <2>1. PICK c \in items[w] : /\ index' = [index EXCEPT ![c.key] = c.slot]
                              /\ items' = [items EXCEPT ![w] = @ \ {c}]
    BY <1>16 DEF Publish
  <2>z. c.slot \in Slots /\ c.key \in Keys
    BY DEF TypeOK, Records
  <2>2. index[c.key] = NoSlot
    BY <2>z DEF OwnInv, Unindexed, Holds
  <2>k. offers' = offers /\ pending' = pending /\ spoils' = spoils /\ hand' = hand
    BY <1>16 DEF Publish, evictVars, flushVars
  <2>n. PICK from, to : from = <<"put", w, c.key>> /\ to = <<"index", c.key, 0>>
    OBVIOUS
  <2>f. Owner(from, c.slot)
    BY <2>n DEF Owner, ByPut
  <2>m. ASSUME NEW s \in Slots, NEW q
        PROVE  Owner(q, s)' <=> \/ Owner(q, s) /\ ~(s = c.slot /\ q = from)
                                \/ s = c.slot /\ q = to
    <3>1. ByIndex(q, s)' <=> ByIndex(q, s) \/ (s = c.slot /\ q = <<"index", c.key, 0>>)
      BY <2>1, <2>2, <2>z, IndexedMore
    <3>2. ByPut(q, s)' <=> ByPut(q, s) /\ ~(s = c.slot /\ q = <<"put", w, c.key>>)
      BY <2>1, HeldLess
    <3>k. (ByAllocator(q, s)' <=> ByAllocator(q, s)) /\ (ByQueue(q, s)' <=> ByQueue(q, s))
          /\ (ByFlush(q, s)' <=> ByFlush(q, s)) /\ (ByEviction(q, s)' <=> ByEviction(q, s))
      BY <2>k, PartsKept
    <3>. QED BY <2>n, <3>1, <3>2, <3>k, Tags DEF Owner, Alloc
  <2>o. Owned
    BY <1>0
  <2>. QED BY SMTT(60), <2>o, <2>f, <2>m, <2>z, Transfer
<1>17. ASSUME NEW w \in Writers, ForcePick(w) PROVE Owned'
  BY <1>17, OwnedUnchanged DEF ForcePick, putVars, evictVars, flushVars
<1>18. ASSUME NEW t \in Mutators, SyncRemoveOk(t) PROVE Owned'
  BY <1>18, OwnedUnchanged DEF SyncRemoveOk, putVars, evictVars, flushVars
<1>19. ASSUME NEW t \in Mutators, SyncRemoveFails(t) PROVE Owned'
  BY <1>19, OwnedUnchanged DEF SyncRemoveFails, putVars, evictVars, flushVars
<1>20. ASSUME NEW t \in Mutators, EvictRemove(t) PROVE Owned'
  <2>1. PICK c \in cands[t] : /\ index' = [index EXCEPT ![c.key] = NoSlot]
                              /\ hand' = [hand EXCEPT ![t] = c]
    BY <1>20 DEF EvictRemove
  <2>z. c \in Records /\ c.slot \in Slots /\ c.key \in Keys
    BY DEF TypeOK, Records
  <2>2. index[c.key] = c.slot /\ hand[t] = NoRecord
    BY <1>20 DEF EvictRemove, OwnInv, CandsFresh, Hands
  <2>k. offers' = offers /\ pending' = pending /\ spoils' = spoils /\ items' = items
    BY <1>20 DEF EvictRemove, putVars, flushVars
  <2>n. PICK from, to : from = <<"index", c.key, 0>> /\ to = <<"evict", t, 0>>
    OBVIOUS
  <2>f. Owner(from, c.slot)
    BY <2>n, <2>2, <2>z DEF Owner, ByIndex
  <2>m. ASSUME NEW s \in Slots, NEW q
        PROVE  Owner(q, s)' <=> \/ Owner(q, s) /\ ~(s = c.slot /\ q = from)
                                \/ s = c.slot /\ q = to
    <3>1. ByIndex(q, s)' <=> ByIndex(q, s) /\ ~(s = c.slot /\ q = <<"index", c.key, 0>>)
      BY <2>1, <2>2, <2>z, IndexedLess
    <3>2. ByEviction(q, s)' <=> ByEviction(q, s) \/ (s = c.slot /\ q = <<"evict", t, 0>>)
      BY <2>1, <2>2, <2>z, EvictedMore
    <3>k. (ByAllocator(q, s)' <=> ByAllocator(q, s)) /\ (ByQueue(q, s)' <=> ByQueue(q, s))
          /\ (ByFlush(q, s)' <=> ByFlush(q, s)) /\ (ByPut(q, s)' <=> ByPut(q, s))
      BY <2>k, PartsKept
    <3>. QED BY <2>n, <3>1, <3>2, <3>k, Tags DEF Owner, Alloc
  <2>o. Owned
    BY <1>0
  <2>. QED BY <2>o, <2>f, <2>m, <2>z, Transfer
<1>21. ASSUME NEW t \in Mutators, EvictEnqueue(t) PROVE Owned'
  <2>1. PICK z : z = hand[t].slot
    OBVIOUS
  <2>2. /\ pending' = [pending EXCEPT ![z][clock] = @ + 1]
        /\ hand' = [hand EXCEPT ![t] = NoRecord] /\ t \in Mutators
    BY <1>21, <2>1 DEF EvictEnqueue, Enqueue, Mutators
  <2>z. z \in Slots
    BY <1>21, <2>1, <2>2 DEF EvictEnqueue, OwnInv, Hands, Records
  <2>k. offers' = offers /\ index' = index /\ spoils' = spoils /\ items' = items
    BY <1>21 DEF EvictEnqueue, putVars, flushVars
  <2>n. PICK from, to : from = <<"evict", t, 0>> /\ to = <<"queue", clock, 0>>
    OBVIOUS
  <2>f. Owner(from, z)
    BY <2>n, <2>1, <2>2 DEF Owner, ByEviction
  <2>m. ASSUME NEW s \in Slots, NEW q
        PROVE  Owner(q, s)' <=> \/ Owner(q, s) /\ ~(s = z /\ q = from)
                                \/ s = z /\ q = to
    <3>1. ByQueue(q, s)' <=> ByQueue(q, s) \/ (s = z /\ q = <<"queue", clock, 0>>)
      BY <2>2, <2>z, QueuedMore
    <3>2. ByEviction(q, s)' <=> ByEviction(q, s) /\ ~(s = z /\ q = <<"evict", t, 0>>)
      BY <2>1, <2>2, EvictedLess
    <3>k. (ByAllocator(q, s)' <=> ByAllocator(q, s)) /\ (ByIndex(q, s)' <=> ByIndex(q, s))
          /\ (ByFlush(q, s)' <=> ByFlush(q, s)) /\ (ByPut(q, s)' <=> ByPut(q, s))
      BY <2>k, PartsKept
    <3>. QED BY <2>n, <3>1, <3>2, <3>k, Tags DEF Owner, Alloc
  <2>o. Owned
    BY <1>0
  <2>. QED BY SMTT(60), <2>o, <2>f, <2>m, <2>z, Transfer
<1>22. ASSUME NEW t \in Threads, ReadNow(t) PROVE Owned'
  BY <1>22, OwnedUnchanged DEF ReadNow, putVars, evictVars, flushVars
<1>23. ASSUME NEW t \in Threads, TakeExpired(t) PROVE Owned'
  <2>k. offers' = offers /\ index' = index /\ items' = items /\ hand' = hand
    BY <1>23 DEF TakeExpired, putVars, evictVars
  <2>1. /\ \A s \in Slots, e \in Times :
              /\ pending'[s][e] = IF Expired(now[t], e) THEN 0 ELSE pending[s][e]
              /\ spoils'[t][s][e] = IF Expired(now[t], e) THEN pending[s][e] ELSE 0
        /\ \A u \in Threads : u # t => spoils'[u] = spoils[u]
    BY <1>23 DEF TakeExpired, TypeOK, Queues
  <2>2. \A s \in Slots, e \in Times : spoils[t][s][e] = 0
    BY <1>23 DEF TakeExpired, OwnInv, Cleared, Nothing, Threads, Mutators
  <2>t. t \in Threads
    BY DEF Threads, Mutators
  <2>. SUFFICES ASSUME NEW s \in Slots PROVE \E p : \A q : Owner(q, s)' <=> q = p
    BY DEF Owned
  <2>3. \A q : (ByAllocator(q, s)' <=> ByAllocator(q, s)) /\ (ByIndex(q, s)' <=> ByIndex(q, s))
               /\ (ByPut(q, s)' <=> ByPut(q, s)) /\ (ByEviction(q, s)' <=> ByEviction(q, s))
    BY <2>k, PartsKept
  <2>4. \A q : ByQueue(q, s)' <=>
                 \E e \in Times : q = <<"queue", e, 0>> /\ pending[s][e] > 0 /\ ~(Expired(now[t], e))
    BY <2>1 DEF ByQueue
  <2>5. \A q : ByFlush(q, s)' <=>
                 \/ ByFlush(q, s)
                 \/ \E e \in Times : q = <<"flush", t, e>> /\ pending[s][e] > 0 /\ Expired(now[t], e)
    BY <2>1, <2>2, <2>t DEF ByFlush
  <2>6. ASSUME NEW e \in Times, pending[s][e] > 0, Expired(now[t], e)
        PROVE  \E p : \A q : Owner(q, s)' <=> q = p
    <3>1. Owner(<<"queue", e, 0>>, s)
      BY <2>6 DEF Owner, ByQueue
    <3>2. \A f \in Times : pending[s][f] > 0 => f = e
      <4>1. ASSUME NEW f \in Times, pending[s][f] > 0 PROVE f = e
        <5>1. Owner(<<"queue", f, 0>>, s)
          BY <4>1 DEF Owner, ByQueue
        <5>2. <<"queue", f, 0>> = <<"queue", e, 0>>
          BY <3>1, <5>1, OnlyOwner
        <5>. QED BY <5>2
      <4>. QED BY <4>1
    <3>3. \A q : Owner(q, s) <=> q = <<"queue", e, 0>>
      BY <3>1 DEF Owned
    <3>4. \A q : ~ByAllocator(q, s) /\ ~ByIndex(q, s) /\ ~ByPut(q, s) /\ ~ByEviction(q, s)
                 /\ ~ByFlush(q, s)
      <4>. SUFFICES ASSUME NEW q PROVE ~ByAllocator(q, s) /\ ~ByIndex(q, s) /\ ~ByPut(q, s)
                                       /\ ~ByEviction(q, s) /\ ~ByFlush(q, s)
        OBVIOUS
      <4>1. Owner(q, s) => q[1] = "queue"
        BY <3>3
      <4>. QED BY <4>1, Tags DEF Owner
    <3>5. \A q : ~ByQueue(q, s)'
      BY <2>4, <2>6, <3>2
    <3>6. \A q : ByFlush(q, s)' <=> q = <<"flush", t, e>>
      BY <2>5, <2>6, <3>2, <3>4
    <3>7. \A q : Owner(q, s)' <=> q = <<"flush", t, e>>
      BY <2>3, <3>4, <3>5, <3>6 DEF Owner
    <3>8. PICK r : r = <<"flush", t, e>>
      OBVIOUS
    <3>. QED BY <3>7, <3>8
  <2>7. ASSUME \A e \in Times : pending[s][e] > 0 => ~(Expired(now[t], e))
        PROVE  \E p : \A q : Owner(q, s)' <=> q = p
    <3>1. \A q : ByQueue(q, s)' <=> ByQueue(q, s)
      BY <2>4, <2>7 DEF ByQueue
    <3>2. \A q : ByFlush(q, s)' <=> ByFlush(q, s)
      BY <2>5, <2>7
    <3>3. \A q : Owner(q, s)' <=> Owner(q, s)
      BY <2>3, <3>1, <3>2 DEF Owner
    <3>. QED BY <3>3, Stays DEF Owned
  <2>. QED BY <2>6, <2>7
<1>24. ASSUME NEW t \in Threads, FreeTaken(t) PROVE Owned'
  <2>1. PICK z \in Slots, e \in Times :
           /\ spoils[t][z][e] > 0
           /\ spoils' = [spoils EXCEPT ![t][z][e] = @ - 1]
           /\ offers' = [offers EXCEPT ![z] = @ + 1]
    BY <1>24 DEF FreeTaken, FreeSlot
  <2>z. z \in Slots
    OBVIOUS
  <2>k. index' = index /\ pending' = pending /\ items' = items /\ hand' = hand
    BY <1>24 DEF FreeTaken, putVars, evictVars, flushVars
  <2>n. PICK from, to : from = <<"flush", t, e>> /\ to = Alloc
    OBVIOUS
  <2>f. Owner(from, z)
    BY <2>n, <2>1 DEF Owner, ByFlush
  <2>m. ASSUME NEW s \in Slots, NEW q
        PROVE  Owner(q, s)' <=> \/ Owner(q, s) /\ ~(s = z /\ q = from)
                                \/ s = z /\ q = to
    <3>1. ByAllocator(q, s)' <=> ByAllocator(q, s) \/ (s = z /\ q = Alloc)
      BY <2>1, OfferedMore
    <3>2. ByFlush(q, s)' <=> ByFlush(q, s) /\ ~(s = z /\ q = <<"flush", t, e>>)
      BY <2>1, FlushedLess
    <3>k. (ByIndex(q, s)' <=> ByIndex(q, s)) /\ (ByQueue(q, s)' <=> ByQueue(q, s))
          /\ (ByPut(q, s)' <=> ByPut(q, s)) /\ (ByEviction(q, s)' <=> ByEviction(q, s))
      BY <2>k, PartsKept
    <3>. QED BY <2>n, <3>1, <3>2, <3>k, Tags DEF Owner, Alloc
  <2>o. Owned
    BY <1>0
  <2>. QED BY SMTT(60), <2>o, <2>f, <2>m, <2>z, Transfer
<1>25. ASSUME NEW w \in Writers, TakeAll(w) PROVE Owned'
  <2>k. offers' = offers /\ index' = index /\ items' = items /\ hand' = hand
    BY <1>25 DEF TakeAll, putVars, evictVars
  <2>1. /\ \A s \in Slots, e \in Times :
              /\ pending'[s][e] = IF TRUE THEN 0 ELSE pending[s][e]
              /\ spoils'[w][s][e] = IF TRUE THEN pending[s][e] ELSE 0
        /\ \A u \in Threads : u # w => spoils'[u] = spoils[u]
    BY <1>25 DEF TakeAll, TypeOK, Queues, EmptyQueue, Threads, Mutators
  <2>2. \A s \in Slots, e \in Times : spoils[w][s][e] = 0
    BY <1>25 DEF TakeAll, OwnInv, Cleared, Nothing, Threads, Mutators
  <2>t. w \in Threads
    BY DEF Threads, Mutators
  <2>. SUFFICES ASSUME NEW s \in Slots PROVE \E p : \A q : Owner(q, s)' <=> q = p
    BY DEF Owned
  <2>3. \A q : (ByAllocator(q, s)' <=> ByAllocator(q, s)) /\ (ByIndex(q, s)' <=> ByIndex(q, s))
               /\ (ByPut(q, s)' <=> ByPut(q, s)) /\ (ByEviction(q, s)' <=> ByEviction(q, s))
    BY <2>k, PartsKept
  <2>4. \A q : ByQueue(q, s)' <=>
                 \E e \in Times : q = <<"queue", e, 0>> /\ pending[s][e] > 0 /\ ~(TRUE)
    BY <2>1 DEF ByQueue
  <2>5. \A q : ByFlush(q, s)' <=>
                 \/ ByFlush(q, s)
                 \/ \E e \in Times : q = <<"flush", w, e>> /\ pending[s][e] > 0 /\ TRUE
    BY <2>1, <2>2, <2>t DEF ByFlush
  <2>6. ASSUME NEW e \in Times, pending[s][e] > 0, TRUE
        PROVE  \E p : \A q : Owner(q, s)' <=> q = p
    <3>1. Owner(<<"queue", e, 0>>, s)
      BY <2>6 DEF Owner, ByQueue
    <3>2. \A f \in Times : pending[s][f] > 0 => f = e
      <4>1. ASSUME NEW f \in Times, pending[s][f] > 0 PROVE f = e
        <5>1. Owner(<<"queue", f, 0>>, s)
          BY <4>1 DEF Owner, ByQueue
        <5>2. <<"queue", f, 0>> = <<"queue", e, 0>>
          BY <3>1, <5>1, OnlyOwner
        <5>. QED BY <5>2
      <4>. QED BY <4>1
    <3>3. \A q : Owner(q, s) <=> q = <<"queue", e, 0>>
      BY <3>1 DEF Owned
    <3>4. \A q : ~ByAllocator(q, s) /\ ~ByIndex(q, s) /\ ~ByPut(q, s) /\ ~ByEviction(q, s)
                 /\ ~ByFlush(q, s)
      <4>. SUFFICES ASSUME NEW q PROVE ~ByAllocator(q, s) /\ ~ByIndex(q, s) /\ ~ByPut(q, s)
                                       /\ ~ByEviction(q, s) /\ ~ByFlush(q, s)
        OBVIOUS
      <4>1. Owner(q, s) => q[1] = "queue"
        BY <3>3
      <4>. QED BY <4>1, Tags DEF Owner
    <3>5. \A q : ~ByQueue(q, s)'
      BY <2>4, <2>6, <3>2
    <3>6. \A q : ByFlush(q, s)' <=> q = <<"flush", w, e>>
      BY <2>5, <2>6, <3>2, <3>4
    <3>7. \A q : Owner(q, s)' <=> q = <<"flush", w, e>>
      BY <2>3, <3>4, <3>5, <3>6 DEF Owner
    <3>8. PICK r : r = <<"flush", w, e>>
      OBVIOUS
    <3>. QED BY <3>7, <3>8
  <2>7. ASSUME \A e \in Times : pending[s][e] > 0 => ~(TRUE)
        PROVE  \E p : \A q : Owner(q, s)' <=> q = p
    <3>1. \A q : ByQueue(q, s)' <=> ByQueue(q, s)
      BY <2>4, <2>7 DEF ByQueue
    <3>2. \A q : ByFlush(q, s)' <=> ByFlush(q, s)
      BY <2>5, <2>7
    <3>3. \A q : Owner(q, s)' <=> Owner(q, s)
      BY <2>3, <3>1, <3>2 DEF Owner
    <3>. QED BY <3>3, Stays DEF Owned
  <2>. QED BY <2>6, <2>7
<1>26. ASSUME NEW w \in Writers, RemoveSync(w) PROVE Owned'
  BY <1>26, OwnedUnchanged DEF RemoveSync, putVars, evictVars, flushVars
<1>27. ASSUME NEW w \in Writers, RemoveFromIndex(w) PROVE Owned'
  <2>0. todo[w] \in Seq(Keys) /\ todo[w] # <<>>
    BY <1>27 DEF RemoveFromIndex, TypeOK, OwnInv, Control, TodoKept
  <2>1. PICK y \in Keys : y = Head(todo[w])
    BY <2>0, HeadTail
  <2>2. index' = [index EXCEPT ![y] = NoSlot] /\ w \in Mutators
    BY <1>27, <2>1 DEF RemoveFromIndex, Mutators
  <2>3. CASE index[y] = NoSlot
    <3>1. index' = index
      BY <2>2, <2>3 DEF TypeOK
    <3>. QED BY <1>27, <2>1, <2>3, <3>1, OwnedUnchanged DEF RemoveFromIndex, flushVars
  <2>4. CASE index[y] # NoSlot
    <3>1. PICK z : z = index[y]
      OBVIOUS
    <3>2. PICK c \in Records : c = [key |-> y, slot |-> index[y]]
      BY <2>4 DEF TypeOK, Records
    <3>3. /\ hand' = [hand EXCEPT ![w] = c] /\ hand[w] = NoRecord
          /\ c.slot = z /\ z = index[y] /\ z \in Slots
      BY <1>27, <2>1, <2>2, <2>4, <3>1, <3>2 DEF RemoveFromIndex, OwnInv, Hands, TypeOK
    <3>k. offers' = offers /\ pending' = pending /\ spoils' = spoils /\ items' = items
      BY <1>27 DEF RemoveFromIndex, flushVars
    <3>n. PICK from, to : from = <<"index", y, 0>> /\ to = <<"evict", w, 0>>
      OBVIOUS
    <3>f. Owner(from, z)
      BY <3>n, <3>3 DEF Owner, ByIndex
    <3>t. ASSUME NEW s \in Slots, NEW q
          PROVE  Owner(q, s)' <=> \/ Owner(q, s) /\ ~(s = z /\ q = from)
                                  \/ s = z /\ q = to
      <4>1. ByIndex(q, s)' <=> ByIndex(q, s) /\ ~(s = z /\ q = <<"index", y, 0>>)
        BY <2>2, <3>3, IndexedLess
      <4>2. ByEviction(q, s)' <=> ByEviction(q, s) \/ (s = z /\ q = <<"evict", w, 0>>)
        BY <2>2, <3>3, EvictedMore
      <4>k. (ByAllocator(q, s)' <=> ByAllocator(q, s)) /\ (ByQueue(q, s)' <=> ByQueue(q, s))
            /\ (ByFlush(q, s)' <=> ByFlush(q, s)) /\ (ByPut(q, s)' <=> ByPut(q, s))
        BY <3>k, PartsKept
      <4>. QED BY <3>n, <4>1, <4>2, <4>k, Tags DEF Owner
    <3>. QED BY <3>3, <3>f, <3>t, Transfer
  <2>. QED BY <2>3, <2>4
<1>28. ASSUME NEW w \in Writers, RemoveEnqueue(w) PROVE Owned'
  <2>1. PICK z : z = hand[w].slot
    OBVIOUS
  <2>2. /\ pending' = [pending EXCEPT ![z][clock] = @ + 1]
        /\ hand' = [hand EXCEPT ![w] = NoRecord] /\ w \in Mutators
    BY <1>28, <2>1 DEF RemoveEnqueue, Enqueue, Mutators
  <2>z. z \in Slots
    BY <1>28, <2>1, <2>2 DEF RemoveEnqueue, OwnInv, Hands, Records
  <2>k. offers' = offers /\ index' = index /\ spoils' = spoils /\ items' = items
    BY <1>28 DEF RemoveEnqueue, putVars, flushVars
  <2>n. PICK from, to : from = <<"evict", w, 0>> /\ to = <<"queue", clock, 0>>
    OBVIOUS
  <2>f. Owner(from, z)
    BY <2>n, <2>1, <2>2 DEF Owner, ByEviction
  <2>m. ASSUME NEW s \in Slots, NEW q
        PROVE  Owner(q, s)' <=> \/ Owner(q, s) /\ ~(s = z /\ q = from)
                                \/ s = z /\ q = to
    <3>1. ByQueue(q, s)' <=> ByQueue(q, s) \/ (s = z /\ q = <<"queue", clock, 0>>)
      BY <2>2, <2>z, QueuedMore
    <3>2. ByEviction(q, s)' <=> ByEviction(q, s) /\ ~(s = z /\ q = <<"evict", w, 0>>)
      BY <2>1, <2>2, EvictedLess
    <3>k. (ByAllocator(q, s)' <=> ByAllocator(q, s)) /\ (ByIndex(q, s)' <=> ByIndex(q, s))
          /\ (ByFlush(q, s)' <=> ByFlush(q, s)) /\ (ByPut(q, s)' <=> ByPut(q, s))
      BY <2>k, PartsKept
    <3>. QED BY <2>n, <3>1, <3>2, <3>k, Tags DEF Owner, Alloc
  <2>o. Owned
    BY <1>0
  <2>. QED BY <2>o, <2>f, <2>m, <2>z, Transfer
<1>29. ASSUME UNCHANGED vars PROVE Owned'
  BY <1>29, OwnedUnchanged DEF vars
<1>. QED BY <1>1, <1>2, <1>3, <1>4, <1>5, <1>6, <1>7, <1>8, <1>9, <1>10, <1>11, <1>12, <1>13, <1>14, <1>15,
             <1>16, <1>17, <1>18, <1>19, <1>20, <1>21, <1>22, <1>23, <1>24, <1>25, <1>26, <1>27, <1>28, <1>29,
             <1>30
   DEF Next, Calls, WriterStep, PutStep, EvictStep, FlushStep, RemoveStep, EvictorStep,
       Mutators, Threads

LEMMA SingleUnchanged ==
    ASSUME Single, offers' = offers, pending' = pending, spoils' = spoils
    PROVE  Single'
  BY DEF Single

LEMMA SingleAlways ==
    ASSUME Apart, OwnInv, [Next]_vars
    PROVE  Single'
<1>0. TypeOK /\ Owned /\ Single /\ Apart
  BY DEF OwnInv
<1>. USE <1>0
<1>1. ASSUME Tick PROVE Single'
  BY <1>1, SingleUnchanged DEF Tick, putVars, evictVars, flushVars
<1>2. ASSUME ReaperWakes PROVE Single'
  BY <1>2, SingleUnchanged DEF ReaperWakes, putVars, evictVars, flushVars
<1>3. ASSUME LoopWakes PROVE Single'
  BY <1>3, SingleUnchanged DEF LoopWakes, putVars, evictVars, flushVars
<1>30. ASSUME LoopTest PROVE Single'
  BY <1>30, SingleUnchanged DEF LoopTest, putVars, evictVars, flushVars
<1>4. ASSUME LoopPick PROVE Single'
  BY <1>4, SingleUnchanged DEF LoopPick, putVars, evictVars, flushVars
<1>5. ASSUME NEW w \in Writers, NEW ks \in Batches[w], BatchPut(w, ks) PROVE Single'
  BY <1>5, SingleUnchanged DEF BatchPut, putVars, evictVars, flushVars
<1>6. ASSUME NEW w \in Writers, NEW k \in Removals[w], Remove(w, k) PROVE Single'
  BY <1>6, SingleUnchanged DEF Remove, putVars, evictVars, flushVars
<1>7. ASSUME NEW w \in Writers, CheckKey(w) PROVE Single'
  BY <1>7, SingleUnchanged DEF CheckKey, putVars, evictVars, flushVars
<1>8. ASSUME NEW w \in Writers, BatchAlloc(w) PROVE Single'
  <2>1. PICK n \in 0 .. Len(need[w]) : \E give \in [1 .. n -> Slots] : Handout(w, n, give)
    BY <1>8, BatchAllocHands
  <2>2. PICK give \in [1 .. n -> Slots] : Handout(w, n, give)
    BY <2>1
  <2>3. ASSUME NEW s \in Slots PROVE offers'[s] <= 1
    <3>1. /\ offers[s] \in Nat /\ offers[s] <= 1
          /\ offers'[s] = offers[s] - Cardinality(Given(n, give, s))
      BY <2>2 DEF Handout, TypeOK, Single
    <3>2. n \in Nat
      BY DEF TypeOK
    <3>3. Cardinality(Given(n, give, s)) \in Nat
      BY <3>2, GivenCount
    <3>. QED BY <3>1, <3>3
  <2>4. pending' = pending /\ spoils' = spoils
    BY <1>8 DEF BatchAlloc, flushVars
  <2>. QED BY <2>3, <2>4 DEF Single
<1>9. ASSUME NEW w \in Writers, AllocOk(w) PROVE Single'
  <2>1. PICK z \in Slots : offers[z] > 0 /\ offers' = [offers EXCEPT ![z] = @ - 1]
    BY <1>9 DEF AllocOk
  <2>2. ASSUME NEW s \in Slots PROVE offers'[s] <= 1
    <3>1. offers[s] \in Nat /\ offers[s] <= 1 /\ offers'[s] = IF s = z THEN offers[s] - 1 ELSE offers[s]
      BY <2>1 DEF TypeOK, Single
    <3>. QED BY <3>1
  <2>3. pending' = pending /\ spoils' = spoils
    BY <1>9 DEF AllocOk, flushVars
  <2>. QED BY <2>2, <2>3 DEF Single
<1>10. ASSUME NEW w \in Writers, ClimbLadder(w) PROVE Single'
  BY <1>10, SingleUnchanged DEF ClimbLadder, putVars, evictVars, flushVars
<1>11. ASSUME NEW w \in Writers, NoSpace(w) PROVE Single'
  BY <1>11, SingleUnchanged DEF NoSpace, putVars, evictVars, flushVars
<1>12. ASSUME NEW w \in Writers, WriteStarts(w) PROVE Single'
  BY <1>12, SingleUnchanged DEF WriteStarts, putVars, evictVars, flushVars
<1>13. ASSUME NEW w \in Writers, WriteOk(w) PROVE Single'
  BY <1>13, SingleUnchanged DEF WriteOk, putVars, evictVars, flushVars
<1>14. ASSUME NEW w \in Writers, WriteFails(w) PROVE Single'
  BY <1>14, SingleUnchanged DEF WriteFails, putVars, evictVars, flushVars
<1>15. ASSUME NEW w \in Writers, Unwind(w) PROVE Single'
  <2>1. PICK c \in items[w] : offers' = [offers EXCEPT ![c.slot] = @ + 1]
    BY <1>15 DEF Unwind, FreeSlot
  <2>z. PICK z \in Slots : z = c.slot
    BY DEF TypeOK, Records
  <2>2. offers' = [offers EXCEPT ![z] = @ + 1]
    BY <2>1, <2>z
  <2>3. offers[z] = 0
    <3>1. PICK p : p = <<"put", w, c.key>>
      OBVIOUS
    <3>2. Owner(p, z) /\ p # Alloc
      BY <2>1, <2>z, <3>1 DEF Owner, ByPut, Alloc
    <3>3. ~Owner(Alloc, z)
      BY <2>z, <3>2, OnlyOwner
    <3>. QED BY <2>z, <3>3 DEF TypeOK, Owner, ByAllocator, Alloc
  <2>4. ASSUME NEW s \in Slots PROVE offers'[s] <= 1
    <3>1. offers[s] \in Nat /\ offers[s] <= 1 /\ offers'[s] = IF s = z THEN offers[s] + 1 ELSE offers[s]
      BY <2>2, <2>z DEF TypeOK, Single
    <3>. QED BY <2>3, <3>1
  <2>5. pending' = pending /\ spoils' = spoils
    BY <1>15 DEF Unwind, flushVars
  <2>. QED BY <2>4, <2>5 DEF Single
<1>16. ASSUME NEW w \in Writers, Publish(w) PROVE Single'
  BY <1>16, SingleUnchanged DEF Publish, putVars, evictVars, flushVars
<1>17. ASSUME NEW w \in Writers, ForcePick(w) PROVE Single'
  BY <1>17, SingleUnchanged DEF ForcePick, putVars, evictVars, flushVars
<1>18. ASSUME NEW t \in Mutators, SyncRemoveOk(t) PROVE Single'
  BY <1>18, SingleUnchanged DEF SyncRemoveOk, putVars, evictVars, flushVars
<1>19. ASSUME NEW t \in Mutators, SyncRemoveFails(t) PROVE Single'
  BY <1>19, SingleUnchanged DEF SyncRemoveFails, putVars, evictVars, flushVars
<1>20. ASSUME NEW t \in Mutators, EvictRemove(t) PROVE Single'
  BY <1>20, SingleUnchanged DEF EvictRemove, putVars, evictVars, flushVars
<1>21. ASSUME NEW t \in Mutators, EvictEnqueue(t) PROVE Single'
  <2>1. PICK z : z = hand[t].slot
    OBVIOUS
  <2>2. pending' = [pending EXCEPT ![z][clock] = @ + 1] /\ t \in Mutators
    BY <1>21, <2>1 DEF EvictEnqueue, Enqueue, Mutators
  <2>z. z \in Slots /\ clock \in Times
    BY <1>21, <2>1, <2>2 DEF EvictEnqueue, OwnInv, Hands, Records, TypeOK
  <2>3. pending[z][clock] = 0
    <3>1. PICK p, r : p = <<"evict", t, 0>> /\ r = <<"queue", clock, 0>>
      OBVIOUS
    <3>2. Owner(p, z) /\ p # r
      BY <2>1, <2>2, <3>1 DEF Owner, ByEviction
    <3>3. ~Owner(r, z)
      BY <2>z, <3>2, OnlyOwner
    <3>4. pending[z][clock] \in Nat /\ ~(pending[z][clock] > 0)
      BY <2>z, <3>1, <3>3 DEF TypeOK, Queues, Owner, ByQueue
    <3>. QED BY <3>4
  <2>4. ASSUME NEW s \in Slots, NEW e \in Times PROVE pending'[s][e] <= 1
    <3>1. pending[s][e] \in Nat /\ pending[s][e] <= 1
      BY DEF TypeOK, Queues, Single
    <3>2. pending'[s][e] = IF s = z /\ e = clock THEN pending[s][e] + 1 ELSE pending[s][e]
      BY <2>2, <2>z DEF TypeOK, Queues
    <3>. QED BY <2>3, <3>1, <3>2
  <2>5. offers' = offers /\ spoils' = spoils
    BY <1>21 DEF EvictEnqueue, flushVars
  <2>. QED BY <2>4, <2>5 DEF Single
<1>22. ASSUME NEW t \in Threads, ReadNow(t) PROVE Single'
  BY <1>22, SingleUnchanged DEF ReadNow, putVars, evictVars, flushVars
<1>23. ASSUME NEW t \in Threads, TakeExpired(t) PROVE Single'
  <2>0. /\ t \in Threads /\ pending \in [Slots -> [Times -> Nat]]
        /\ spoils \in [Threads -> [Slots -> [Times -> Nat]]]
    BY DEF Threads, Mutators, TypeOK, Queues
  <2>1. /\ offers' = offers
        /\ \A s \in Slots, e \in Times :
              /\ pending'[s][e] = pending[s][e] \/ pending'[s][e] = 0
              /\ spoils'[t][s][e] = pending[s][e] \/ spoils'[t][s][e] = 0
        /\ \A u \in Threads : u # t => spoils'[u] = spoils[u]
    BY <1>23, <2>0 DEF TakeExpired
  <2>2. \A s \in Slots, e \in Times : pending'[s][e] <= 1 /\ spoils'[t][s][e] <= 1
    BY <2>1 DEF Single
  <2>. QED BY <2>1, <2>2 DEF Single
<1>24. ASSUME NEW t \in Threads, FreeTaken(t) PROVE Single'
  <2>1. PICK z \in Slots, e \in Times :
           /\ spoils[t][z][e] > 0
           /\ spoils' = [spoils EXCEPT ![t][z][e] = @ - 1]
           /\ offers' = [offers EXCEPT ![z] = @ + 1]
    BY <1>24 DEF FreeTaken, FreeSlot
  <2>z. z \in Slots
    OBVIOUS
  <2>2. offers' = [offers EXCEPT ![z] = @ + 1]
    BY <2>1
  <2>3. offers[z] = 0
    <3>1. PICK p : p = <<"flush", t, e>>
      OBVIOUS
    <3>2. Owner(p, z) /\ p # Alloc
      BY <2>1, <3>1 DEF Owner, ByFlush, Alloc
    <3>3. ~Owner(Alloc, z)
      BY <2>z, <3>2, OnlyOwner
    <3>. QED BY <2>z, <3>3 DEF TypeOK, Owner, ByAllocator, Alloc
  <2>4. ASSUME NEW s \in Slots PROVE offers'[s] <= 1
    <3>1. offers[s] \in Nat /\ offers[s] <= 1 /\ offers'[s] = IF s = z THEN offers[s] + 1 ELSE offers[s]
      BY <2>2, <2>z DEF TypeOK, Single
    <3>. QED BY <2>3, <3>1
  <2>5. ASSUME NEW u \in Threads, NEW s \in Slots, NEW f \in Times
        PROVE  spoils'[u][s][f] <= 1
    <3>1. spoils \in [Threads -> [Slots -> [Times -> Nat]]]
      BY DEF TypeOK, Queues
    <3>2. spoils[u][s][f] \in Nat /\ spoils[u][s][f] <= 1
      BY <3>1 DEF Single
    <3>3. CASE u # t
      BY <2>1, <3>1, <3>2, <3>3
    <3>4. CASE u = t
      <4>1. spoils'[t] = [spoils[t] EXCEPT ![z][e] = @ - 1]
        BY <2>1, <3>1
      <4>2. spoils'[t][s][f] = spoils[t][s][f] \/ spoils'[t][s][f] = spoils[t][s][f] - 1
        BY <3>1, <4>1
      <4>. QED BY <3>2, <3>4, <4>2
    <3>. QED BY <3>3, <3>4
  <2>6. pending' = pending
    BY <1>24 DEF FreeTaken
  <2>. QED BY <2>4, <2>5, <2>6 DEF Single
<1>25. ASSUME NEW w \in Writers, TakeAll(w) PROVE Single'
  <2>0. /\ w \in Threads /\ pending \in [Slots -> [Times -> Nat]]
        /\ spoils \in [Threads -> [Slots -> [Times -> Nat]]]
    BY DEF Threads, Mutators, TypeOK, Queues
  <2>1. /\ offers' = offers
        /\ \A s \in Slots, e \in Times :
              /\ pending'[s][e] = pending[s][e] \/ pending'[s][e] = 0
              /\ spoils'[w][s][e] = pending[s][e] \/ spoils'[w][s][e] = 0
        /\ \A u \in Threads : u # w => spoils'[u] = spoils[u]
    BY <1>25, <2>0 DEF TakeAll, EmptyQueue
  <2>2. \A s \in Slots, e \in Times : pending'[s][e] <= 1 /\ spoils'[w][s][e] <= 1
    BY <2>1 DEF Single
  <2>. QED BY <2>1, <2>2 DEF Single
<1>26. ASSUME NEW w \in Writers, RemoveSync(w) PROVE Single'
  BY <1>26, SingleUnchanged DEF RemoveSync, putVars, evictVars, flushVars
<1>27. ASSUME NEW w \in Writers, RemoveFromIndex(w) PROVE Single'
  BY <1>27, SingleUnchanged DEF RemoveFromIndex, putVars, evictVars, flushVars
<1>28. ASSUME NEW w \in Writers, RemoveEnqueue(w) PROVE Single'
  <2>1. PICK z : z = hand[w].slot
    OBVIOUS
  <2>2. pending' = [pending EXCEPT ![z][clock] = @ + 1] /\ w \in Mutators
    BY <1>28, <2>1 DEF RemoveEnqueue, Enqueue, Mutators
  <2>z. z \in Slots /\ clock \in Times
    BY <1>28, <2>1, <2>2 DEF RemoveEnqueue, OwnInv, Hands, Records, TypeOK
  <2>3. pending[z][clock] = 0
    <3>1. PICK p, r : p = <<"evict", w, 0>> /\ r = <<"queue", clock, 0>>
      OBVIOUS
    <3>2. Owner(p, z) /\ p # r
      BY <2>1, <2>2, <3>1 DEF Owner, ByEviction
    <3>3. ~Owner(r, z)
      BY <2>z, <3>2, OnlyOwner
    <3>4. pending[z][clock] \in Nat /\ ~(pending[z][clock] > 0)
      BY <2>z, <3>1, <3>3 DEF TypeOK, Queues, Owner, ByQueue
    <3>. QED BY <3>4
  <2>4. ASSUME NEW s \in Slots, NEW e \in Times PROVE pending'[s][e] <= 1
    <3>1. pending[s][e] \in Nat /\ pending[s][e] <= 1
      BY DEF TypeOK, Queues, Single
    <3>2. pending'[s][e] = IF s = z /\ e = clock THEN pending[s][e] + 1 ELSE pending[s][e]
      BY <2>2, <2>z DEF TypeOK, Queues
    <3>. QED BY <2>3, <3>1, <3>2
  <2>5. offers' = offers /\ spoils' = spoils
    BY <1>28 DEF RemoveEnqueue, flushVars
  <2>. QED BY <2>4, <2>5 DEF Single
<1>29. ASSUME UNCHANGED vars PROVE Single'
  BY <1>29, SingleUnchanged DEF vars
<1>. QED BY <1>1, <1>2, <1>3, <1>4, <1>5, <1>6, <1>7, <1>8, <1>9, <1>10, <1>11, <1>12, <1>13, <1>14, <1>15,
             <1>16, <1>17, <1>18, <1>19, <1>20, <1>21, <1>22, <1>23, <1>24, <1>25, <1>26, <1>27, <1>28, <1>29,
             <1>30
   DEF Next, Calls, WriterStep, PutStep, EvictStep, FlushStep, RemoveStep, EvictorStep,
       Mutators, Threads


LEMMA OwnInvAlways ==
    ASSUME Apart, OwnInv, [Next]_vars
    PROVE  OwnInv'
<1>1. TypeOK' /\ Control'
  BY ControlAlways DEF OwnInv
<1>2. Cleared'
  BY PutsCleared, FlushesCleared DEF Cleared
<1>3. Alone' /\ CandsFresh' /\ Hands' /\ KeysApart'
  BY AloneAlways, CandsFreshAlways, HandsAlways, KeysApartAlways
<1>4. Unindexed' /\ Single' /\ Owned'
  BY UnindexedAlways, SingleAlways, OwnedAlways
<1>. QED BY <1>1, <1>2, <1>3, <1>4 DEF OwnInv

LEMMA InitOwned == ASSUME Init PROVE OwnInv
<1>1. TypeOK /\ Control
  BY InitControl
<1>2. /\ Mutators \subseteq Threads /\ Writers \subseteq Threads
      /\ \A t \in Threads : pc[t] = "idle"
      /\ \A w \in Writers : todo[w] = <<>> /\ need[w] = <<>> /\ items[w] = {}
      /\ \A t \in Mutators : cands[t] = {} /\ hand[t] = NoRecord
  BY DEF Init, Threads, Mutators
<1>3. /\ \A s \in Slots : offers[s] = 1 /\ (\A k \in Keys : index[k] # s)
      /\ \A s \in Slots, e \in Times : pending[s][e] = 0
      /\ \A t \in Threads, s \in Slots, e \in Times : spoils[t][s][e] = 0
  BY StoreAssumption DEF Init, EmptyQueue
<1>4. Alone /\ CandsFresh /\ Hands
  BY <1>2 DEF Alone, Evicting, CandsFresh, Hands
<1>5. Cleared
  BY <1>2, <1>3 DEF Cleared, ClearedPut, Nothing
<1>6. KeysApart
  BY <1>2 DEF KeysApart, OnceEach, Wants, Asks, Needs, Holds
<1>7. Unindexed
  BY <1>2 DEF Unindexed, Needs, Holds
<1>8. Single
  BY <1>3 DEF Single
<1>9. Owned
  <2>. SUFFICES ASSUME NEW s \in Slots PROVE \E p : \A q : Owner(q, s) <=> q = p
    BY DEF Owned
  <2>1. \A t \in Mutators : hand[t].slot # s
    BY <1>2, StoreAssumption DEF NoRecord
  <2>2. \A q : ~ByIndex(q, s) /\ ~ByPut(q, s) /\ ~ByEviction(q, s)
    BY <1>2, <1>3, <2>1 DEF ByIndex, ByPut, ByEviction
  <2>3. \A q : ~ByQueue(q, s) /\ ~ByFlush(q, s)
    BY <1>3 DEF ByQueue, ByFlush
  <2>4. \A q : ByAllocator(q, s) <=> q = Alloc
    BY <1>3 DEF ByAllocator, Alloc
  <2>. QED BY <2>2, <2>3, <2>4 DEF Owner
<1>. QED BY <1>1, <1>4, <1>5, <1>6, <1>7, <1>8, <1>9 DEF OwnInv

(* The claim x on a slot that goes with the owner q. *)
Claim(q, x) ==
    \/ q = Alloc /\ x = <<"allocator", 1>>
    \/ \E k \in Keys : q = <<"index", k, 0>> /\ x = <<"index", k>>
    \/ \E e \in Times : q = <<"queue", e, 0>> /\ x = <<"queue", e, 1>>
    \/ \E t \in Threads, e \in Times : q = <<"flush", t, e>> /\ x = <<"flush", t, e, 1>>
    \/ \E w \in Writers, k \in Keys : q = <<"put", w, k>> /\ x = <<"put", w, k>>
    \/ \E t \in Mutators : q = <<"evict", t, 0>> /\ x = <<"evict", t>>

LEMMA ClaimsOnce ==
    ASSUME NEW q, NEW x, NEW y, Claim(q, x), Claim(q, y)
    PROVE  x = y
<1>1. CASE q = Alloc
  BY <1>1 DEF Claim, Alloc
<1>2. ASSUME NEW k \in Keys, q = <<"index", k, 0>> PROVE x = y
  BY <1>2 DEF Claim, Alloc
<1>3. ASSUME NEW e \in Times, q = <<"queue", e, 0>> PROVE x = y
  BY <1>3 DEF Claim, Alloc
<1>4. ASSUME NEW t \in Threads, NEW e \in Times, q = <<"flush", t, e>> PROVE x = y
  BY <1>4 DEF Claim, Alloc
<1>5. ASSUME NEW w \in Writers, NEW k \in Keys, q = <<"put", w, k>> PROVE x = y
  BY <1>5 DEF Claim, Alloc
<1>6. ASSUME NEW t \in Mutators, q = <<"evict", t, 0>> PROVE x = y
  BY <1>6 DEF Claim, Alloc
<1>. QED BY <1>1, <1>2, <1>3, <1>4, <1>5, <1>6 DEF Claim

LEMMA ClaimsAreOwners ==
    ASSUME OwnInv, NEW s \in Slots, NEW x
    PROVE  x \in Claims(s) <=> \E q : Owner(q, s) /\ Claim(q, x)
<1>0. TypeOK /\ Single
  BY DEF OwnInv
<1>1. (x \in {<<"allocator", i>> : i \in 1 .. offers[s]}) <=>
        \E q : ByAllocator(q, s) /\ Claim(q, x)
  <2>1. offers[s] \in Nat /\ offers[s] <= 1
    BY <1>0 DEF TypeOK, Single
  <2>2. \A i \in 1 .. offers[s] : i = 1 /\ offers[s] > 0
    BY <2>1
  <2>3. offers[s] > 0 => 1 \in 1 .. offers[s]
    BY <2>1
  <2>4. \A q : ByAllocator(q, s) => (Claim(q, x) <=> x = <<"allocator", 1>>)
    BY DEF ByAllocator, Claim, Alloc
  <2>5. offers[s] > 0 <=> ByAllocator(Alloc, s)
    BY DEF ByAllocator, Alloc
  <2>6. \A q : ByAllocator(q, s) => offers[s] > 0
    BY DEF ByAllocator
  <2>. QED BY <2>2, <2>3, <2>4, <2>5, <2>6
<1>2. (x \in {<<"index", k>> : k \in {k \in Keys : index[k] = s}}) <=>
        \E q : ByIndex(q, s) /\ Claim(q, x)
  <2>1. ASSUME NEW k \in Keys, index[k] = s, x = <<"index", k>>
        PROVE  \E q : ByIndex(q, s) /\ Claim(q, x)
    <3>1. PICK r : r = <<"index", k, 0>>
      OBVIOUS
    <3>2. ByIndex(r, s) /\ Claim(r, x)
      BY <2>1, <3>1 DEF ByIndex, Claim
    <3>. QED BY <3>2
  <2>2. ASSUME NEW q, ByIndex(q, s), Claim(q, x)
        PROVE  \E k \in Keys : index[k] = s /\ x = <<"index", k>>
    BY <2>2 DEF ByIndex, Claim, Alloc
  <2>. QED BY <2>1, <2>2
<1>3. (x \in UNION {{<<"queue", t, i>> : i \in 1 .. pending[s][t]} : t \in Times}) <=>
        \E q : ByQueue(q, s) /\ Claim(q, x)
  <2>1. \A e \in Times : pending[s][e] \in Nat /\ pending[s][e] <= 1
    BY <1>0 DEF TypeOK, Queues, Single
  <2>2. \A e \in Times : /\ \A i \in 1 .. pending[s][e] : i = 1 /\ pending[s][e] > 0
                         /\ pending[s][e] > 0 => 1 \in 1 .. pending[s][e]
    BY <2>1
  <2>3. (\E q : ByQueue(q, s) /\ Claim(q, x)) <=>
          \E e \in Times : pending[s][e] > 0 /\ x = <<"queue", e, 1>>
    <3>1. ASSUME NEW e \in Times, pending[s][e] > 0, x = <<"queue", e, 1>>
          PROVE  \E q : ByQueue(q, s) /\ Claim(q, x)
      <4>1. PICK r : r = <<"queue", e, 0>>
        OBVIOUS
      <4>2. ByQueue(r, s) /\ Claim(r, x)
        BY <3>1, <4>1 DEF ByQueue, Claim
      <4>. QED BY <4>2
    <3>2. ASSUME NEW q, ByQueue(q, s), Claim(q, x)
          PROVE  \E e \in Times : pending[s][e] > 0 /\ x = <<"queue", e, 1>>
      BY <3>2 DEF ByQueue, Claim, Alloc
    <3>. QED BY <3>1, <3>2
  <2>4. (x \in UNION {{<<"queue", t, i>> : i \in 1 .. pending[s][t]} : t \in Times}) <=>
          \E e \in Times : \E i \in 1 .. pending[s][e] : x = <<"queue", e, i>>
    OBVIOUS
  <2>. QED BY <2>2, <2>3, <2>4
<1>4. (x \in UNION {{<<"flush", u, t, i>> : i \in 1 .. spoils[u][s][t]} :
                      u \in Threads, t \in Times}) <=>
        \E q : ByFlush(q, s) /\ Claim(q, x)
  <2>1. \A u \in Threads, e \in Times : spoils[u][s][e] \in Nat /\ spoils[u][s][e] <= 1
    BY <1>0 DEF TypeOK, Queues, Single
  <2>2. \A u \in Threads, e \in Times :
            /\ \A i \in 1 .. spoils[u][s][e] : i = 1 /\ spoils[u][s][e] > 0
            /\ spoils[u][s][e] > 0 => 1 \in 1 .. spoils[u][s][e]
    BY <2>1
  <2>3. (\E q : ByFlush(q, s) /\ Claim(q, x)) <=>
          \E u \in Threads, e \in Times : spoils[u][s][e] > 0 /\ x = <<"flush", u, e, 1>>
    <3>1. ASSUME NEW u \in Threads, NEW e \in Times, spoils[u][s][e] > 0, x = <<"flush", u, e, 1>>
          PROVE  \E q : ByFlush(q, s) /\ Claim(q, x)
      <4>1. PICK r : r = <<"flush", u, e>>
        OBVIOUS
      <4>2. ByFlush(r, s) /\ Claim(r, x)
        BY <3>1, <4>1 DEF ByFlush, Claim
      <4>. QED BY <4>2
    <3>2. ASSUME NEW q, ByFlush(q, s), Claim(q, x)
          PROVE  \E u \in Threads, e \in Times : spoils[u][s][e] > 0 /\ x = <<"flush", u, e, 1>>
      BY <3>2 DEF ByFlush, Claim, Alloc
    <3>. QED BY <3>1, <3>2
  <2>4. (x \in UNION {{<<"flush", u, t, i>> : i \in 1 .. spoils[u][s][t]} :
                        u \in Threads, t \in Times}) <=>
          \E u \in Threads, e \in Times : \E i \in 1 .. spoils[u][s][e] :
              x = <<"flush", u, e, i>>
    <3>. DEFINE F(u, e) == {<<"flush", u, e, i>> : i \in 1 .. spoils[u][s][e]}
    <3>1. \A u, e : x \in F(u, e) <=> \E i \in 1 .. spoils[u][s][e] : x = <<"flush", u, e, i>>
      OBVIOUS
    <3>2. (x \in UNION {F(u, t) : u \in Threads, t \in Times}) <=>
            \E u \in Threads, e \in Times : x \in F(u, e)
      <4>. HIDE DEF F
      <4>. QED OBVIOUS
    <3>. QED BY <3>1, <3>2
  <2>. QED BY <2>2, <2>3, <2>4
<1>5. (x \in UNION {{<<"put", w, c.key>> : c \in {c \in items[w] : c.slot = s}} :
                      w \in Writers}) <=>
        \E q : ByPut(q, s) /\ Claim(q, x)
  <2>1. \A w \in Writers : \A c \in items[w] : c.key \in Keys
    BY <1>0 DEF TypeOK, Records
  <2>2. (\E q : ByPut(q, s) /\ Claim(q, x)) <=>
          \E w \in Writers : \E c \in items[w] : c.slot = s /\ x = <<"put", w, c.key>>
    BY <2>1 DEF ByPut, Claim, Alloc
  <2>. QED BY <2>2
<1>6. (x \in {<<"evict", t>> : t \in {t \in Mutators : hand[t].slot = s}}) <=>
        \E q : ByEviction(q, s) /\ Claim(q, x)
  <2>1. ASSUME NEW t \in Mutators, hand[t].slot = s, x = <<"evict", t>>
        PROVE  \E q : ByEviction(q, s) /\ Claim(q, x)
    <3>1. PICK r : r = <<"evict", t, 0>>
      OBVIOUS
    <3>2. ByEviction(r, s) /\ Claim(r, x)
      BY <2>1, <3>1 DEF ByEviction, Claim
    <3>. QED BY <3>2
  <2>2. ASSUME NEW q, ByEviction(q, s), Claim(q, x)
        PROVE  \E t \in Mutators : hand[t].slot = s /\ x = <<"evict", t>>
    BY <2>2 DEF ByEviction, Claim, Alloc
  <2>. QED BY <2>1, <2>2
<1>7. x \in Claims(s) <=>
        \/ x \in {<<"allocator", i>> : i \in 1 .. offers[s]}
        \/ x \in {<<"index", k>> : k \in {k \in Keys : index[k] = s}}
        \/ x \in UNION {{<<"queue", t, i>> : i \in 1 .. pending[s][t]} : t \in Times}
        \/ x \in UNION {{<<"flush", u, t, i>> : i \in 1 .. spoils[u][s][t]} :
                           u \in Threads, t \in Times}
        \/ x \in UNION {{<<"put", w, c.key>> : c \in {c \in items[w] : c.slot = s}} :
                           w \in Writers}
        \/ x \in {<<"evict", t>> : t \in {t \in Mutators : hand[t].slot = s}}
  <2>. DEFINE A == {<<"allocator", i>> : i \in 1 .. offers[s]}
              B == {<<"index", k>> : k \in {k \in Keys : index[k] = s}}
              C == UNION {{<<"queue", t, i>> : i \in 1 .. pending[s][t]} : t \in Times}
              D == UNION {{<<"flush", u, t, i>> : i \in 1 .. spoils[u][s][t]} :
                            u \in Threads, t \in Times}
              E == UNION {{<<"put", w, c.key>> : c \in {c \in items[w] : c.slot = s}} :
                            w \in Writers}
              F == {<<"evict", t>> : t \in {t \in Mutators : hand[t].slot = s}}
  <2>1. Claims(s) = A \cup B \cup C \cup D \cup E \cup F
    BY DEF Claims
  <2>. HIDE DEF A, B, C, D, E, F
  <2>2. x \in Claims(s) <=>
          x \in A \/ x \in B \/ x \in C \/ x \in D \/ x \in E \/ x \in F
    BY <2>1
  <2>. QED BY <2>2 DEF A, B, C, D, E, F
<1>8. (\E q : Owner(q, s) /\ Claim(q, x)) <=>
        \/ \E q : ByAllocator(q, s) /\ Claim(q, x)
        \/ \E q : ByIndex(q, s) /\ Claim(q, x)
        \/ \E q : ByQueue(q, s) /\ Claim(q, x)
        \/ \E q : ByFlush(q, s) /\ Claim(q, x)
        \/ \E q : ByPut(q, s) /\ Claim(q, x)
        \/ \E q : ByEviction(q, s) /\ Claim(q, x)
  BY DEF Owner
<1>. QED BY <1>1, <1>2, <1>3, <1>4, <1>5, <1>6, <1>7, <1>8

LEMMA OwnerHasClaim ==
    ASSUME TypeOK, NEW s \in Slots, NEW q, Owner(q, s)
    PROVE  \E x : Claim(q, x)
<1>1. \A w \in Writers : \A c \in items[w] : c.key \in Keys
  BY DEF TypeOK, Records
<1>2. ByAllocator(q, s) => Claim(q, <<"allocator", 1>>)
  BY DEF ByAllocator, Claim, Alloc
<1>3. ByIndex(q, s) => \E x : Claim(q, x)
  BY DEF ByIndex, Claim
<1>4. ByQueue(q, s) => \E x : Claim(q, x)
  BY DEF ByQueue, Claim
<1>5. ByFlush(q, s) => \E x : Claim(q, x)
  BY DEF ByFlush, Claim
<1>6. ByPut(q, s) => \E x : Claim(q, x)
  BY <1>1 DEF ByPut, Claim
<1>7. ByEviction(q, s) => \E x : Claim(q, x)
  BY DEF ByEviction, Claim
<1>. QED BY <1>2, <1>3, <1>4, <1>5, <1>6, <1>7 DEF Owner

LEMMA OwnedSlots == ASSUME OwnInv PROVE SlotOwnership
<1>. SUFFICES ASSUME NEW s \in Slots PROVE Claims(s) # {} /\ Cardinality(Claims(s)) <= 1
  BY DEF SlotOwnership, NoAliasing, NoLeak
<1>1. PICK p : \A q : Owner(q, s) <=> q = p
  BY DEF OwnInv, Owned
<1>2. PICK x : Claim(p, x)
  BY <1>1, OwnerHasClaim DEF OwnInv
<1>3. \A y : y \in Claims(s) <=> y = x
  BY <1>1, <1>2, ClaimsAreOwners, ClaimsOnce
<1>4. Claims(s) = {x}
  BY <1>3
<1>. QED BY <1>4, FS_Singleton

(* However puts, failed writes, evictions, removals and flushes interleave,*)
(* every slot has exactly one owner at all times, for any number of slots, *)
(* keys and writers, provided no two evictions or removals overlap, no two *)
(* puts of a key do, and no batch has a key twice.                         *)
THEOREM SlotOwnershipHolds == Apart => (Spec => []SlotOwnership)
<1>. SUFFICES ASSUME Apart PROVE Spec => []SlotOwnership
  OBVIOUS
<1>1. Init => OwnInv
  BY InitOwned
<1>2. OwnInv /\ [Next]_vars => OwnInv'
  BY OwnInvAlways
<1>3. OwnInv => SlotOwnership
  BY OwnedSlots
<1>. QED BY <1>1, <1>2, <1>3, PTL DEF Spec


----------------------------------------------------------------------------
(* Values that fit, and stay *)

LEMMA FitsLess ==
    ASSUME NEW x \in Writers, Fits(x), \A k \in Keys : Open(x, k)' => Open(x, k),
           \A c \in items'[x] : c.key \notin Oversize
    PROVE  Fits(x)'
  BY DEF Fits

LEMMA FitsUnchanged ==
    ASSUME NEW x \in Writers, Fits(x), todo' = todo, need' = need, items' = items,
           pc'[x] = "check" => pc[x] = "check"
    PROVE  Fits(x)'
<1>1. \A k \in Keys : Open(x, k)' => Open(x, k)
  BY DEF Open, Asks, Needs
<1>2. \A c \in items'[x] : c.key \notin Oversize
  BY DEF Fits
<1>. QED BY <1>1, <1>2, FitsLess

LEMMA FittingAlways ==
    ASSUME Apart, OneSize, OwnInv, Fitting, [Next]_vars
    PROVE  Fitting'
<1>0. /\ pc \in [Threads -> Labels] /\ todo \in [Writers -> Seq(Keys)]
      /\ need \in [Writers -> Seq(Keys)] /\ items \in [Writers -> SUBSET Records]
  BY DEF OwnInv, TypeOK
<1>r. Evictor \notin Writers /\ Reaper \notin Writers
  BY StoreAssumption DEF Mutators
<1>. SUFFICES ASSUME NEW x \in Writers PROVE Fits(x)'
  BY DEF Fitting
<1>h. Fits(x)
  BY DEF Fitting
<1>. USE <1>0, <1>r, <1>h DEF Mutators, Threads
<1>1. ASSUME Tick PROVE Fits(x)'
  <2>1. todo' = todo /\ need' = need /\ items' = items
    BY <1>1 DEF Tick, putVars
  <2>2. pc'[x] = "check" => pc[x] = "check"
    BY <1>1 DEF Tick, Goto, AfterFlush
  <2>. QED BY <2>1, <2>2, FitsUnchanged
<1>2. ASSUME ReaperWakes PROVE Fits(x)'
  <2>1. todo' = todo /\ need' = need /\ items' = items
    BY <1>2 DEF ReaperWakes, putVars
  <2>2. pc'[x] = "check" => pc[x] = "check"
    BY <1>2 DEF ReaperWakes, Goto, AfterFlush
  <2>. QED BY <2>1, <2>2, FitsUnchanged
<1>3. ASSUME LoopWakes PROVE Fits(x)'
  <2>1. todo' = todo /\ need' = need /\ items' = items
    BY <1>3 DEF LoopWakes, putVars
  <2>2. pc'[x] = "check" => pc[x] = "check"
    BY <1>3 DEF LoopWakes, Goto, AfterFlush
  <2>. QED BY <2>1, <2>2, FitsUnchanged
<1>30. ASSUME LoopTest PROVE Fits(x)'
  <2>1. todo' = todo /\ need' = need /\ items' = items
    BY <1>30 DEF LoopTest, putVars
  <2>2. pc'[x] = "check" => pc[x] = "check"
    BY <1>30 DEF LoopTest, Goto, AfterFlush
  <2>. QED BY <2>1, <2>2, FitsUnchanged
<1>4. ASSUME LoopPick PROVE Fits(x)'
  <2>1. todo' = todo /\ need' = need /\ items' = items
    BY <1>4 DEF LoopPick, putVars
  <2>2. pc'[x] = "check" => pc[x] = "check"
    BY <1>4 DEF LoopPick, Goto, AfterFlush
  <2>. QED BY <2>1, <2>2, FitsUnchanged
<1>5. ASSUME NEW w \in Writers, NEW ks \in Batches[w], BatchPut(w, ks) PROVE Fits(x)'
  <2>0. ks \in Seq(Keys) /\ \A i, j \in DOMAIN ks : ks[i] \in Oversize => ks[j] \in Oversize
    BY StoreAssumption DEF OneSize
  <2>1. /\ pc[w] = "idle" /\ need' = need /\ items' = items
        /\ x # w => todo'[x] = todo[x] /\ pc'[x] = pc[x]
        /\ todo'[w] = ks
    BY <1>5 DEF BatchPut, Goto
  <2>2. CASE x # w
    <3>1. \A y \in Keys : Open(x, y)' => Open(x, y)
      BY <2>1, <2>2 DEF Open, Asks, Needs
    <3>2. \A c \in items'[x] : c.key \notin Oversize
      BY <2>1 DEF Fits
    <3>. QED BY <3>1, <3>2, FitsLess
  <2>3. CASE x = w
    <3>1. need'[w] = <<>>
      BY <2>1 DEF OwnInv, Cleared, ClearedPut
    <3>2. \A y \in Keys : Open(w, y)' => \E i \in DOMAIN ks : ks[i] = y
      BY <2>1, <3>1 DEF Open, Asks, Needs
    <3>3. \A c \in items'[w] : c.key \notin Oversize
      BY <2>1, <2>3 DEF Fits
    <3>4. \A j, y \in Keys : Open(w, j)' /\ Open(w, y)' /\ j \in Oversize => y \in Oversize
      BY <2>0, <3>2
    <3>. QED BY <2>3, <3>3, <3>4 DEF Fits
  <2>. QED BY <2>2, <2>3
<1>6. ASSUME NEW w \in Writers, NEW k \in Removals[w], Remove(w, k) PROVE Fits(x)'
  <2>0. /\ need' = need /\ pc'[w] # "check"
        /\ x # w => todo'[x] = todo[x] /\ pc'[x] = pc[x]
    BY <1>6 DEF Remove, Goto
  <2>1. \A y \in Keys : Open(x, y)' => Open(x, y)
    BY <1>6, <2>0 DEF Open, Asks, Needs
  <2>2. \A c \in items'[x] : c.key \notin Oversize
    BY <1>6 DEF Remove, Fits
  <2>. QED BY <2>1, <2>2, FitsLess
<1>7. ASSUME NEW w \in Writers, CheckKey(w) PROVE Fits(x)'
  <2>1. \A y \in Keys : Open(x, y)' => Open(x, y)
    <3>1. todo[w] \in Seq(Keys) /\ todo[w] # <<>> /\ need[w] \in Seq(Keys) /\ pc[w] = "check"
      BY <1>7 DEF CheckKey, OwnInv, Control, TodoKept
    <3>2. /\ todo' = [todo EXCEPT ![w] = Tail(@)]
          /\ need'[w] = need[w] \/ need'[w] = Append(need[w], Head(todo[w]))
          /\ x # w => need'[x] = need[x] /\ pc'[x] = pc[x] /\ todo'[x] = todo[x]
      BY <1>7 DEF CheckKey, Goto
    <3>3. Head(todo[w]) \in Keys /\ Asks(w, Head(todo[w]))
      BY <3>1, HeadTail DEF Asks
    <3>4. \A y \in Keys : Asks(x, y)' => Asks(x, y)
      BY <3>1, <3>2, TailWithin DEF Asks
    <3>5. \A y \in Keys : Needs(x, y)' => Needs(x, y) \/ (x = w /\ y = Head(todo[w]))
      <4>1. CASE x # w \/ need'[w] = need[w]
        BY <3>2, <4>1 DEF Needs
      <4>2. CASE x = w /\ need'[w] = Append(need[w], Head(todo[w]))
        BY <3>1, <3>3, <4>2, AppendWithin DEF Needs
      <4>. QED BY <3>2, <4>1, <4>2
    <3>. QED BY <3>3, <3>4, <3>5 DEF Open
  <2>2. \A c \in items'[x] : c.key \notin Oversize
    BY <1>7 DEF CheckKey, Fits
  <2>. QED BY <2>1, <2>2, FitsLess
<1>8. ASSUME NEW w \in Writers, BatchAlloc(w) PROVE Fits(x)'
  <2>0. PICK n \in 0 .. Len(need[w]) : \E give \in [1 .. n -> Slots] : Handout(w, n, give)
    BY <1>8, BatchAllocHands
  <2>g. PICK give \in [1 .. n -> Slots] : Handout(w, n, give)
    BY <2>0
  <2>o. /\ todo' = todo /\ pc'[w] # "check"
        /\ x # w => need'[x] = need[x] /\ items'[x] = items[x] /\ pc'[x] = pc[x]
    BY <1>8, <2>g DEF BatchAlloc, Goto, NextKey, Handout
  <2>w. \A y \in Keys : /\ Needs(w, y)' => Needs(w, y)
                        /\ Holds(w, y)' => Needs(w, y)
    BY <2>g, HandoutKeys DEF OwnInv
  <2>1. \A y \in Keys : Open(x, y)' => Open(x, y)
    <3>1. CASE x # w
      BY <2>o, <3>1 DEF Open, Asks, Needs
    <3>2. CASE x = w
      BY <2>o, <2>w, <3>2 DEF Open, Asks
    <3>. QED BY <3>1, <3>2
  <2>2. ASSUME NEW c \in items'[x] PROVE c.key \notin Oversize
    <3>1. CASE x # w
      BY <2>o, <2>2, <3>1 DEF Fits
    <3>2. CASE x = w
      <4>1. PICK i \in 1 .. n : c = [key |-> need[w][i], slot |-> give[i]]
        BY <2>g, <2>2, <3>2 DEF Handout
      <4>2. need[w] \in Seq(Keys) /\ need[w] # <<>>
        BY <1>8 DEF BatchAlloc, OwnInv, Control, NeedKept
      <4>3. /\ i \in DOMAIN need[w] /\ 1 \in DOMAIN need[w] /\ Head(need[w]) = need[w][1]
            /\ n # 0 /\ need[w][i] \in Keys /\ need[w][1] \in Keys
        BY <4>2, HeadTail, LenProperties
      <4>4. Head(need[w]) \notin Oversize
        BY <2>g, <4>3 DEF Handout
      <4>5. Open(w, need[w][i]) /\ Open(w, Head(need[w]))
        BY <4>3 DEF Open, Needs
      <4>6. need[w][i] \notin Oversize
        BY <3>2, <4>3, <4>4, <4>5 DEF Fits
      <4>. QED BY <4>1, <4>6
    <3>. QED BY <3>1, <3>2
  <2>. QED BY <2>1, <2>2, FitsLess
<1>9. ASSUME NEW w \in Writers, AllocOk(w) PROVE Fits(x)'
  <2>1. \A y \in Keys : Open(x, y)' => Open(x, y)
    <3>1. need[w] \in Seq(Keys) /\ need[w] # <<>>
      BY <1>9 DEF AllocOk, OwnInv, Control, NeedKept, Ladder
    <3>2. /\ todo' = todo /\ need' = [need EXCEPT ![w] = Tail(@)]
          /\ pc'[x] = "check" => pc[x] = "check"
      BY <1>9 DEF AllocOk, Goto, NextKey
    <3>3. \A y \in Keys : Needs(x, y)' => Needs(x, y)
      BY <3>1, <3>2, TailWithin DEF Needs
    <3>. QED BY <3>2, <3>3 DEF Open, Asks
  <2>2. \A c \in items'[x] : c.key \notin Oversize
    <3>1. PICK s \in Slots :
             items' = [items EXCEPT ![w] = @ \cup {[key |-> Head(need[w]), slot |-> s]}]
      BY <1>9 DEF AllocOk
    <3>2. Head(need[w]) \notin Oversize
      BY <1>9 DEF AllocOk
    <3>. QED BY <3>1, <3>2 DEF Fits
  <2>. QED BY <2>1, <2>2, FitsLess
<1>10. ASSUME NEW w \in Writers, ClimbLadder(w) PROVE Fits(x)'
  <2>1. todo' = todo /\ need' = need /\ items' = items
    BY <1>10 DEF ClimbLadder, putVars
  <2>2. pc'[x] = "check" => pc[x] = "check"
    BY <1>10 DEF ClimbLadder, Goto, AfterFlush
  <2>. QED BY <2>1, <2>2, FitsUnchanged
<1>11. ASSUME NEW w \in Writers, NoSpace(w) PROVE Fits(x)'
  <2>1. \A y \in Keys : Open(x, y)' => Open(x, y)
    <3>1. need[w] \in Seq(Keys) /\ need[w] # <<>>
      BY <1>11 DEF NoSpace, OwnInv, Control, NeedKept, Ladder
    <3>2. /\ todo' = todo /\ need' = [need EXCEPT ![w] = Tail(@)]
          /\ pc'[x] = "check" => pc[x] = "check"
      BY <1>11 DEF NoSpace, Goto, NextKey
    <3>3. \A y \in Keys : Needs(x, y)' => Needs(x, y)
      BY <3>1, <3>2, TailWithin DEF Needs
    <3>. QED BY <3>2, <3>3 DEF Open, Asks
  <2>2. \A c \in items'[x] : c.key \notin Oversize
    BY <1>11 DEF NoSpace, Fits
  <2>. QED BY <2>1, <2>2, FitsLess
<1>12. ASSUME NEW w \in Writers, WriteStarts(w) PROVE Fits(x)'
  <2>1. todo' = todo /\ need' = need /\ items' = items
    BY <1>12 DEF WriteStarts, putVars
  <2>2. pc'[x] = "check" => pc[x] = "check"
    BY <1>12 DEF WriteStarts, Goto, AfterFlush
  <2>. QED BY <2>1, <2>2, FitsUnchanged
<1>13. ASSUME NEW w \in Writers, WriteOk(w) PROVE Fits(x)'
  <2>1. todo' = todo /\ need' = need /\ items' = items
    BY <1>13 DEF WriteOk, putVars
  <2>2. pc'[x] = "check" => pc[x] = "check"
    BY <1>13 DEF WriteOk, Goto, AfterFlush
  <2>. QED BY <2>1, <2>2, FitsUnchanged
<1>14. ASSUME NEW w \in Writers, WriteFails(w) PROVE Fits(x)'
  <2>1. todo' = todo /\ need' = need /\ items' = items
    BY <1>14 DEF WriteFails, putVars
  <2>2. pc'[x] = "check" => pc[x] = "check"
    BY <1>14 DEF WriteFails, Goto, AfterFlush
  <2>. QED BY <2>1, <2>2, FitsUnchanged
<1>15. ASSUME NEW w \in Writers, Unwind(w) PROVE Fits(x)'
  <2>0. /\ need' = need /\ todo' = todo /\ (pc'[x] = "check" => pc[x] = "check")
        /\ items'[x] \subseteq items[x]
    BY <1>15 DEF Unwind, Goto
  <2>1. \A y \in Keys : Open(x, y)' => Open(x, y)
    BY <1>15, <2>0 DEF Open, Asks, Needs
  <2>2. \A c \in items'[x] : c.key \notin Oversize
    BY <2>0 DEF Fits
  <2>. QED BY <2>1, <2>2, FitsLess
<1>16. ASSUME NEW w \in Writers, Publish(w) PROVE Fits(x)'
  <2>0. /\ need' = need /\ todo' = todo /\ (pc'[x] = "check" => pc[x] = "check")
        /\ items'[x] \subseteq items[x]
    BY <1>16 DEF Publish, Goto
  <2>1. \A y \in Keys : Open(x, y)' => Open(x, y)
    BY <1>16, <2>0 DEF Open, Asks, Needs
  <2>2. \A c \in items'[x] : c.key \notin Oversize
    BY <2>0 DEF Fits
  <2>. QED BY <2>1, <2>2, FitsLess
<1>17. ASSUME NEW w \in Writers, ForcePick(w) PROVE Fits(x)'
  <2>1. todo' = todo /\ need' = need /\ items' = items
    BY <1>17 DEF ForcePick, putVars
  <2>2. pc'[x] = "check" => pc[x] = "check"
    BY <1>17 DEF ForcePick, Goto, AfterFlush
  <2>. QED BY <2>1, <2>2, FitsUnchanged
<1>18. ASSUME NEW t \in Mutators, SyncRemoveOk(t) PROVE Fits(x)'
  <2>1. todo' = todo /\ need' = need /\ items' = items
    BY <1>18 DEF SyncRemoveOk, putVars
  <2>2. pc'[x] = "check" => pc[x] = "check"
    BY <1>18 DEF SyncRemoveOk, Goto, AfterFlush
  <2>. QED BY <2>1, <2>2, FitsUnchanged
<1>19. ASSUME NEW t \in Mutators, SyncRemoveFails(t) PROVE Fits(x)'
  <2>1. todo' = todo /\ need' = need /\ items' = items
    BY <1>19 DEF SyncRemoveFails, putVars
  <2>2. pc'[x] = "check" => pc[x] = "check"
    BY <1>19 DEF SyncRemoveFails, Goto, AfterFlush
  <2>. QED BY <2>1, <2>2, FitsUnchanged
<1>20. ASSUME NEW t \in Mutators, EvictRemove(t) PROVE Fits(x)'
  <2>1. todo' = todo /\ need' = need /\ items' = items
    BY <1>20 DEF EvictRemove, putVars
  <2>2. pc'[x] = "check" => pc[x] = "check"
    BY <1>20 DEF EvictRemove, Goto, AfterFlush
  <2>. QED BY <2>1, <2>2, FitsUnchanged
<1>21. ASSUME NEW t \in Mutators, EvictEnqueue(t) PROVE Fits(x)'
  <2>1. todo' = todo /\ need' = need /\ items' = items
    BY <1>21 DEF EvictEnqueue, putVars
  <2>2. pc'[x] = "check" => pc[x] = "check"
    BY <1>21 DEF EvictEnqueue, Goto, AfterFlush
  <2>. QED BY <2>1, <2>2, FitsUnchanged
<1>22. ASSUME NEW t \in Threads, ReadNow(t) PROVE Fits(x)'
  <2>1. todo' = todo /\ need' = need /\ items' = items
    BY <1>22 DEF ReadNow, putVars
  <2>2. pc'[x] = "check" => pc[x] = "check"
    BY <1>22 DEF ReadNow, Goto, AfterFlush
  <2>. QED BY <2>1, <2>2, FitsUnchanged
<1>23. ASSUME NEW t \in Threads, TakeExpired(t) PROVE Fits(x)'
  <2>1. todo' = todo /\ need' = need /\ items' = items
    BY <1>23 DEF TakeExpired, putVars
  <2>2. pc'[x] = "check" => pc[x] = "check"
    BY <1>23 DEF TakeExpired, Goto, AfterFlush
  <2>. QED BY <2>1, <2>2, FitsUnchanged
<1>24. ASSUME NEW t \in Threads, FreeTaken(t) PROVE Fits(x)'
  <2>1. todo' = todo /\ need' = need /\ items' = items
    BY <1>24 DEF FreeTaken, putVars
  <2>2. pc'[x] = "check" => pc[x] = "check"
    BY <1>24 DEF FreeTaken, Goto, AfterFlush
  <2>. QED BY <2>1, <2>2, FitsUnchanged
<1>25. ASSUME NEW w \in Writers, TakeAll(w) PROVE Fits(x)'
  <2>1. todo' = todo /\ need' = need /\ items' = items
    BY <1>25 DEF TakeAll, putVars
  <2>2. pc'[x] = "check" => pc[x] = "check"
    BY <1>25 DEF TakeAll, Goto, AfterFlush
  <2>. QED BY <2>1, <2>2, FitsUnchanged
<1>26. ASSUME NEW w \in Writers, RemoveSync(w) PROVE Fits(x)'
  <2>0. /\ need' = need /\ pc'[w] # "check"
        /\ x # w => todo'[x] = todo[x] /\ pc'[x] = pc[x]
    BY <1>26 DEF RemoveSync, Goto
  <2>1. \A y \in Keys : Open(x, y)' => Open(x, y)
    BY <1>26, <2>0 DEF Open, Asks, Needs
  <2>2. \A c \in items'[x] : c.key \notin Oversize
    BY <1>26 DEF RemoveSync, Fits
  <2>. QED BY <2>1, <2>2, FitsLess
<1>27. ASSUME NEW w \in Writers, RemoveFromIndex(w) PROVE Fits(x)'
  <2>0. /\ need' = need /\ pc'[w] # "check"
        /\ x # w => todo'[x] = todo[x] /\ pc'[x] = pc[x]
    BY <1>27 DEF RemoveFromIndex, Goto
  <2>1. \A y \in Keys : Open(x, y)' => Open(x, y)
    BY <1>27, <2>0 DEF Open, Asks, Needs
  <2>2. \A c \in items'[x] : c.key \notin Oversize
    BY <1>27 DEF RemoveFromIndex, Fits
  <2>. QED BY <2>1, <2>2, FitsLess
<1>28. ASSUME NEW w \in Writers, RemoveEnqueue(w) PROVE Fits(x)'
  <2>1. todo' = todo /\ need' = need /\ items' = items
    BY <1>28 DEF RemoveEnqueue, putVars
  <2>2. pc'[x] = "check" => pc[x] = "check"
    BY <1>28 DEF RemoveEnqueue, Goto, AfterFlush
  <2>. QED BY <2>1, <2>2, FitsUnchanged
<1>29. ASSUME UNCHANGED vars PROVE Fits(x)'
  BY <1>29, FitsUnchanged DEF vars
<1>. QED BY <1>1, <1>2, <1>3, <1>4, <1>5, <1>6, <1>7, <1>8, <1>9, <1>10, <1>11, <1>12, <1>13, <1>14, <1>15,
             <1>16, <1>17, <1>18, <1>19, <1>20, <1>21, <1>22, <1>23, <1>24, <1>25, <1>26, <1>27, <1>28, <1>29,
             <1>30
   DEF Next, Calls, WriterStep, PutStep, EvictStep, FlushStep, RemoveStep, EvictorStep,
       Mutators, Threads


(* No two records of puts share a slot, and no indexed key has the slot of *)
(* one of them.                                                            *)
LEMMA PutSlotsApart ==
    ASSUME OwnInv, NEW v \in Writers, NEW w \in Writers, NEW c \in items[v], NEW d \in items[w],
           c.slot = d.slot
    PROVE  v = w /\ c = d
<1>1. c.slot \in Slots /\ c.key \in Keys
  BY DEF OwnInv, TypeOK, Records
<1>2. PICK p, q : p = <<"put", v, c.key>> /\ q = <<"put", w, d.key>>
  OBVIOUS
<1>3. Owner(p, c.slot) /\ Owner(q, c.slot)
  BY <1>2 DEF Owner, ByPut
<1>4. p = q
  BY <1>1, <1>3, OnlyOwner DEF OwnInv
<1>5. v = w /\ c.key = d.key
  BY <1>2, <1>4
<1>. QED BY <1>5 DEF OwnInv, KeysApart, OnceEach

LEMMA PutSlotNotIndexed ==
    ASSUME OwnInv, NEW w \in Writers, NEW c \in items[w], NEW k \in Keys
    PROVE  index[k] # c.slot
<1>1. c.slot \in Slots
  BY DEF OwnInv, TypeOK, Records
<1>2. PICK p, q : p = <<"put", w, c.key>> /\ q = <<"index", k, 0>>
  OBVIOUS
<1>. SUFFICES ASSUME index[k] = c.slot PROVE FALSE
  OBVIOUS
<1>3. Owner(p, c.slot) /\ Owner(q, c.slot)
  BY <1>2 DEF Owner, ByPut, ByIndex
<1>4. p = q
  BY <1>1, <1>3, OnlyOwner DEF OwnInv
<1>. QED BY <1>2, <1>4

(* A write changes the slots of its records and no others. *)
LEMMA WriteTouches ==
    ASSUME OwnInv, Fitting, NEW w \in Writers, NEW s \in Slots, NEW R \in SUBSET items[w],
           \A d \in items[w] : d.slot # s
    PROVE  /\ ~\E c \in items[w] : s \in Footprint(c)
           /\ Written(R)[s] = content[s]
<1>1. \A c \in items[w] : s \notin Footprint(c)
  BY DEF Fitting, Fits, Footprint
<1>2. ~\E c \in R : {d \in R : s \in Footprint(d)} = {c} /\ c.slot = s
  OBVIOUS
<1>. QED BY <1>1, <1>2 DEF Written

(* A write that is done leaves each slot with its value. *)
LEMMA WriteLands ==
    ASSUME OwnInv, Fitting, NEW w \in Writers, NEW c \in items[w]
    PROVE  Written(items[w])[c.slot] = c.key
<1>1. c.slot \in Slots
  BY DEF OwnInv, TypeOK, Records
<1>2. \A d \in items[w] : d.slot = c.slot => d = c
  BY PutSlotsApart
<1>3. \A d \in items[w] : c.slot \in Footprint(d) <=> d.slot = c.slot
  BY DEF Fitting, Fits, Footprint
<1>4. {d \in items[w] : c.slot \in Footprint(d)} = {c}
  BY <1>2, <1>3
<1>5. (CHOOSE d \in items[w] : d.slot = c.slot) = c
  BY <1>2
<1>. QED BY <1>1, <1>4, <1>5 DEF Written

LEMMA PreparedAlways ==
    ASSUME DataInv, [Next]_vars
    PROVE  Prepared'
<1>0. pc \in [Threads -> Labels] /\ items \in [Writers -> SUBSET Records]
  BY DEF DataInv, OwnInv, TypeOK
<1>r. Evictor \notin Writers /\ Reaper \notin Writers
  BY StoreAssumption DEF Mutators
<1>. SUFFICES ASSUME NEW x \in Writers, NEW r \in items'[x], pc'[x] = "publish"
              PROVE  content'[r.slot] = r.key
  BY DEF Prepared
<1>h. r \in items[x] /\ pc[x] = "publish" => content[r.slot] = r.key
  BY DEF DataInv, Prepared
<1>. USE <1>0, <1>r, <1>h DEF Mutators, Threads
<1>1. ASSUME Tick PROVE content'[r.slot] = r.key
  BY <1>1 DEF Tick, Goto, AfterFlush, putVars
<1>2. ASSUME ReaperWakes PROVE content'[r.slot] = r.key
  BY <1>2 DEF ReaperWakes, Goto, AfterFlush, putVars
<1>3. ASSUME LoopWakes PROVE content'[r.slot] = r.key
  BY <1>3 DEF LoopWakes, Goto, AfterFlush, putVars
<1>30. ASSUME LoopTest PROVE content'[r.slot] = r.key
  BY <1>30 DEF LoopTest, Goto, AfterFlush, putVars
<1>4. ASSUME LoopPick PROVE content'[r.slot] = r.key
  BY <1>4 DEF LoopPick, Goto, AfterFlush, putVars
<1>5. ASSUME NEW w \in Writers, NEW ks \in Batches[w], BatchPut(w, ks) PROVE content'[r.slot] = r.key
  BY <1>5 DEF BatchPut, Goto, AfterFlush, putVars
<1>6. ASSUME NEW w \in Writers, NEW k \in Removals[w], Remove(w, k) PROVE content'[r.slot] = r.key
  BY <1>6 DEF Remove, Goto, AfterFlush, putVars
<1>7. ASSUME NEW w \in Writers, CheckKey(w) PROVE content'[r.slot] = r.key
  BY <1>7 DEF CheckKey, Goto, AfterFlush, putVars
<1>8. ASSUME NEW w \in Writers, BatchAlloc(w) PROVE content'[r.slot] = r.key
  <2>1. content' = content /\ pc'[w] # "publish"
    BY <1>8 DEF BatchAlloc, Goto, NextKey
  <2>2. x # w
    BY <2>1
  <2>3. items'[x] = items[x] /\ pc'[x] = pc[x]
    BY <1>8, <2>2 DEF BatchAlloc, Goto
  <2>. QED BY <2>1, <2>3
<1>9. ASSUME NEW w \in Writers, AllocOk(w) PROVE content'[r.slot] = r.key
  <2>1. content' = content /\ pc'[w] # "publish"
    BY <1>9 DEF AllocOk, Goto, NextKey
  <2>2. x # w
    BY <2>1
  <2>3. items'[x] = items[x] /\ pc'[x] = pc[x]
    BY <1>9, <2>2 DEF AllocOk, Goto
  <2>. QED BY <2>1, <2>3
<1>10. ASSUME NEW w \in Writers, ClimbLadder(w) PROVE content'[r.slot] = r.key
  BY <1>10 DEF ClimbLadder, Goto, AfterFlush, putVars
<1>11. ASSUME NEW w \in Writers, NoSpace(w) PROVE content'[r.slot] = r.key
  <2>1. content' = content /\ pc'[w] # "publish"
    BY <1>11 DEF NoSpace, Goto, NextKey
  <2>2. x # w
    BY <2>1
  <2>3. items'[x] = items[x] /\ pc'[x] = pc[x]
    BY <1>11, <2>2 DEF NoSpace, Goto
  <2>. QED BY <2>1, <2>3
<1>12. ASSUME NEW w \in Writers, WriteStarts(w) PROVE content'[r.slot] = r.key
  <2>1. /\ pc'[w] # "publish" /\ items' = items
    BY <1>12 DEF WriteStarts, Goto, putVars
  <2>2. x # w
    BY <2>1
  <2>3. pc[x] = "publish" /\ r \in items[x]
    BY <1>12, <2>1, <2>2 DEF WriteStarts, Goto
  <2>4. r.slot \in Slots /\ \A d \in items[w] : d.slot # r.slot
    BY <2>2, <2>3, PutSlotsApart DEF DataInv, Records
  <2>5. ~\E c \in items[w] : r.slot \in Footprint(c)
    BY <2>4, WriteTouches DEF DataInv
  <2>6. content'[r.slot] = content[r.slot]
    BY <1>12, <2>4, <2>5 DEF WriteStarts
  <2>. QED BY <2>3, <2>6
<1>13. ASSUME NEW w \in Writers, WriteOk(w) PROVE content'[r.slot] = r.key
  <2>1. content' = Written(items[w]) /\ items' = items /\ (x # w => pc'[x] = pc[x])
    BY <1>13 DEF WriteOk, Goto, putVars
  <2>2. CASE x = w
    <3>1. r \in items[w]
      BY <2>1, <2>2
    <3>. QED BY <2>1, <3>1, WriteLands DEF DataInv
  <2>3. CASE x # w
    <3>1. r \in items[x] /\ pc[x] = "publish"
      BY <2>1, <2>3
    <3>2. r.slot \in Slots /\ \A d \in items[w] : d.slot # r.slot
      BY <2>3, <3>1, PutSlotsApart DEF DataInv, Records
    <3>3. content'[r.slot] = content[r.slot]
      BY <2>1, <3>2, WriteTouches DEF DataInv
    <3>. QED BY <3>1, <3>3
  <2>. QED BY <2>2, <2>3
<1>14. ASSUME NEW w \in Writers, WriteFails(w) PROVE content'[r.slot] = r.key
  <2>1. /\ pc'[w] # "publish" /\ items' = items
    BY <1>14 DEF WriteFails, Goto, putVars
  <2>2. x # w
    BY <2>1
  <2>3. pc[x] = "publish" /\ r \in items[x]
    BY <1>14, <2>1, <2>2 DEF WriteFails, Goto
  <2>4. r.slot \in Slots /\ \A d \in items[w] : d.slot # r.slot
    BY <2>2, <2>3, PutSlotsApart DEF DataInv, Records
  <2>5. PICK done \in SUBSET items[w] : content' = Written(done)
    BY <1>14 DEF WriteFails
  <2>6. content'[r.slot] = content[r.slot]
    BY <2>4, <2>5, WriteTouches DEF DataInv
  <2>. QED BY <2>3, <2>6
<1>15. ASSUME NEW w \in Writers, Unwind(w) PROVE content'[r.slot] = r.key
  BY <1>15 DEF Unwind, Goto, AfterFlush, putVars
<1>16. ASSUME NEW w \in Writers, Publish(w) PROVE content'[r.slot] = r.key
  BY <1>16 DEF Publish, Goto, AfterFlush, putVars
<1>17. ASSUME NEW w \in Writers, ForcePick(w) PROVE content'[r.slot] = r.key
  BY <1>17 DEF ForcePick, Goto, AfterFlush, putVars
<1>18. ASSUME NEW t \in Mutators, SyncRemoveOk(t) PROVE content'[r.slot] = r.key
  BY <1>18 DEF SyncRemoveOk, Goto, AfterFlush, putVars
<1>19. ASSUME NEW t \in Mutators, SyncRemoveFails(t) PROVE content'[r.slot] = r.key
  BY <1>19 DEF SyncRemoveFails, Goto, AfterFlush, putVars
<1>20. ASSUME NEW t \in Mutators, EvictRemove(t) PROVE content'[r.slot] = r.key
  BY <1>20 DEF EvictRemove, Goto, AfterFlush, putVars
<1>21. ASSUME NEW t \in Mutators, EvictEnqueue(t) PROVE content'[r.slot] = r.key
  BY <1>21 DEF EvictEnqueue, Goto, AfterFlush, putVars
<1>22. ASSUME NEW t \in Threads, ReadNow(t) PROVE content'[r.slot] = r.key
  BY <1>22 DEF ReadNow, Goto, AfterFlush, putVars
<1>23. ASSUME NEW t \in Threads, TakeExpired(t) PROVE content'[r.slot] = r.key
  BY <1>23 DEF TakeExpired, Goto, AfterFlush, putVars
<1>24. ASSUME NEW t \in Threads, FreeTaken(t) PROVE content'[r.slot] = r.key
  BY <1>24 DEF FreeTaken, Goto, AfterFlush, putVars
<1>25. ASSUME NEW w \in Writers, TakeAll(w) PROVE content'[r.slot] = r.key
  BY <1>25 DEF TakeAll, Goto, AfterFlush, putVars
<1>26. ASSUME NEW w \in Writers, RemoveSync(w) PROVE content'[r.slot] = r.key
  BY <1>26 DEF RemoveSync, Goto, AfterFlush, putVars
<1>27. ASSUME NEW w \in Writers, RemoveFromIndex(w) PROVE content'[r.slot] = r.key
  BY <1>27 DEF RemoveFromIndex, Goto, AfterFlush, putVars
<1>28. ASSUME NEW w \in Writers, RemoveEnqueue(w) PROVE content'[r.slot] = r.key
  BY <1>28 DEF RemoveEnqueue, Goto, AfterFlush, putVars
<1>29. ASSUME UNCHANGED vars PROVE content'[r.slot] = r.key
  BY <1>29 DEF vars
<1>. QED BY <1>1, <1>2, <1>3, <1>4, <1>5, <1>6, <1>7, <1>8, <1>9, <1>10, <1>11, <1>12, <1>13, <1>14, <1>15,
             <1>16, <1>17, <1>18, <1>19, <1>20, <1>21, <1>22, <1>23, <1>24, <1>25, <1>26, <1>27, <1>28, <1>29,
             <1>30
   DEF Next, Calls, WriterStep, PutStep, EvictStep, FlushStep, RemoveStep, EvictorStep,
       Mutators, Threads

LEMMA IntactAlways ==
    ASSUME DataInv, [Next]_vars
    PROVE  PublishedIntact'
<1>0. /\ index \in [Keys -> Slots \cup {NoSlot}] /\ items \in [Writers -> SUBSET Records]
      /\ todo \in [Writers -> Seq(Keys)] /\ cands \in [Mutators -> SUBSET Records]
      /\ NoSlot \notin Slots
  BY StoreAssumption DEF DataInv, OwnInv, TypeOK
<1>. SUFFICES ASSUME NEW y \in Keys, index'[y] # NoSlot
              PROVE  content'[index'[y]] = y
  BY DEF PublishedIntact, Indexed
<1>h. index[y] # NoSlot => content[index[y]] = y /\ index[y] \in Slots
  BY <1>0 DEF DataInv, PublishedIntact, Indexed
<1>. USE <1>0, <1>h
<1>1. ASSUME Tick PROVE content'[index'[y]] = y
  BY <1>1 DEF Tick
<1>2. ASSUME ReaperWakes PROVE content'[index'[y]] = y
  BY <1>2 DEF ReaperWakes
<1>3. ASSUME LoopWakes PROVE content'[index'[y]] = y
  BY <1>3 DEF LoopWakes
<1>30. ASSUME LoopTest PROVE content'[index'[y]] = y
  BY <1>30 DEF LoopTest
<1>4. ASSUME LoopPick PROVE content'[index'[y]] = y
  BY <1>4 DEF LoopPick
<1>5. ASSUME NEW w \in Writers, NEW ks \in Batches[w], BatchPut(w, ks) PROVE content'[index'[y]] = y
  BY <1>5 DEF BatchPut
<1>6. ASSUME NEW w \in Writers, NEW k \in Removals[w], Remove(w, k) PROVE content'[index'[y]] = y
  BY <1>6 DEF Remove
<1>7. ASSUME NEW w \in Writers, CheckKey(w) PROVE content'[index'[y]] = y
  BY <1>7 DEF CheckKey
<1>8. ASSUME NEW w \in Writers, BatchAlloc(w) PROVE content'[index'[y]] = y
  BY <1>8 DEF BatchAlloc
<1>9. ASSUME NEW w \in Writers, AllocOk(w) PROVE content'[index'[y]] = y
  BY <1>9 DEF AllocOk
<1>10. ASSUME NEW w \in Writers, ClimbLadder(w) PROVE content'[index'[y]] = y
  BY <1>10 DEF ClimbLadder
<1>11. ASSUME NEW w \in Writers, NoSpace(w) PROVE content'[index'[y]] = y
  BY <1>11 DEF NoSpace
<1>12. ASSUME NEW w \in Writers, WriteStarts(w) PROVE content'[index'[y]] = y
  <2>1. index' = index
    BY <1>12 DEF WriteStarts
  <2>2. index[y] \in Slots /\ content[index[y]] = y
    BY <2>1
  <2>3. \A d \in items[w] : d.slot # index[y]
    BY PutSlotNotIndexed DEF DataInv
  <2>4. ~\E c \in items[w] : index[y] \in Footprint(c)
    BY <2>2, <2>3, WriteTouches DEF DataInv
  <2>5. content'[index[y]] = content[index[y]]
    BY <1>12, <2>2, <2>4 DEF WriteStarts
  <2>. QED BY <2>1, <2>2, <2>5
<1>13. ASSUME NEW w \in Writers, WriteOk(w) PROVE content'[index'[y]] = y
  <2>1. index' = index
    BY <1>13 DEF WriteOk
  <2>2. index[y] \in Slots /\ content[index[y]] = y
    BY <2>1
  <2>3. \A d \in items[w] : d.slot # index[y]
    BY PutSlotNotIndexed DEF DataInv
  <2>4. content' = Written(items[w])
    BY <1>13 DEF WriteOk
  <2>5. content'[index[y]] = content[index[y]]
    BY <2>2, <2>3, <2>4, WriteTouches DEF DataInv
  <2>. QED BY <2>1, <2>2, <2>5
<1>14. ASSUME NEW w \in Writers, WriteFails(w) PROVE content'[index'[y]] = y
  <2>1. index' = index
    BY <1>14 DEF WriteFails
  <2>2. index[y] \in Slots /\ content[index[y]] = y
    BY <2>1
  <2>3. \A d \in items[w] : d.slot # index[y]
    BY PutSlotNotIndexed DEF DataInv
  <2>4. PICK done \in SUBSET items[w] : content' = Written(done)
    BY <1>14 DEF WriteFails
  <2>5. content'[index[y]] = content[index[y]]
    BY <2>2, <2>3, <2>4, WriteTouches DEF DataInv
  <2>. QED BY <2>1, <2>2, <2>5
<1>15. ASSUME NEW w \in Writers, Unwind(w) PROVE content'[index'[y]] = y
  BY <1>15 DEF Unwind
<1>16. ASSUME NEW w \in Writers, Publish(w) PROVE content'[index'[y]] = y
  <2>1. PICK c \in items[w] : index' = [index EXCEPT ![c.key] = c.slot]
    BY <1>16 DEF Publish
  <2>2. content' = content /\ pc[w] = "publish"
    BY <1>16 DEF Publish
  <2>3. content[c.slot] = c.key
    BY <2>2 DEF DataInv, Prepared
  <2>. QED BY <2>1, <2>2, <2>3
<1>17. ASSUME NEW w \in Writers, ForcePick(w) PROVE content'[index'[y]] = y
  BY <1>17 DEF ForcePick
<1>18. ASSUME NEW t \in Mutators, SyncRemoveOk(t) PROVE content'[index'[y]] = y
  BY <1>18 DEF SyncRemoveOk
<1>19. ASSUME NEW t \in Mutators, SyncRemoveFails(t) PROVE content'[index'[y]] = y
  BY <1>19 DEF SyncRemoveFails
<1>20. ASSUME NEW t \in Mutators, EvictRemove(t) PROVE content'[index'[y]] = y
  <2>1. PICK c \in cands[t] : index' = [index EXCEPT ![c.key] = NoSlot]
    BY <1>20 DEF EvictRemove
  <2>2. content' = content
    BY <1>20 DEF EvictRemove
  <2>. QED BY <2>1, <2>2
<1>21. ASSUME NEW t \in Mutators, EvictEnqueue(t) PROVE content'[index'[y]] = y
  BY <1>21 DEF EvictEnqueue
<1>22. ASSUME NEW t \in Threads, ReadNow(t) PROVE content'[index'[y]] = y
  BY <1>22 DEF ReadNow
<1>23. ASSUME NEW t \in Threads, TakeExpired(t) PROVE content'[index'[y]] = y
  BY <1>23 DEF TakeExpired
<1>24. ASSUME NEW t \in Threads, FreeTaken(t) PROVE content'[index'[y]] = y
  BY <1>24 DEF FreeTaken
<1>25. ASSUME NEW w \in Writers, TakeAll(w) PROVE content'[index'[y]] = y
  BY <1>25 DEF TakeAll
<1>26. ASSUME NEW w \in Writers, RemoveSync(w) PROVE content'[index'[y]] = y
  BY <1>26 DEF RemoveSync
<1>27. ASSUME NEW w \in Writers, RemoveFromIndex(w) PROVE content'[index'[y]] = y
  <2>1. index' = [index EXCEPT ![Head(todo[w])] = NoSlot] /\ content' = content
    BY <1>27 DEF RemoveFromIndex
  <2>. QED BY <2>1
<1>28. ASSUME NEW w \in Writers, RemoveEnqueue(w) PROVE content'[index'[y]] = y
  BY <1>28 DEF RemoveEnqueue
<1>29. ASSUME UNCHANGED vars PROVE content'[index'[y]] = y
  BY <1>29 DEF vars
<1>. QED BY <1>1, <1>2, <1>3, <1>4, <1>5, <1>6, <1>7, <1>8, <1>9, <1>10, <1>11, <1>12, <1>13, <1>14, <1>15,
             <1>16, <1>17, <1>18, <1>19, <1>20, <1>21, <1>22, <1>23, <1>24, <1>25, <1>26, <1>27, <1>28, <1>29,
             <1>30
   DEF Next, Calls, WriterStep, PutStep, EvictStep, FlushStep, RemoveStep, EvictorStep,
       Mutators, Threads


LEMMA DataInvAlways ==
    ASSUME Apart, OneSize, DataInv, [Next]_vars
    PROVE  DataInv'
<1>1. OwnInv'
  BY OwnInvAlways DEF DataInv
<1>2. Fitting'
  BY FittingAlways DEF DataInv
<1>3. Prepared' /\ PublishedIntact'
  BY PreparedAlways, IntactAlways
<1>. QED BY <1>1, <1>2, <1>3 DEF DataInv

LEMMA InitData == ASSUME Init PROVE DataInv
<1>1. OwnInv
  BY InitOwned
<1>2. \A w \in Writers : todo[w] = <<>> /\ need[w] = <<>> /\ items[w] = {} /\ pc[w] = "idle"
  BY DEF Init, Threads, Mutators
<1>3. Fitting
  BY <1>2 DEF Fitting, Fits, Open, Asks, Needs
<1>4. Prepared
  BY <1>2 DEF Prepared
<1>5. PublishedIntact
  BY DEF Init, PublishedIntact, Indexed
<1>. QED BY <1>1, <1>3, <1>4, <1>5 DEF DataInv

(* A key is in the index only while its own value is in its slot: a write  *)
(* is complete before its key is published, and neither a later write, a   *)
(* failed one nor a flush touches the slot while the key is there.  No     *)
(* batch may mix values that fit a slot with larger ones.                  *)
THEOREM PublishedIntactHolds == Apart /\ OneSize => (Spec => []PublishedIntact)
<1>. SUFFICES ASSUME Apart, OneSize PROVE Spec => []PublishedIntact
  OBVIOUS
<1>1. Init => DataInv
  BY InitData
<1>2. DataInv /\ [Next]_vars => DataInv'
  BY DataInvAlways
<1>3. DataInv => PublishedIntact
  BY DEF DataInv
<1>. QED BY <1>1, <1>2, <1>3, PTL DEF Spec

=============================================================================
