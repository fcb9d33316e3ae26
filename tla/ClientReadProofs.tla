-------------------------- MODULE ClientReadProofs --------------------------
(***************************************************************************)
(* Proofs about ClientRead for any threads, stores, slots, keys, requests  *)
(* and cache capacity.                                                     *)
(*                                                                         *)
(* That a read is honest needs to know of every slot who may write to it   *)
(* next, as long as no eviction has queued the slot a second time:         *)
(*   WritesApart    a slot that is being written is neither free nor       *)
(*                  waiting out its grace period, and is written once;     *)
(*   IndexSound     an indexed slot has its key's bytes and is at rest:    *)
(*                  neither free, nor waiting, nor being written;          *)
(*   WaitingSound   a slot in its grace period waits once, and has a key's *)
(*                  bytes, at rest;                                        *)
(*   KnownSound     so has every place that anyone has a description of,   *)
(*                  or that Meta knows or is about to, unless it lapsed.   *)
(* The argument for the last one is that no step makes a sound place       *)
(* unsound (SoundStays), so that it is enough to look at the new           *)
(* descriptions a step makes.                                              *)
(***************************************************************************)
EXTENDS ClientRead, SequenceTheorems, NaturalsInduction, WellFoundedInduction, TLAPS

BeingWritten(s, l) == \E w \in writing : w.place.store = s /\ w.place.slot = l

AtRest(p) ==
    /\ p.slot \notin free[p.store]
    /\ ~BeingWritten(p.store, p.slot)
    /\ bytes[p.store][p.slot] = p.key

Once(s, l) == <<s, l>> \notin twice

WritesApart ==
    /\ \A w \in writing :
          Once(w.place.store, w.place.slot) =>
             w.place.slot \notin free[w.place.store] /\ pending[w.place.store][w.place.slot] = 0
    /\ \A v, w \in writing :
          /\ v.place.store = w.place.store /\ v.place.slot = w.place.slot
          /\ Once(w.place.store, w.place.slot)
          => v = w

IndexSound ==
    \A s \in Stores, k \in Keys : index[s][k] # None /\ Once(s, index[s][k]) =>
        AtRest(Place(k, s, index[s][k])) /\ pending[s][index[s][k]] = 0

WaitingSound ==
    \A s \in Stores : \A l \in SlotsOf[s] : pending[s][l] # 0 /\ Once(s, l) =>
        pending[s][l] = 1 /\ bytes[s][l] \in Keys /\ AtRest(Place(bytes[s][l], s, l))

Sound(p) == p \in lapsed \/ ~Once(p.store, p.slot) \/ AtRest(p)
SoundPlaces == {p \in Places : Sound(p)}
SoundDescs == {d \in Descs : d.place \in SoundPlaces}

KnownSound ==
    /\ committing \subseteq SoundPlaces /\ retrying \subseteq SoundPlaces
    /\ meta \in [Keys -> SoundPlaces \cup {None}]
    /\ cache \in Seq(SoundDescs)
    /\ held \subseteq SoundDescs
    /\ found \in [Threads -> SUBSET SoundDescs]
    /\ reply \in [Threads -> Seq(SoundDescs)]

(* The stores' state, as functions on the stores. *)
StoreTyped ==
    /\ DOMAIN index = Stores /\ DOMAIN free = Stores
    /\ DOMAIN pending = Stores /\ DOMAIN bytes = Stores
    /\ \A s \in Stores :
          /\ index[s] \in [Keys -> SlotsOf[s] \cup {None}]
          /\ free[s] \subseteq SlotsOf[s] /\ pending[s] \in [SlotsOf[s] -> Nat]
          /\ bytes[s] \in [SlotsOf[s] -> Contents]
    /\ writing \subseteq [place : Places, by : Threads \cup {None}]

SlotInv == StoreTyped /\ WritesApart /\ IndexSound /\ WaitingSound

Bound == IF Capacity = 0 THEN 1 ELSE Capacity

MasterTyped ==
    /\ evicting \subseteq Candidates /\ removing \subseteq Candidates
    /\ registered \subseteq Stores /\ unsynced \subseteq Stores /\ overlooked \subseteq Stores
    /\ addrs \subseteq Stores /\ files \subseteq Stores
    /\ connected \in BOOLEAN
    /\ Len(cache) <= Bound
    /\ lapsed \subseteq Places /\ twice \subseteq Stores \X Nat /\ foreign \subseteq Keys

(* ... a thread that serves a GetByKey knows which. *)
ThreadTyped ==
    /\ pc \in [Threads -> {"idle", "exist", "exist_reply", "lookup", "lookup_reply", "get", "put", "serve"}]
    /\ asked \in [Threads -> Seq(Keys)]
    /\ done \in [Threads -> SUBSET Answers]
    /\ serving \in [Threads -> [store : Stores, key : Keys] \cup {None}]
    /\ \A t \in Threads : pc[t] = "serve" => serving[t] # None

ReadInv == SlotInv /\ MasterTyped /\ ThreadTyped /\ KnownSound /\ ReadsHonest

----------------------------------------------------------------------------
(* Induction and recursion over data, in first-order form *)

(* A set of numbers with 0 and every successor has all of them. *)
LEMMA Induct ==
    ASSUME NEW S, 0 \in S, \A n \in Nat : n \in S => n + 1 \in S
    PROVE  Nat \subseteq S
<1> DEFINE Less == OpToRel(<, Nat)
           T == Nat \ S
<1> SUFFICES ASSUME T # {} PROVE FALSE
  OBVIOUS
<1>1. IsWellFoundedOn(Less, Nat)
  BY NatLessThanWellFounded
<1>2. \A r, s : <<r, s>> \in Less <=> r \in Nat /\ s \in Nat /\ r < s
  BY DEF OpToRel
<1> HIDE DEF Less
<1>3. PICK x \in T : \A y \in T : ~(<<y, x>> \in Less)
  <2> HIDE DEF T
  <2>1. T \subseteq Nat
    BY DEF T
  <2> QED BY <1>1, <2>1, WFMin
<1>4. x \in Nat /\ x # 0 /\ x - 1 \in Nat /\ x - 1 < x /\ (x - 1) + 1 = x
  BY <1>3
<1>5. x - 1 \in T
  BY <1>3, <1>4
<1> QED BY <1>2, <1>3, <1>4, <1>5

(* A function f computes the results of G, from x0, along the first n      *)
(* elements of s.                                                          *)
Along(f, G, x0, s, n) ==
    f[0] = x0 /\ \A i \in 1 .. n : f[i] = G[<<f[i - 1], s[i]>>]

(* A step function on X has results along every sequence.  *)
LEMMA ResultsExist ==
    ASSUME NEW X, NEW E, NEW G \in [X \X E -> X], NEW x0 \in X, NEW s \in Seq(E)
    PROVE  \E f \in [0 .. Len(s) -> X] : Along(f, G, x0, s, Len(s))
<1> DEFINE S == {n \in Nat : n <= Len(s) => \E f \in [0 .. n -> X] : Along(f, G, x0, s, n)}
<1>1. 0 \in S
  <2>1. [i \in 0 .. 0 |-> x0] \in [0 .. 0 -> X]
    OBVIOUS
  <2>2. Along([i \in 0 .. 0 |-> x0], G, x0, s, 0)
    BY DEF Along
  <2> QED BY <2>1, <2>2
<1>2. ASSUME NEW n \in Nat, n \in S PROVE n + 1 \in S
  <2> SUFFICES ASSUME n + 1 <= Len(s)
               PROVE  \E f \in [0 .. n + 1 -> X] : Along(f, G, x0, s, n + 1)
    OBVIOUS
  <2>1. PICK f \in [0 .. n -> X] : Along(f, G, x0, s, n)
    BY <1>2
  <2>2. s[n + 1] \in E
    OBVIOUS
  <2>3. PICK y \in X : y = G[<<f[n], s[n + 1]>>]
    BY <2>2
  <2> DEFINE g == [i \in 0 .. n + 1 |-> IF i = n + 1 THEN y ELSE f[i]]
  <2>4. g \in [0 .. n + 1 -> X]
    BY <2>3
  <2>5. g[0] = x0
    BY <2>1 DEF Along
  <2>6. ASSUME NEW i \in 1 .. n + 1 PROVE g[i] = G[<<g[i - 1], s[i]>>]
    <3>1. g[i - 1] = f[i - 1]
      OBVIOUS
    <3>2. CASE i = n + 1
      <4>1. g[i] = y /\ i - 1 = n
        BY <3>2
      <4> QED BY <2>3, <3>1, <4>1, <3>2
    <3>3. CASE i \in 1 .. n
      <4>1. g[i] = f[i]
        BY <3>3
      <4> QED BY <2>1, <3>1, <3>3, <4>1 DEF Along
    <3> QED BY <3>2, <3>3
  <2> HIDE DEF g
  <2> QED BY <2>4, <2>5, <2>6 DEF Along
<1>3. Nat \subseteq S
  <2> HIDE DEF S
  <2> QED BY <1>1, <1>2, Induct
<1>4. Len(s) \in Nat
  OBVIOUS
<1> QED BY <1>3, <1>4

----------------------------------------------------------------------------
(* The cache and the requests *)

LEMMA SeqOfFunction ==
    ASSUME NEW S, NEW n \in Nat, NEW f \in [1 .. n -> S]
    PROVE  f \in Seq(S) /\ Len(f) = n
OBVIOUS

LEMMA PositionIn ==
    ASSUME NEW c, NEW k, Cached(c, k)
    PROVE  Position(c, k) \in DOMAIN c /\ KeyOf(Entry(c, k)) = k
BY DEF Cached, Position, Entry

(* Taking an entry out leaves entries of the cache, one less of them. *)
LEMMA WithoutIn ==
    ASSUME NEW D, NEW c \in Seq(D), NEW k, Cached(c, k)
    PROVE  /\ Without(c, k) \in Seq(D)
           /\ Len(Without(c, k)) = Len(c) - 1
<1>1. PICK i \in 1 .. Len(c) : i = Position(c, k)
  BY PositionIn
<1>2. /\ SubSeq(c, 1, i - 1) \in Seq(D) /\ Len(SubSeq(c, 1, i - 1)) = i - 1
  BY SubSeqProperties
<1>3. /\ SubSeq(c, i + 1, Len(c)) \in Seq(D) /\ Len(SubSeq(c, i + 1, Len(c))) = Len(c) - i
  BY SubSeqProperties
<1>4. Without(c, k) = SubSeq(c, 1, i - 1) \o SubSeq(c, i + 1, Len(c))
  BY <1>1 DEF Without, RemoveAt
<1>5. PICK u \in Seq(D), v \in Seq(D) :
          u = SubSeq(c, 1, i - 1) /\ v = SubSeq(c, i + 1, Len(c))
  BY <1>2, <1>3
<1>6. Without(c, k) = u \o v /\ Len(u) = i - 1 /\ Len(v) = Len(c) - i
  BY <1>2, <1>3, <1>4, <1>5
<1>7. u \o v \in Seq(D) /\ Len(u \o v) = Len(u) + Len(v)
  BY ConcatProperties
<1> QED BY <1>6, <1>7

(* Room is made by dropping entries, for one more at least. *)
LEMMA EvictIn ==
    ASSUME NEW D, NEW c \in Seq(D), Capacity \in Nat
    PROVE  /\ EvictIfNeeded(c) \in Seq(D)
           /\ Len(EvictIfNeeded(c)) + 1 <= Bound
<1>1. PICK keep \in Nat : keep = IF Capacity = 0 THEN 0 ELSE Capacity - 1
  OBVIOUS
<1>2. keep + 1 = Bound
  BY <1>1 DEF Bound
<1>3. EvictIfNeeded(c) = IF Len(c) > keep THEN SubSeq(c, Len(c) - keep + 1, Len(c)) ELSE c
  BY <1>1 DEF EvictIfNeeded
<1>4. CASE Len(c) > keep
  <2>1. /\ SubSeq(c, Len(c) - keep + 1, Len(c)) \in Seq(D)
        /\ Len(SubSeq(c, Len(c) - keep + 1, Len(c))) = keep
    BY <1>4, SubSeqProperties
  <2> QED BY <1>2, <1>3, <1>4, <2>1
<1>5. CASE ~(Len(c) > keep)
  BY <1>2, <1>3, <1>5
<1> QED BY <1>4, <1>5

(* What is put into the cache is in it, among what was; never too many. *)
LEMMA InsertIn ==
    ASSUME NEW D, NEW c \in Seq(D), Len(c) <= Bound, NEW d \in D, Capacity \in Nat
    PROVE  Insert(c, d) \in Seq(D) /\ Len(Insert(c, d)) <= Bound
<1>0. Bound \in Nat
  BY DEF Bound
<1>1. CASE Cached(c, KeyOf(d))
  <2>1. /\ Without(c, KeyOf(d)) \in Seq(D)
        /\ Len(Without(c, KeyOf(d))) = Len(c) - 1
    BY <1>1, WithoutIn
  <2>2. Insert(c, d) = Append(Without(c, KeyOf(d)), d)
    BY <1>1 DEF Insert
  <2> QED BY <1>0, <2>1, <2>2
<1>2. CASE ~Cached(c, KeyOf(d))
  <2>1. Insert(c, d) = Append(EvictIfNeeded(c), d)
    BY <1>2 DEF Insert
  <2> QED BY <1>0, <2>1, EvictIn
<1> QED BY <1>1, <1>2

LEMMA EntryIn ==
    ASSUME NEW D, NEW c \in Seq(D), NEW k, Cached(c, k)
    PROVE  Entry(c, k) \in D
<1>1. Position(c, k) \in 1 .. Len(c)
  BY PositionIn
<1> QED BY <1>1 DEF Entry

LEMMA LookupIn ==
    ASSUME NEW D, NEW c \in Seq(D), NEW k
    PROVE  Lookup(c, k) \in Seq(D) /\ Len(Lookup(c, k)) = Len(c)
<1>1. CASE Cached(c, k)
  <2>1. Lookup(c, k) = Append(Without(c, k), Entry(c, k))
    BY <1>1 DEF Lookup
  <2> QED BY <1>1, <2>1, WithoutIn, EntryIn
<1>2. CASE ~Cached(c, k)
  BY <1>2 DEF Lookup
<1> QED BY <1>1, <1>2

(* So too when a batch of descriptions is put into it. *)
LEMMA InsertAllIn ==
    ASSUME NEW D, NEW c \in Seq(D), Len(c) <= Bound, NEW ds \in Seq(D), Capacity \in Nat
    PROVE  InsertAll(c, ds) \in Seq(D) /\ Len(InsertAll(c, ds)) <= Bound
<1> DEFINE X == {x \in Seq(D) : Len(x) <= Bound}
           G == [p \in X \X D |-> Insert(p[1], p[2])]
           Rec(a) == a = [i \in 0 .. Len(ds) |-> IF i = 0 THEN c ELSE Insert(a[i - 1], ds[i])]
           after == CHOOSE a : Rec(a)
<1>1. G \in [X \X D -> X]
  BY InsertIn
<1>2. \A x \in X, e \in D : G[<<x, e>>] = Insert(x, e)
  OBVIOUS
<1>3. c \in X
  OBVIOUS
<1> HIDE DEF X, G
<1>4. PICK f \in [0 .. Len(ds) -> X] : Along(f, G, c, ds, Len(ds))
  BY <1>1, <1>3, ResultsExist
<1>5. Rec(f)
  <2>1. ASSUME NEW i \in 0 .. Len(ds), i # 0
        PROVE  f[i] = Insert(f[i - 1], ds[i])
    <3>1. i \in 1 .. Len(ds) /\ i - 1 \in 0 .. Len(ds)
      BY <2>1
    <3>2. f[i - 1] \in X /\ ds[i] \in D
      BY <3>1
    <3> QED BY <1>2, <1>4, <3>1, <3>2 DEF Along
  <2>2. f[0] = c
    BY <1>4 DEF Along
  <2> QED BY <2>1, <2>2
<1>6. Rec(after)
  <2>1. \E a : Rec(a)
    BY <1>5
  <2> HIDE DEF Rec
  <2> QED BY <2>1, Zenon
<1>7. after[Len(ds)] = InsertAll(c, ds)
  BY DEF InsertAll
<1> HIDE DEF after
<1>8. after[Len(ds)] \in X
  <2> DEFINE S == {n \in Nat : n <= Len(ds) => after[n] \in X}
  <2>0. PICK h : h = [i \in 0 .. Len(ds) |-> IF i = 0 THEN c ELSE Insert(after[i - 1], ds[i])]
    OBVIOUS
  <2>1. after = h
    BY <1>6, <2>0
  <2>2. ASSUME NEW i \in 1 .. Len(ds)
        PROVE  after[i] = Insert(after[i - 1], ds[i])
    <3>1. h[i] = Insert(after[i - 1], ds[i])
      BY <2>0
    <3> QED BY <2>1, <3>1
  <2> HIDE DEF Rec
  <2>3. 0 \in S
    <3>1. h[0] = c
      BY <2>0
    <3> QED BY <1>3, <2>1, <3>1
  <2>4. ASSUME NEW n \in Nat, n \in S PROVE n + 1 \in S
    <3> SUFFICES ASSUME n + 1 <= Len(ds) PROVE after[n + 1] \in X
      OBVIOUS
    <3>1. after[n] \in X /\ ds[n + 1] \in D /\ n + 1 \in 1 .. Len(ds) /\ (n + 1) - 1 = n
      BY <2>4
    <3>2. after[n + 1] = Insert(after[n], ds[n + 1])
      BY <2>2, <3>1
    <3>3. G[<<after[n], ds[n + 1]>>] \in X
      BY <1>1, <3>1
    <3> QED BY <1>2, <3>1, <3>2, <3>3
  <2>5. Nat \subseteq S
    <3> HIDE DEF S
    <3> QED BY <2>3, <2>4, Induct
  <2> QED BY <2>5
<1> QED BY <1>7, <1>8 DEF X

(* A lookup only moves entries. *)
LEMMA BatchLookupIn ==
    ASSUME NEW D, NEW c \in Seq(D), NEW K, NEW ks \in Seq(K)
    PROVE  BatchLookup(c, ks) \in Seq(D) /\ Len(BatchLookup(c, ks)) = Len(c)
<1> DEFINE X == {x \in Seq(D) : Len(x) = Len(c)}
           G == [p \in X \X K |-> Lookup(p[1], p[2])]
           Rec(a) == a = [i \in 0 .. Len(ks) |-> IF i = 0 THEN c ELSE Lookup(a[i - 1], ks[i])]
           after == CHOOSE a : Rec(a)
<1>1. G \in [X \X K -> X]
  BY LookupIn
<1>2. \A x \in X, e \in K : G[<<x, e>>] = Lookup(x, e)
  OBVIOUS
<1>3. c \in X
  OBVIOUS
<1> HIDE DEF X, G
<1>4. PICK f \in [0 .. Len(ks) -> X] : Along(f, G, c, ks, Len(ks))
  BY <1>1, <1>3, ResultsExist
<1>5. Rec(f)
  <2>1. ASSUME NEW i \in 0 .. Len(ks), i # 0
        PROVE  f[i] = Lookup(f[i - 1], ks[i])
    <3>1. i \in 1 .. Len(ks) /\ i - 1 \in 0 .. Len(ks)
      BY <2>1
    <3>2. f[i - 1] \in X /\ ks[i] \in K
      BY <3>1
    <3> QED BY <1>2, <1>4, <3>1, <3>2 DEF Along
  <2>2. f[0] = c
    BY <1>4 DEF Along
  <2> QED BY <2>1, <2>2
<1>6. Rec(after)
  <2>1. \E a : Rec(a)
    BY <1>5
  <2> HIDE DEF Rec
  <2> QED BY <2>1, Zenon
<1>7. after[Len(ks)] = BatchLookup(c, ks)
  BY DEF BatchLookup
<1> HIDE DEF after
<1>8. after[Len(ks)] \in X
  <2> DEFINE S == {n \in Nat : n <= Len(ks) => after[n] \in X}
  <2>0. PICK h : h = [i \in 0 .. Len(ks) |-> IF i = 0 THEN c ELSE Lookup(after[i - 1], ks[i])]
    OBVIOUS
  <2>1. after = h
    BY <1>6, <2>0
  <2>2. ASSUME NEW i \in 1 .. Len(ks)
        PROVE  after[i] = Lookup(after[i - 1], ks[i])
    <3>1. h[i] = Lookup(after[i - 1], ks[i])
      BY <2>0
    <3> QED BY <2>1, <3>1
  <2> HIDE DEF Rec
  <2>3. 0 \in S
    <3>1. h[0] = c
      BY <2>0
    <3> QED BY <1>3, <2>1, <3>1
  <2>4. ASSUME NEW n \in Nat, n \in S PROVE n + 1 \in S
    <3> SUFFICES ASSUME n + 1 <= Len(ks) PROVE after[n + 1] \in X
      OBVIOUS
    <3>1. after[n] \in X /\ ks[n + 1] \in K /\ n + 1 \in 1 .. Len(ks) /\ (n + 1) - 1 = n
      BY <2>4
    <3>2. after[n + 1] = Lookup(after[n], ks[n + 1])
      BY <2>2, <3>1
    <3>3. G[<<after[n], ks[n + 1]>>] \in X
      BY <1>1, <3>1
    <3> QED BY <1>2, <3>1, <3>2, <3>3
  <2>5. Nat \subseteq S
    <3> HIDE DEF S
    <3> QED BY <2>3, <2>4, Induct
  <2> QED BY <2>5
<1> QED BY <1>7, <1>8 DEF X

(* The keys of a request that are in S are in S. *)
LEMMA AmongIn ==
    ASSUME NEW K, NEW ks \in Seq(K), NEW T
    PROVE  Among(ks, T) \in Seq(T)
<1> DEFINE X == Seq(T)
           G == [p \in X \X K |-> IF p[2] \in T THEN Append(p[1], p[2]) ELSE p[1]]
           Rec(a) == a = [i \in 0 .. Len(ks) |-> IF i = 0 THEN <<>> ELSE IF ks[i] \in T THEN Append(a[i - 1], ks[i]) ELSE a[i - 1]]
           upTo == CHOOSE a : Rec(a)
<1>1. G \in [X \X K -> X]
  OBVIOUS
<1>2. \A x \in X, e \in K : G[<<x, e>>] = IF e \in T THEN Append(x, e) ELSE x
  OBVIOUS
<1>3. <<>> \in X
  OBVIOUS
<1> HIDE DEF X, G
<1>4. PICK f \in [0 .. Len(ks) -> X] : Along(f, G, <<>>, ks, Len(ks))
  BY <1>1, <1>3, ResultsExist
<1>5. Rec(f)
  <2>1. ASSUME NEW i \in 0 .. Len(ks), i # 0
        PROVE  f[i] = IF ks[i] \in T THEN Append(f[i - 1], ks[i]) ELSE f[i - 1]
    <3>1. i \in 1 .. Len(ks) /\ i - 1 \in 0 .. Len(ks)
      BY <2>1
    <3>2. f[i - 1] \in X /\ ks[i] \in K
      BY <3>1
    <3> QED BY <1>2, <1>4, <3>1, <3>2 DEF Along
  <2>2. f[0] = <<>>
    BY <1>4 DEF Along
  <2> QED BY <2>1, <2>2
<1>6. Rec(upTo)
  <2>1. \E a : Rec(a)
    BY <1>5
  <2> HIDE DEF Rec
  <2> QED BY <2>1, Zenon
<1>7. upTo[Len(ks)] = Among(ks, T)
  BY DEF Among
<1> HIDE DEF upTo
<1>8. upTo[Len(ks)] \in X
  <2> DEFINE S == {n \in Nat : n <= Len(ks) => upTo[n] \in X}
  <2>0. PICK h : h = [i \in 0 .. Len(ks) |-> IF i = 0 THEN <<>> ELSE IF ks[i] \in T THEN Append(upTo[i - 1], ks[i]) ELSE upTo[i - 1]]
    OBVIOUS
  <2>1. upTo = h
    BY <1>6, <2>0
  <2>2. ASSUME NEW i \in 1 .. Len(ks)
        PROVE  upTo[i] = IF ks[i] \in T THEN Append(upTo[i - 1], ks[i]) ELSE upTo[i - 1]
    <3>1. h[i] = IF ks[i] \in T THEN Append(upTo[i - 1], ks[i]) ELSE upTo[i - 1]
      BY <2>0
    <3> QED BY <2>1, <3>1
  <2> HIDE DEF Rec
  <2>3. 0 \in S
    <3>1. h[0] = <<>>
      BY <2>0
    <3> QED BY <1>3, <2>1, <3>1
  <2>4. ASSUME NEW n \in Nat, n \in S PROVE n + 1 \in S
    <3> SUFFICES ASSUME n + 1 <= Len(ks) PROVE upTo[n + 1] \in X
      OBVIOUS
    <3>1. upTo[n] \in X /\ ks[n + 1] \in K /\ n + 1 \in 1 .. Len(ks) /\ (n + 1) - 1 = n
      BY <2>4
    <3>2. upTo[n + 1] = IF ks[n + 1] \in T THEN Append(upTo[n], ks[n + 1]) ELSE upTo[n]
      BY <2>2, <3>1
    <3>3. G[<<upTo[n], ks[n + 1]>>] \in X
      BY <1>1, <3>1
    <3> QED BY <1>2, <3>1, <3>2, <3>3
  <2>5. Nat \subseteq S
    <3> HIDE DEF S
    <3> QED BY <2>3, <2>4, Induct
  <2> QED BY <2>5
<1> QED BY <1>7, <1>8 DEF X

----------------------------------------------------------------------------
(* Slots: who may write where *)

LEMMA PlaceFacts ==
    /\ \A p \in Places : /\ p.key \in Keys /\ p.store \in Stores
                         /\ p.slot \in SlotsOf[p.store] /\ p.slot \in Nat
                         /\ p = Place(p.key, p.store, p.slot)
                         /\ p # None
    /\ \A k \in Keys, s \in Stores : \A l \in SlotsOf[s] : Place(k, s, l) \in Places
    /\ \A s \in Stores : \A l \in SlotsOf[s] : l \in Nat /\ l # None
<1>1. \A s \in Stores : \A l \in SlotsOf[s] : l \in Nat /\ l # None
  BY ClientAssumption
<1>2. \A k \in Keys, s \in Stores : \A l \in SlotsOf[s] : Place(k, s, l) \in Places
  BY DEF Places, Place
<1>3. ASSUME NEW p \in Places
      PROVE  /\ p.key \in Keys /\ p.store \in Stores
             /\ p.slot \in SlotsOf[p.store]
             /\ p = Place(p.key, p.store, p.slot)
  BY DEF Places, Place
<1>4. ASSUME NEW p \in Places PROVE p # None
  <2>1. p \in [key : Keys, store : Stores, slot : Nat]
    BY <1>1, <1>3 DEF Place
  <2> QED BY <2>1, ClientAssumption
<1> QED BY <1>1, <1>2, <1>3, <1>4

(* The fields of the record of a place. *)
LEMMA PlaceFields ==
    ASSUME NEW k, NEW s, NEW l
    PROVE  Place(k, s, l).key = k /\ Place(k, s, l).store = s /\ Place(k, s, l).slot = l
BY DEF Place

(* Every step leaves the slots alone or is one of five. *)
LEMMA StoreMoves ==
    ASSUME Next
    PROVE  \/ UNCHANGED <<store, lapsed, twice>>
           \/ \E s \in Stores, k \in Keys, by \in Threads \cup {None} :
                 StartWrite(s, k, by) /\ UNCHANGED <<lapsed, twice>>
           \/ \E w \in writing : Publish(w) /\ UNCHANGED <<lapsed, twice>>
           \/ \E c \in removing : Unindex(c)
           \/ \E s \in Stores : \E l \in SlotsOf[s] : Reclaim(s, l)
           \/ \E s \in Stores : StoreRestarts(s)
<1>1. ASSUME NEW s \in Stores, StoreStep(s)
      PROVE  \/ UNCHANGED <<store, lapsed, twice>>
             \/ \E k \in Keys : StartWrite(s, k, None) /\ UNCHANGED <<lapsed, twice>>
             \/ \E l \in SlotsOf[s] : Reclaim(s, l)
             \/ StoreRestarts(s)
  <2>1. ASSUME NEW k \in Keys, PutElsewhere(s, k)
        PROVE  StartWrite(s, k, None) /\ UNCHANGED <<lapsed, twice>>
    BY <2>1 DEF PutElsewhere, ghost
  <2>2. ASSUME NEW k \in Keys, NEW e \in Evictors[s], GetLRUCandidates(s, k, e)
        PROVE  UNCHANGED <<store, lapsed, twice>>
    BY <2>2 DEF GetLRUCandidates, ghost
  <2>3. ASSUME FullResync(s) PROVE UNCHANGED <<store, lapsed, twice>>
    BY <2>3 DEF FullResync
  <2> QED BY <1>1, <2>1, <2>2, <2>3 DEF StoreStep
<1>2. ASSUME NEW w \in writing, PublishElsewhere(w)
      PROVE  Publish(w) /\ UNCHANGED <<lapsed, twice>>
  BY <1>2 DEF PublishElsewhere, ghost
<1>3. ASSUME NEW c \in evicting, SyncRemove(c) \/ SyncRemoveSkipped(c) \/ SyncRemoveFails(c)
      PROVE  UNCHANGED <<store, lapsed, twice>>
  BY <1>3 DEF SyncRemove, SyncRemoveSkipped, SyncRemoveFails, ghost
<1>4. ASSUME NEW p \in committing, CommitSkipped(p) \/ CommitOk(p) \/ CommitFails(p)
      PROVE  UNCHANGED <<store, lapsed, twice>>
  BY <1>4 DEF CommitSkipped, CommitOk, CommitFails, ghost
<1>5. ASSUME NEW p \in retrying, RetryOk(p) \/ RetryFails(p)
      PROVE  UNCHANGED <<store, lapsed, twice>>
  BY <1>5 DEF RetryOk, RetryFails, ghost
<1>6. ASSUME MetaRestarts \/ Reconnect PROVE UNCHANGED <<store, lapsed, twice>>
  BY <1>6 DEF MetaRestarts, Reconnect, ghost
<1>7. ASSUME NEW t \in Threads, ThreadStep(t)
      PROVE  \/ UNCHANGED <<store, lapsed, twice>>
             \/ \E s \in Stores, k \in Keys : StartWrite(s, k, t) /\ UNCHANGED <<lapsed, twice>>
             \/ \E w \in writing : Publish(w) /\ UNCHANGED <<lapsed, twice>>
  <2>0. Home \in Stores
    BY ClientAssumption
  <2>1. ASSUME NEW k \in Keys, BatchPut(t, k)
        PROVE  StartWrite(Home, k, t) /\ UNCHANGED <<lapsed, twice>>
    BY <2>1 DEF BatchPut, ghost
  <2>2. ASSUME PutReturns(t)
        PROVE  \E w \in writing : Publish(w) /\ UNCHANGED <<lapsed, twice>>
    BY <2>2 DEF PutReturns, ghost
  <2>3. ASSUME NEW ks \in Requests, BatchExist(t, ks) \/ BatchGetSync(t, ks)
        PROVE  UNCHANGED <<store, lapsed, twice>>
    BY <2>3 DEF BatchExist, BatchGetSync, ghost
  <2>4. ASSUME NEW k \in Keys, PutExisting(t, k) PROVE UNCHANGED <<store, lapsed, twice>>
    BY <2>4 DEF PutExisting, ghost
  <2>5. ASSUME MetaAnswers(t) \/ MetaReplied(t) \/ MetaFails(t) \/ NotConnected(t)
        PROVE  UNCHANGED <<store, lapsed, twice>>
    BY <2>5 DEF MetaAnswers, MetaReplied, MetaFails, NotConnected, ghost
  <2>6. ASSUME BatchGet(t) \/ GetReturns(t) \/ GetLookup(t) PROVE UNCHANGED <<store, lapsed, twice>>
    BY <2>6 DEF BatchGet, GetReturns, GetLookup, ghost
  <2>7. ASSUME ReadLocal(t) \/ ReadNode(t) PROVE UNCHANGED <<store, lapsed, twice>>
    BY <2>7 DEF ReadLocal, ReadNode, Read, Finish, ghost
  <2>8. ASSUME NEW s \in Stores, ReadRemote(t, s) PROVE UNCHANGED <<store, lapsed, twice>>
    BY <2>8 DEF ReadRemote, Read, Finish, ghost
  <2>9. ASSUME NEW s \in Stores, NEW k \in Keys, ServeByKey(t, s, k)
        PROVE  UNCHANGED <<store, lapsed, twice>>
    BY <2>9 DEF ServeByKey, ghost
  <2> QED BY <1>7, <2>0, <2>1, <2>2, <2>3, <2>4, <2>5, <2>6, <2>7, <2>8, <2>9 DEF ThreadStep
<1> QED BY <1>1, <1>2, <1>3, <1>4, <1>5, <1>6, <1>7 DEF Next

(* A put takes a free slot, which nobody waits for or writes to. *)
LEMMA StartWriteSlots ==
    ASSUME SlotInv, NEW s \in Stores, NEW k \in Keys, NEW by \in Threads \cup {None},
           StartWrite(s, k, by), UNCHANGED <<lapsed, twice>>
    PROVE  /\ SlotInv'
           /\ \A p \in Places : AtRest(p) => AtRest(p)'
<1> USE PlaceFacts, PlaceFields
<1>1. PICK l \in free[s] :
         /\ writing' = writing \cup {[place |-> Place(k, s, l), by |-> by]}
         /\ free' = [free EXCEPT ![s] = @ \ {l}]
         /\ bytes' = [bytes EXCEPT ![s][l] = Torn]
  BY DEF StartWrite
<1>2. UNCHANGED <<index, pending, twice>>
  BY DEF StartWrite
<1>o. \A r, m : Once(r, m)' <=> Once(r, m)
  BY DEF Once
<1>3. l \in SlotsOf[s]
  BY DEF SlotInv, StoreTyped
<1>4. StoreTyped'
  BY <1>1, <1>2, <1>3 DEF SlotInv, StoreTyped, Contents
<1>5. \A r \in Stores : free'[r] \subseteq free[r] /\ pending'[r] = pending[r]
  BY <1>1, <1>2 DEF SlotInv, StoreTyped
<1>6. \A r \in Stores : \A m \in SlotsOf[r] : bytes'[r][m] # bytes[r][m] => r = s /\ m = l
  BY <1>1, <1>3 DEF SlotInv, StoreTyped
<1>7. l \notin free'[s]
  BY <1>1 DEF SlotInv, StoreTyped
<1>8. \A r \in Stores, m \in Nat : BeingWritten(r, m)' => BeingWritten(r, m) \/ (r = s /\ m = l)
  BY <1>1 DEF BeingWritten
<1>9. \A p \in Places : AtRest(p) => AtRest(p)'
  <2> SUFFICES ASSUME NEW p \in Places, AtRest(p) PROVE AtRest(p)'
    OBVIOUS
  <2>1. ~(p.store = s /\ p.slot = l)
    BY DEF AtRest
  <2> QED BY <1>5, <1>6, <1>8, <2>1 DEF AtRest
<1>10. Once(s, l) => pending[s][l] = 0
  <2>1. ASSUME Once(s, l), pending[s][l] # 0 PROVE FALSE
    <3>1. PICK j \in Keys : AtRest(Place(j, s, l))
      BY <1>3, <2>1 DEF SlotInv, WaitingSound
    <3> QED BY <3>1 DEF AtRest
  <2> QED BY <2>1
<1>11. \A w \in writing : Once(s, l) => ~(w.place.store = s /\ w.place.slot = l)
  BY DEF SlotInv, WritesApart
<1>12. WritesApart'
  <2>1. ASSUME NEW w \in writing', Once(w.place.store, w.place.slot)
        PROVE  /\ w.place.slot \notin free'[w.place.store]
               /\ pending'[w.place.store][w.place.slot] = 0
    <3>1. CASE w \in writing
      <4>1. w.place.store \in Stores
        BY <3>1 DEF SlotInv, StoreTyped
      <4> QED BY <2>1, <3>1, <4>1, <1>5 DEF SlotInv, WritesApart
    <3>2. CASE w = [place |-> Place(k, s, l), by |-> by]
      BY <2>1, <3>2, <1>2, <1>7, <1>10
    <3> QED BY <1>1, <3>1, <3>2
  <2>2. ASSUME NEW v \in writing', NEW w \in writing',
               v.place.store = w.place.store, v.place.slot = w.place.slot,
               Once(w.place.store, w.place.slot)
        PROVE  v = w
    BY <1>1, <1>11, <2>2 DEF SlotInv, WritesApart
  <2> QED BY <1>o, <2>1, <2>2 DEF WritesApart
<1>13. IndexSound'
  <2> SUFFICES ASSUME NEW r \in Stores, NEW j \in Keys, index[r][j] # None, Once(r, index[r][j])
               PROVE  AtRest(Place(j, r, index[r][j]))' /\ pending[r][index[r][j]] = 0
    BY <1>2, <1>o DEF IndexSound
  <2>1. PICK m \in SlotsOf[r] : m = index[r][j]
    BY DEF SlotInv, StoreTyped
  <2>2. AtRest(Place(j, r, m)) /\ pending[r][m] = 0
    BY <2>1 DEF SlotInv, IndexSound
  <2>3. AtRest(Place(j, r, m))'
    BY <1>9, <2>2
  <2> QED BY <1>2, <2>1, <2>2, <2>3
<1>14. WaitingSound'
  <2> SUFFICES ASSUME NEW r \in Stores, NEW m \in SlotsOf[r], pending[r][m] # 0, Once(r, m)
               PROVE  pending[r][m] = 1 /\ bytes'[r][m] \in Keys /\ AtRest(Place(bytes[r][m], r, m))'
    BY <1>2, <1>o DEF WaitingSound
  <2>1. PICK j \in Keys : j = bytes[r][m] /\ AtRest(Place(j, r, m)) /\ pending[r][m] = 1
    BY DEF SlotInv, WaitingSound
  <2>2. AtRest(Place(j, r, m))'
    BY <1>9, <2>1
  <2>3. bytes'[r][m] = j
    BY <2>2 DEF AtRest
  <2> QED BY <2>1, <2>2, <2>3
<1> QED BY <1>4, <1>9, <1>12, <1>13, <1>14 DEF SlotInv

(* A write that ends leaves its key's bytes in a slot of its own. *)
LEMMA PublishSlots ==
    ASSUME SlotInv, NEW w \in writing, Publish(w), UNCHANGED <<lapsed, twice>>
    PROVE  /\ SlotInv'
           /\ \A p \in Places : AtRest(p) => AtRest(p)'
           /\ w.place \in Places /\ (Once(w.place.store, w.place.slot) => AtRest(w.place)')
<1> USE PlaceFacts, PlaceFields
<1>1. PICK p \in Places : p = w.place
  BY DEF SlotInv, StoreTyped
<1>2. /\ writing' = writing \ {w}
      /\ bytes' = [bytes EXCEPT ![p.store][p.slot] = p.key]
      /\ index' = [index EXCEPT ![p.store][p.key] = p.slot]
      /\ UNCHANGED <<free, pending>>
  BY <1>1 DEF Publish
<1>o. \A r, m : Once(r, m)' <=> Once(r, m)
  BY DEF Once
<1>3. StoreTyped'
  BY <1>2 DEF SlotInv, StoreTyped, Contents
<1>4. \A r \in Stores : \A m \in SlotsOf[r] :
         bytes'[r][m] # bytes[r][m] => r = p.store /\ m = p.slot
  BY <1>2 DEF SlotInv, StoreTyped
<1>5. \A r \in Stores, m \in Nat : BeingWritten(r, m)' => BeingWritten(r, m)
  BY <1>2 DEF BeingWritten
<1>6. BeingWritten(p.store, p.slot)
  BY <1>1 DEF BeingWritten
<1>7. \A q \in Places : AtRest(q) => AtRest(q)'
  <2> SUFFICES ASSUME NEW q \in Places, AtRest(q) PROVE AtRest(q)'
    OBVIOUS
  <2>1. ~(q.store = p.store /\ q.slot = p.slot)
    BY <1>6 DEF AtRest
  <2> QED BY <1>2, <1>4, <1>5, <2>1 DEF AtRest
<1>8. Once(p.store, p.slot) => p.slot \notin free[p.store] /\ pending[p.store][p.slot] = 0
  BY <1>1 DEF SlotInv, WritesApart
<1>9. Once(p.store, p.slot) => AtRest(p)'
  <2>1. Once(p.store, p.slot) => ~BeingWritten(p.store, p.slot)'
    BY <1>1, <1>2 DEF SlotInv, WritesApart, BeingWritten
  <2>2. bytes'[p.store][p.slot] = p.key
    BY <1>2 DEF SlotInv, StoreTyped
  <2> QED BY <1>2, <1>8, <2>1, <2>2 DEF AtRest
<1>10. WritesApart'
  BY <1>2, <1>o DEF SlotInv, WritesApart
<1>11. IndexSound'
  <2> SUFFICES ASSUME NEW r \in Stores, NEW j \in Keys, NEW m, m = index'[r][j], m # None, Once(r, m)
               PROVE  AtRest(Place(j, r, m))' /\ pending[r][m] = 0
    BY <1>2, <1>o DEF IndexSound
  <2>1. CASE r = p.store /\ j = p.key
    <3>1. m = p.slot
      BY <1>2, <2>1 DEF SlotInv, StoreTyped
    <3>2. p = Place(j, r, m)
      BY <2>1, <3>1
    <3> QED BY <1>8, <1>9, <2>1, <3>1, <3>2
  <2>2. CASE ~(r = p.store /\ j = p.key)
    <3>1. m = index[r][j] /\ m \in SlotsOf[r]
      BY <1>2, <2>2 DEF SlotInv, StoreTyped
    <3>2. AtRest(Place(j, r, m)) /\ pending[r][m] = 0
      BY <3>1 DEF SlotInv, IndexSound
    <3> QED BY <1>7, <3>1, <3>2
  <2> QED BY <2>1, <2>2
<1>12. WaitingSound'
  <2> SUFFICES ASSUME NEW r \in Stores, NEW m \in SlotsOf[r], pending[r][m] # 0, Once(r, m)
               PROVE  pending[r][m] = 1 /\ bytes'[r][m] \in Keys /\ AtRest(Place(bytes[r][m], r, m))'
    BY <1>2, <1>o DEF WaitingSound
  <2>1. PICK j \in Keys : j = bytes[r][m] /\ AtRest(Place(j, r, m)) /\ pending[r][m] = 1
    BY DEF SlotInv, WaitingSound
  <2>2. AtRest(Place(j, r, m))'
    BY <1>7, <2>1
  <2>3. bytes'[r][m] = j
    BY <2>2 DEF AtRest
  <2> QED BY <2>1, <2>2, <2>3
<1> QED BY <1>1, <1>3, <1>7, <1>9, <1>10, <1>11, <1>12 DEF SlotInv

(* An evicted key's slot starts to wait with the key's bytes in it, unless *)
(* the key was no longer there.                                            *)
LEMMA UnindexSlots ==
    ASSUME SlotInv, twice \subseteq Stores \X Nat, NEW c \in Candidates, Unindex(c)
    PROVE  /\ SlotInv'
           /\ \A p \in Places : AtRest(p) => AtRest(p)'
           /\ UNCHANGED lapsed /\ twice \subseteq twice' /\ twice' \subseteq Stores \X Nat
<1> USE PlaceFacts, PlaceFields
<1>k. PICK k \in Keys, s \in Stores : k = c.place.key /\ s = c.place.store
  BY DEF Candidates
<1>l. PICK l \in SlotsOf[s] : l = c.place.slot
  BY <1>k DEF Candidates
<1>1. /\ pending' = [pending EXCEPT ![s][l] = @ + 1]
      /\ index' = [index EXCEPT ![s][k] = None]
      /\ twice' = IF index[s][k] = l THEN twice ELSE twice \cup {<<s, l>>}
      /\ UNCHANGED <<free, bytes, writing, lapsed>>
  BY <1>k, <1>l DEF Unindex
<1>2. StoreTyped'
  <2>1. pending[s][l] + 1 \in Nat
    BY DEF SlotInv, StoreTyped
  <2> QED BY <1>1, <2>1 DEF SlotInv, StoreTyped
<1>3. \A p : AtRest(p)' <=> AtRest(p)
  BY <1>1 DEF AtRest, BeingWritten
<1>4. \A r \in Stores : \A m \in SlotsOf[r] : pending'[r][m] = pending[r][m] \/ (r = s /\ m = l)
  BY <1>1 DEF SlotInv, StoreTyped
<1>5. \A r, m : Once(r, m)' => Once(r, m) /\ (r = s /\ m = l => index[s][k] = l)
  BY <1>1 DEF Once
<1>6. ASSUME index[s][k] = l, Once(s, l)
      PROVE  AtRest(Place(k, s, l)) /\ pending[s][l] = 0 /\ pending'[s][l] = 1
  <2>1. AtRest(Place(k, s, l)) /\ pending[s][l] = 0
    BY <1>6 DEF SlotInv, IndexSound
  <2>2. pending'[s][l] = 0 + 1
    BY <1>1, <2>1 DEF SlotInv, StoreTyped
  <2> QED BY <2>1, <2>2
<1>7. WritesApart'
  <2>1. ASSUME NEW w \in writing, Once(w.place.store, w.place.slot)'
        PROVE  /\ w.place.slot \notin free[w.place.store]
               /\ pending'[w.place.store][w.place.slot] = 0
    <3>1. w.place \in Places
      BY DEF SlotInv, StoreTyped
    <3>2. Once(w.place.store, w.place.slot)
      BY <1>5, <2>1
    <3>3. w.place.slot \notin free[w.place.store] /\ pending[w.place.store][w.place.slot] = 0
      BY <3>2 DEF SlotInv, WritesApart
    <3>4. ASSUME w.place.store = s, w.place.slot = l PROVE FALSE
      <4>1. index[s][k] = l /\ Once(s, l)
        BY <1>5, <2>1, <3>2, <3>4
      <4> QED BY <1>6, <3>4, <4>1 DEF AtRest, BeingWritten
    <3> QED BY <1>4, <3>1, <3>3, <3>4
  <2>2. \A v, w \in writing :
           /\ v.place.store = w.place.store /\ v.place.slot = w.place.slot
           /\ Once(w.place.store, w.place.slot)'
           => v = w
    BY <1>5 DEF SlotInv, WritesApart
  <2> QED BY <1>1, <2>1, <2>2 DEF WritesApart
<1>8. IndexSound'
  <2> SUFFICES ASSUME NEW r \in Stores, NEW j \in Keys, NEW m, m = index'[r][j], m # None, Once(r, m)'
               PROVE  AtRest(Place(j, r, m))' /\ pending'[r][m] = 0
    BY DEF IndexSound
  <2>1. m = index[r][j] /\ ~(r = s /\ j = k) /\ m \in SlotsOf[r]
    BY <1>1 DEF SlotInv, StoreTyped
  <2>2. Once(r, m)
    BY <1>5
  <2>3. AtRest(Place(j, r, m)) /\ pending[r][m] = 0
    BY <2>1, <2>2 DEF SlotInv, IndexSound
  <2>4. ASSUME r = s, m = l PROVE FALSE
    <3>1. AtRest(Place(k, s, l))
      BY <1>5, <1>6, <2>2, <2>4
    <3> QED BY <2>1, <2>3, <2>4, <3>1 DEF AtRest
  <2> QED BY <1>3, <1>4, <2>1, <2>3, <2>4
<1>9. WaitingSound'
  <2> SUFFICES ASSUME NEW r \in Stores, NEW m \in SlotsOf[r], pending'[r][m] # 0, Once(r, m)'
               PROVE  /\ pending'[r][m] = 1 /\ bytes[r][m] \in Keys
                      /\ AtRest(Place(bytes[r][m], r, m))
    BY <1>1, <1>3 DEF WaitingSound
  <2>1. Once(r, m)
    BY <1>5
  <2>2. CASE ~(r = s /\ m = l)
    BY <1>4, <2>1, <2>2 DEF SlotInv, WaitingSound
  <2>3. CASE r = s /\ m = l
    <3>1. AtRest(Place(k, s, l)) /\ pending'[s][l] = 1
      BY <1>5, <1>6, <2>1, <2>3
    <3>2. bytes[s][l] = k
      BY <3>1 DEF AtRest
    <3> QED BY <2>3, <3>1, <3>2
  <2> QED BY <2>2, <2>3
<1>10. <<s, l>> \in Stores \X Nat
  OBVIOUS
<1> QED BY <1>1, <1>2, <1>3, <1>7, <1>8, <1>9, <1>10 DEF SlotInv

(* A slot whose grace period ends becomes free; its place lapses. *)
LEMMA ReclaimSlots ==
    ASSUME SlotInv, NEW s \in Stores, NEW l \in SlotsOf[s], Reclaim(s, l)
    PROVE  /\ SlotInv'
           /\ \A p \in Places : AtRest(p) => AtRest(p)' \/ p \in lapsed'
           /\ lapsed \subseteq lapsed' /\ lapsed' \subseteq lapsed \cup Places
           /\ UNCHANGED twice
<1> USE PlaceFacts, PlaceFields
<1>1. /\ pending[s][l] > 0
      /\ pending' = [pending EXCEPT ![s][l] = @ - 1]
      /\ free' = [free EXCEPT ![s] = @ \cup {l}]
      /\ lapsed' = lapsed \cup {p \in Places : p.store = s /\ p.slot = l /\ p.key = bytes[s][l]}
      /\ UNCHANGED <<index, bytes, writing, twice>>
  BY DEF Reclaim
<1>o. \A r, m : Once(r, m)' <=> Once(r, m)
  BY <1>1 DEF Once
<1>2. StoreTyped'
  <2>1. pending[s][l] - 1 \in Nat
    BY <1>1 DEF SlotInv, StoreTyped
  <2> QED BY <1>1, <2>1 DEF SlotInv, StoreTyped
<1>3. \A r \in Stores : \A m \in SlotsOf[r] :
         /\ m \in free'[r] => m \in free[r] \/ (r = s /\ m = l)
         /\ pending'[r][m] = pending[r][m] \/ (r = s /\ m = l)
  BY <1>1 DEF SlotInv, StoreTyped
<1>4. ASSUME Once(s, l)
      PROVE  /\ bytes[s][l] \in Keys /\ AtRest(Place(bytes[s][l], s, l))
             /\ pending'[s][l] = 0
  <2>1. pending[s][l] = 1 /\ bytes[s][l] \in Keys /\ AtRest(Place(bytes[s][l], s, l))
    BY <1>1, <1>4 DEF SlotInv, WaitingSound
  <2>2. pending'[s][l] = 1 - 1
    BY <1>1, <2>1 DEF SlotInv, StoreTyped
  <2> QED BY <2>1, <2>2
<1>5. \A p \in Places : AtRest(p) /\ ~(p.store = s /\ p.slot = l) => AtRest(p)'
  BY <1>1, <1>3 DEF AtRest, BeingWritten
<1>6. \A p \in Places : AtRest(p) => AtRest(p)' \/ p \in lapsed'
  <2> SUFFICES ASSUME NEW p \in Places, AtRest(p), p.store = s, p.slot = l
               PROVE  p \in lapsed'
    BY <1>5
  <2>1. p.key = bytes[s][l]
    BY DEF AtRest
  <2> QED BY <1>1, <2>1
<1>7. WritesApart'
  <2>1. ASSUME NEW w \in writing, Once(w.place.store, w.place.slot)
        PROVE  /\ w.place.slot \notin free'[w.place.store]
               /\ pending'[w.place.store][w.place.slot] = 0
    <3>1. w.place \in Places
      BY DEF SlotInv, StoreTyped
    <3>2. w.place.slot \notin free[w.place.store] /\ pending[w.place.store][w.place.slot] = 0
      BY <2>1 DEF SlotInv, WritesApart
    <3>3. ~(w.place.store = s /\ w.place.slot = l)
      BY <1>4, <2>1 DEF AtRest, BeingWritten
    <3> QED BY <1>3, <3>1, <3>2, <3>3
  <2> QED BY <1>1, <1>o, <2>1 DEF SlotInv, WritesApart
<1>8. IndexSound'
  <2> SUFFICES ASSUME NEW r \in Stores, NEW j \in Keys, NEW m, m = index[r][j], m # None, Once(r, m)
               PROVE  AtRest(Place(j, r, m))' /\ pending'[r][m] = 0
    BY <1>1, <1>o DEF IndexSound
  <2>1. AtRest(Place(j, r, m)) /\ pending[r][m] = 0 /\ m \in SlotsOf[r]
    BY DEF SlotInv, IndexSound, StoreTyped
  <2>2. ~(r = s /\ m = l)
    BY <1>1, <2>1
  <2> QED BY <1>3, <1>5, <2>1, <2>2
<1>9. WaitingSound'
  <2> SUFFICES ASSUME NEW r \in Stores, NEW m \in SlotsOf[r], pending'[r][m] # 0, Once(r, m)
               PROVE  /\ pending'[r][m] = 1 /\ bytes[r][m] \in Keys
                      /\ AtRest(Place(bytes[r][m], r, m))'
    BY <1>1, <1>o DEF WaitingSound
  <2>2. pending'[r][m] = pending[r][m] /\ ~(r = s /\ m = l)
    BY <1>3, <1>4
  <2>3. PICK j \in Keys : j = bytes[r][m] /\ AtRest(Place(j, r, m)) /\ pending[r][m] = 1
    BY <2>2 DEF SlotInv, WaitingSound
  <2>4. AtRest(Place(j, r, m))'
    BY <1>5, <2>2, <2>3
  <2> QED BY <1>1, <2>2, <2>3, <2>4 DEF AtRest, BeingWritten
<1> QED BY <1>1, <1>2, <1>6, <1>7, <1>8, <1>9 DEF SlotInv

(* A store that restarts forgets its slots; all of its places lapse. *)
LEMMA RestartSlots ==
    ASSUME SlotInv, NEW s \in Stores, StoreRestarts(s)
    PROVE  /\ SlotInv'
           /\ \A p \in Places : AtRest(p) => AtRest(p)' \/ p \in lapsed'
           /\ \A p \in Places : Once(p.store, p.slot)' => Once(p.store, p.slot) \/ p \in lapsed'
           /\ lapsed \subseteq lapsed' /\ lapsed' \subseteq lapsed \cup Places
           /\ twice' \subseteq twice
<1> USE PlaceFacts, PlaceFields
<1>1. /\ index' = [index EXCEPT ![s] = [k \in Keys |-> None]]
      /\ free' = [free EXCEPT ![s] = SlotsOf[s]]
      /\ pending' = [pending EXCEPT ![s] = [l \in SlotsOf[s] |-> 0]]
      /\ writing' = {w \in writing : w.place.store # s}
      /\ lapsed' = lapsed \cup {p \in Places : p.store = s}
      /\ twice' = {x \in twice : x[1] # s}
      /\ UNCHANGED bytes
  BY DEF StoreRestarts
<1>2. StoreTyped'
  BY <1>1 DEF SlotInv, StoreTyped
<1>3. \A r \in Stores \ {s} : index'[r] = index[r] /\ free'[r] = free[r] /\ pending'[r] = pending[r]
  BY <1>1 DEF SlotInv, StoreTyped
<1>4. /\ \A l \in SlotsOf[s] : pending'[s][l] = 0
      /\ \A k \in Keys : index'[s][k] = None
  BY <1>1 DEF SlotInv, StoreTyped
<1>o. \A r, m : r # s => (Once(r, m)' <=> Once(r, m))
  BY <1>1 DEF Once
<1>5. \A p \in Places : AtRest(p) /\ p.store # s => AtRest(p)'
  BY <1>1, <1>3 DEF AtRest, BeingWritten
<1>6. WritesApart'
  <2>1. ASSUME NEW w \in writing', Once(w.place.store, w.place.slot)'
        PROVE  /\ w.place.slot \notin free'[w.place.store]
               /\ pending'[w.place.store][w.place.slot] = 0
    <3>1. w \in writing /\ w.place.store # s /\ w.place.store \in Stores
      BY <1>1 DEF SlotInv, StoreTyped
    <3> QED BY <1>3, <1>o, <2>1, <3>1 DEF SlotInv, WritesApart
  <2>2. ASSUME NEW v \in writing', NEW w \in writing',
               v.place.store = w.place.store, v.place.slot = w.place.slot,
               Once(w.place.store, w.place.slot)'
        PROVE  v = w
    BY <1>1, <1>o, <2>2 DEF SlotInv, WritesApart
  <2> QED BY <2>1, <2>2 DEF WritesApart
<1>7. IndexSound'
  <2> SUFFICES ASSUME NEW r \in Stores, NEW j \in Keys, NEW m, m = index'[r][j], m # None, Once(r, m)'
               PROVE  AtRest(Place(j, r, m))' /\ pending'[r][m] = 0
    BY DEF IndexSound
  <2>1. r # s /\ m = index[r][j]
    BY <1>3, <1>4
  <2>2. AtRest(Place(j, r, m)) /\ pending[r][m] = 0 /\ m \in SlotsOf[r]
    BY <1>o, <2>1 DEF SlotInv, IndexSound, StoreTyped
  <2> QED BY <1>3, <1>5, <2>1, <2>2
<1>8. WaitingSound'
  <2> SUFFICES ASSUME NEW r \in Stores, NEW m \in SlotsOf[r], pending'[r][m] # 0, Once(r, m)'
               PROVE  /\ pending'[r][m] = 1 /\ bytes[r][m] \in Keys
                      /\ AtRest(Place(bytes[r][m], r, m))'
    BY <1>1 DEF WaitingSound
  <2>1. r # s /\ pending[r][m] = pending'[r][m]
    BY <1>3, <1>4
  <2>2. PICK j \in Keys : j = bytes[r][m] /\ AtRest(Place(j, r, m)) /\ pending[r][m] = 1
    BY <1>o, <2>1 DEF SlotInv, WaitingSound
  <2>3. AtRest(Place(j, r, m))'
    BY <1>5, <2>1, <2>2
  <2> QED BY <1>1, <2>1, <2>2, <2>3 DEF AtRest, BeingWritten
<1>9. \A p \in Places : p.store = s => p \in lapsed'
  BY <1>1
<1> QED BY <1>1, <1>2, <1>5, <1>6, <1>7, <1>8, <1>9, <1>o DEF SlotInv

(* What a step may do to the places: a sound one stays sound. *)
Stays ==
    /\ SoundPlaces \subseteq SoundPlaces'
    /\ SoundDescs \subseteq SoundDescs'
    /\ lapsed \subseteq lapsed' /\ lapsed' \subseteq Places
    /\ \A p \in Places : Once(p.store, p.slot)' => Once(p.store, p.slot) \/ p \in lapsed'
    /\ twice' \subseteq Stores \X Nat

LEMMA SlotsKept ==
    ASSUME SlotInv, UNCHANGED <<store, lapsed, twice>>
    PROVE  SlotInv' /\ \A p : AtRest(p)' <=> AtRest(p)
BY DEF SlotInv, StoreTyped, WritesApart, IndexSound, WaitingSound, AtRest, BeingWritten, Once, store

(* The slots' invariant is inductive, and no step makes a sound place      *)
(* unsound.                                                                *)
LEMMA SoundStays ==
    ASSUME SlotInv, MasterTyped, Next
    PROVE  SlotInv' /\ Stays
<1> DEFINE Kept == /\ SlotInv'
                   /\ \A p \in Places : AtRest(p) => AtRest(p)' \/ p \in lapsed'
                   /\ \A p \in Places : Once(p.store, p.slot)' => Once(p.store, p.slot) \/ p \in lapsed'
                   /\ lapsed \subseteq lapsed' /\ lapsed' \subseteq lapsed \cup Places
                   /\ twice' \subseteq Stores \X Nat
<1>0. lapsed \subseteq Places /\ twice \subseteq Stores \X Nat /\ removing \subseteq Candidates
  BY DEF MasterTyped
<1>a. twice' = twice => \A p \in Places : Once(p.store, p.slot)' => Once(p.store, p.slot)
  BY DEF Once
<1>1. Kept
  <2>1. CASE UNCHANGED <<store, lapsed, twice>>
    BY <1>0, <1>a, <2>1, SlotsKept
  <2>2. ASSUME NEW s \in Stores, NEW k \in Keys, NEW by \in Threads \cup {None},
               StartWrite(s, k, by), UNCHANGED <<lapsed, twice>>
        PROVE  Kept
    BY <1>0, <1>a, <2>2, StartWriteSlots
  <2>3. ASSUME NEW w \in writing, Publish(w), UNCHANGED <<lapsed, twice>>
        PROVE  Kept
    BY <1>0, <1>a, <2>3, PublishSlots
  <2>4. ASSUME NEW c \in removing, Unindex(c)
        PROVE  Kept
    <3>1. /\ SlotInv'
          /\ \A p \in Places : AtRest(p) => AtRest(p)'
          /\ UNCHANGED lapsed /\ twice \subseteq twice' /\ twice' \subseteq Stores \X Nat
      BY <1>0, <2>4, UnindexSlots
    <3>2. \A p \in Places : Once(p.store, p.slot)' => Once(p.store, p.slot)
      BY <3>1 DEF Once
    <3> QED BY <3>1, <3>2
  <2>5. ASSUME NEW s \in Stores, NEW l \in SlotsOf[s], Reclaim(s, l)
        PROVE  Kept
    BY <1>0, <1>a, <2>5, ReclaimSlots
  <2>6. ASSUME NEW s \in Stores, StoreRestarts(s)
        PROVE  Kept
    BY <1>0, <2>6, RestartSlots
  <2> HIDE DEF Kept
  <2> QED BY <2>1, <2>2, <2>3, <2>4, <2>5, <2>6, StoreMoves
<1>2. SoundPlaces \subseteq SoundPlaces'
  <2>1. \A p \in Places : Sound(p) => Sound(p)'
    BY <1>1 DEF Sound
  <2> QED BY <2>1 DEF SoundPlaces
<1>3. SoundDescs \subseteq SoundDescs'
  BY <1>2 DEF SoundDescs
<1> QED BY <1>0, <1>1, <1>2, <1>3 DEF Stays

----------------------------------------------------------------------------
(* Descriptions: what is known is sound *)

LEMMA KnownStays ==
    ASSUME KnownSound, Stays
    PROVE  /\ committing \subseteq SoundPlaces' /\ retrying \subseteq SoundPlaces'
           /\ meta \in [Keys -> SoundPlaces' \cup {None}]
           /\ cache \in Seq(SoundDescs')
           /\ held \subseteq SoundDescs'
           /\ found \in [Threads -> SUBSET SoundDescs']
           /\ reply \in [Threads -> Seq(SoundDescs')]
<1>1. PICK P, Q : P = SoundPlaces /\ Q = SoundPlaces' /\ P \subseteq Q
  BY DEF Stays
<1>2. PICK D, E : D = SoundDescs /\ E = SoundDescs' /\ D \subseteq E
  BY DEF Stays
<1>3. committing \subseteq Q /\ retrying \subseteq Q /\ meta \in [Keys -> Q \cup {None}]
  BY <1>1 DEF KnownSound
<1>4. held \subseteq E /\ found \in [Threads -> SUBSET E]
  BY <1>2 DEF KnownSound
<1>5. cache \in Seq(E)
  BY <1>2, SeqMonotonic DEF KnownSound
<1>6. \A t \in Threads : reply[t] \in Seq(E)
  BY <1>2, SeqMonotonic DEF KnownSound
<1>7. reply \in [Threads -> Seq(E)]
  BY <1>6 DEF KnownSound
<1> QED BY <1>1, <1>2, <1>3, <1>4, <1>5, <1>7

LEMMA HonestStays ==
    ASSUME ReadsHonest, ThreadTyped, Stays, UNCHANGED done
    PROVE  ReadsHonest'
<1> SUFFICES ASSUME NEW t \in Threads, NEW a \in done[t] PROVE Honest(a)'
  BY DEF ReadsHonest
<1>1. Honest(a) /\ a.place \in Places
  BY DEF ReadsHonest, ThreadTyped, Answers
<1> QED BY <1>1 DEF Honest, Stays, Once

(* The place of an indexed key is sound. *)
LEMMA IndexedPlace ==
    ASSUME SlotInv, NEW s \in Stores, NEW k \in Keys, index[s][k] # None
    PROVE  Place(k, s, index[s][k]) \in SoundPlaces
<1>1. index[s][k] \in SlotsOf[s]
  BY DEF SlotInv, StoreTyped
<1>2. Once(s, index[s][k]) => AtRest(Place(k, s, index[s][k]))
  BY DEF SlotInv, IndexSound
<1> QED BY <1>1, <1>2, PlaceFacts, PlaceFields DEF SoundPlaces, Sound

LEMMA SoundDesc ==
    ASSUME NEW p \in SoundPlaces, NEW type \in {"local", "node", "remote"}, NEW addr \in BOOLEAN
    PROVE  Desc(p, type, addr) \in SoundDescs
BY DEF SoundDescs, Descs, Desc, SoundPlaces

Rest == MasterTyped /\ ThreadTyped /\ KnownSound /\ ReadsHonest

(* A step that leaves the client's threads alone. *)
LEMMA OutsideStep ==
    ASSUME ReadInv, Stays, UNCHANGED <<cache, addrs, files, held, thread, serving>>,
           connected' \in BOOLEAN,
           committing' \subseteq SoundPlaces', retrying' \subseteq SoundPlaces',
           meta' \in [Keys -> SoundPlaces' \cup {None}],
           evicting' \subseteq Candidates, removing' \subseteq Candidates,
           registered' \subseteq Stores, unsynced' \subseteq Stores,
           foreign' \subseteq Keys, overlooked' \subseteq Stores
    PROVE  Rest'
<1> USE DEF thread
<1>1. MasterTyped'
  BY DEF ReadInv, MasterTyped, Stays
<1>2. ThreadTyped'
  BY DEF ReadInv, ThreadTyped
<1>3. KnownSound'
  BY KnownStays DEF ReadInv, KnownSound
<1>4. ReadsHonest'
  BY HonestStays DEF ReadInv
<1> QED BY <1>1, <1>2, <1>3, <1>4 DEF Rest

LEMMA EraseKnown ==
    ASSUME ReadInv, Stays, NEW s, NEW k \in Keys, Erase(s, k)
    PROVE  meta' \in [Keys -> SoundPlaces' \cup {None}] /\ foreign' \subseteq Keys
BY KnownStays DEF ReadInv, MasterTyped, Erase

LEMMA StoreStepKnown ==
    ASSUME ReadInv, Stays, NEW s \in Stores, StoreStep(s)
    PROVE  Rest'
<1> USE KnownStays DEF ReadInv, MasterTyped, master, commits, removals, server, client, ghost
<1>1. ASSUME NEW k \in Keys, PutElsewhere(s, k) PROVE Rest'
  BY <1>1, OutsideStep DEF PutElsewhere
<1>2. ASSUME NEW k \in Keys, NEW e \in Evictors[s], GetLRUCandidates(s, k, e) PROVE Rest'
  <2>1. index[s][k] \in SlotsOf[s]
    BY <1>2 DEF GetLRUCandidates, SlotInv, StoreTyped
  <2>2. [place |-> Place(k, s, index[s][k]), by |-> e] \in Candidates
    BY <2>1, PlaceFacts, PlaceFields DEF Candidates
  <2> QED BY <1>2, <2>2, OutsideStep DEF GetLRUCandidates
<1>3. ASSUME NEW l \in SlotsOf[s], Reclaim(s, l) PROVE Rest'
  BY <1>3, OutsideStep DEF Reclaim
<1>4. ASSUME FullResync(s) PROVE Rest'
  <2>1. ASSUME NEW k \in Keys, index[s][k] # None
        PROVE  Place(k, s, index[s][k]) \in SoundPlaces'
    BY <2>1, IndexedPlace DEF Stays
  <2>2. committing' \subseteq SoundPlaces'
    BY <1>4, <2>1 DEF FullResync
  <2> QED BY <1>4, <2>2, OutsideStep DEF FullResync
<1>5. ASSUME StoreRestarts(s) PROVE Rest'
  BY <1>5, OutsideStep DEF StoreRestarts
<1> QED BY <1>1, <1>2, <1>3, <1>4, <1>5 DEF StoreStep

LEMMA PublishedSound ==
    ASSUME SlotInv, NEW w \in writing, Publish(w), UNCHANGED <<lapsed, twice>>
    PROVE  w.place \in SoundPlaces'
<1>1. w.place \in Places /\ (Once(w.place.store, w.place.slot) => AtRest(w.place)')
  BY PublishSlots
<1>2. Once(w.place.store, w.place.slot)' <=> Once(w.place.store, w.place.slot)
  BY DEF Once
<1>3. PICK p \in Places : p = w.place
  BY <1>1
<1>4. Sound(p)'
  BY <1>1, <1>2, <1>3 DEF Sound
<1> QED BY <1>3, <1>4 DEF SoundPlaces

(* An eviction's step. *)
LEMMA EvictionStepKnown ==
    ASSUME ReadInv, Stays,
           \/ \E c \in evicting : SyncRemove(c) \/ SyncRemoveSkipped(c) \/ SyncRemoveFails(c)
           \/ \E c \in removing : Unindex(c)
    PROVE  Rest'
<1> USE KnownStays DEF ReadInv, MasterTyped, master, commits, removals, server, client, ghost
<1>0. ASSUME NEW c \in evicting
      PROVE  c \in Candidates /\ c.place.key \in Keys /\ c.place.store \in Stores
  BY PlaceFacts DEF Candidates
<1>1. ASSUME NEW c \in evicting, SyncRemove(c) PROVE Rest'
  <2>1. meta' \in [Keys -> SoundPlaces' \cup {None}] /\ foreign' \subseteq Keys
    BY <1>0, <1>1, EraseKnown DEF SyncRemove
  <2> QED BY <1>0, <1>1, <2>1, OutsideStep DEF SyncRemove
<1>2. ASSUME NEW c \in evicting, SyncRemoveSkipped(c) PROVE Rest'
  BY <1>0, <1>2, OutsideStep DEF SyncRemoveSkipped
<1>3. ASSUME NEW c \in evicting, SyncRemoveFails(c) PROVE Rest'
  <2>1. meta' \in [Keys -> SoundPlaces' \cup {None}] /\ foreign' \subseteq Keys
    BY <1>0, <1>3, EraseKnown DEF SyncRemoveFails
  <2>2. unsynced' \subseteq Stores
    BY <1>0, <1>3 DEF SyncRemoveFails
  <2> QED BY <1>3, <2>1, <2>2, OutsideStep DEF SyncRemoveFails
<1>4. ASSUME NEW c \in removing, Unindex(c) PROVE Rest'
  BY <1>4, OutsideStep DEF Unindex
<1> QED BY <1>1, <1>2, <1>3, <1>4

LEMMA MetaStepKnown ==
    ASSUME ReadInv, Stays,
           \/ \E w \in writing : PublishElsewhere(w)
           \/ \E p \in committing : CommitSkipped(p) \/ CommitOk(p) \/ CommitFails(p)
           \/ \E p \in retrying : RetryOk(p) \/ RetryFails(p)
           \/ MetaRestarts \/ Reconnect
    PROVE  Rest'
<1> USE KnownStays DEF ReadInv, MasterTyped, master, commits, removals, server, client, ghost
<1>1. ASSUME NEW w \in writing, PublishElsewhere(w) PROVE Rest'
  <2>1. w.place \in SoundPlaces'
    BY <1>1, PublishedSound DEF PublishElsewhere
  <2> QED BY <1>1, <2>1, OutsideStep DEF PublishElsewhere, Publish
<1>0. ASSUME NEW p \in committing \cup retrying
      PROVE  p.key \in Keys /\ p.store \in Stores /\ p \in SoundPlaces'
  BY PlaceFacts DEF KnownSound, SoundPlaces
<1>a. ASSUME NEW p \in committing \cup retrying, meta' \in {meta, [meta EXCEPT ![p.key] = p]}
      PROVE  meta' \in [Keys -> SoundPlaces' \cup {None}]
  <2>1. p.key \in Keys /\ p \in SoundPlaces'
    BY <1>0
  <2>2. meta \in [Keys -> SoundPlaces' \cup {None}]
    BY KnownStays
  <2> HIDE DEF ReadInv, MasterTyped, master, commits, removals, server, client, ghost
  <2> QED BY <1>a, <2>1, <2>2
<1>2. ASSUME NEW p \in committing, CommitSkipped(p) PROVE Rest'
  BY <1>2, OutsideStep DEF CommitSkipped
<1>3. ASSUME NEW p \in committing, CommitOk(p) PROVE Rest'
  <2>1. meta' \in [Keys -> SoundPlaces' \cup {None}]
    BY <1>3, <1>a DEF CommitOk
  <2> QED BY <1>3, <2>1, OutsideStep DEF CommitOk
<1>4. ASSUME NEW p \in committing, CommitFails(p) PROVE Rest'
  <2>1. meta' \in [Keys -> SoundPlaces' \cup {None}]
    BY <1>4, <1>a DEF CommitFails
  <2>2. retrying' \subseteq SoundPlaces' /\ unsynced' \subseteq Stores
    BY <1>0, <1>4 DEF CommitFails
  <2> QED BY <1>4, <2>1, <2>2, OutsideStep DEF CommitFails
<1>5. ASSUME NEW p \in retrying, RetryOk(p) PROVE Rest'
  <2>1. meta' \in [Keys -> SoundPlaces' \cup {None}]
    BY <1>5, <1>a DEF RetryOk
  <2>2. overlooked' \subseteq Stores
    BY <1>0, <1>5 DEF RetryOk
  <2> QED BY <1>5, <2>1, <2>2, OutsideStep DEF RetryOk
<1>6. ASSUME NEW p \in retrying, RetryFails(p) PROVE Rest'
  <2>1. meta' \in [Keys -> SoundPlaces' \cup {None}]
    BY <1>6, <1>a DEF RetryFails
  <2> QED BY <1>6, <2>1, OutsideStep DEF RetryFails
<1>7. ASSUME MetaRestarts PROVE Rest'
  BY <1>7, OutsideStep DEF MetaRestarts
<1>8. ASSUME Reconnect PROVE Rest'
  BY <1>8, OutsideStep DEF Reconnect
<1> QED BY <1>1, <1>2, <1>3, <1>4, <1>5, <1>6, <1>7, <1>8

(* A step of a thread of the client, which leaves Meta's state alone. *)
LEMMA InsideStep ==
    ASSUME ReadInv, Stays, UNCHANGED master,
           ThreadTyped', ReadsHonest',
           cache' \in Seq(SoundDescs'), Len(cache') <= Bound,
           held' \subseteq SoundDescs',
           found' \in [Threads -> SUBSET SoundDescs'],
           reply' \in [Threads -> Seq(SoundDescs')],
           addrs' \subseteq Stores, files' \subseteq Stores, connected' \in BOOLEAN,
           UNCHANGED <<foreign, overlooked>>
    PROVE  Rest'
<1> USE DEF master, commits, removals, server
<1>1. MasterTyped'
  BY DEF ReadInv, MasterTyped, Stays
<1>2. KnownSound'
  BY KnownStays DEF ReadInv, KnownSound
<1> QED BY <1>1, <1>2 DEF Rest

(* A sequence made from the keys of another by a sound description of each. *)
LEMMA SoundSeq ==
    ASSUME NEW K, NEW ks \in Seq(K), NEW D, NEW f,
           f = [i \in DOMAIN ks |-> f[i]], \A i \in DOMAIN ks : f[i] \in D
    PROVE  f \in Seq(D) /\ Range(f) \subseteq D
<1>1. DOMAIN ks = 1 .. Len(ks) /\ Len(ks) \in Nat
  OBVIOUS
<1>2. f \in [1 .. Len(ks) -> D]
  BY <1>1
<1>3. f \in Seq(D)
  BY <1>1, <1>2, SeqOfFunction
<1> QED BY <1>2, <1>3 DEF Range

LEMMA BatchExistKnown ==
    ASSUME ReadInv, Stays, NEW t \in Threads, NEW ks \in Requests, BatchExist(t, ks)
    PROVE  Rest'
<1> DEFINE here == {k \in Keys : index[Home][k] # None}
<1>0. ks \in Seq(Keys) /\ Home \in Stores /\ Capacity \in Nat
  BY ClientAssumption
<1>1. PICK present \in Seq(here) : present = Among(ks, here)
  BY <1>0, AmongIn
<1>2. PICK misses \in Seq(Keys \ here) : misses = Among(ks, Keys \ here)
  BY <1>0, AmongIn
<1>3. misses \in Seq(Keys)
  BY SeqMonotonic
<1>4. PICK hits : hits = [i \in DOMAIN present |-> LocalDesc(present[i])]
  OBVIOUS
<1>5. /\ Call(t)
      /\ cache' = InsertAll(cache, hits)
      /\ \/ held' = Range(hits) /\ UNCHANGED <<pc, asked, found>>
         \/ /\ Goto(t, "exist")
            /\ asked' = [asked EXCEPT ![t] = misses]
            /\ found' = [found EXCEPT ![t] = Range(hits)]
            /\ UNCHANGED held
      /\ UNCHANGED <<store, master, addrs, files, connected, reply, done, serving,
                     puts, faults, ghost>>
  BY <1>1, <1>2, <1>4 DEF BatchExist
<1>6. ASSUME NEW k \in here PROVE LocalDesc(k) \in SoundDescs'
  BY <1>0, IndexedPlace, SoundDesc DEF LocalDesc, ReadInv, Stays
<1> HIDE DEF here
<1>7. hits \in Seq(SoundDescs') /\ Range(hits) \subseteq SoundDescs'
  <2>1. \A i \in DOMAIN present : hits[i] \in SoundDescs'
    BY <1>4, <1>6
  <2>2. hits = [i \in DOMAIN present |-> hits[i]]
    BY <1>4
  <2> QED BY <2>1, <2>2, SoundSeq
<1>8. cache' \in Seq(SoundDescs') /\ Len(cache') <= Bound
  BY <1>0, <1>5, <1>7, KnownStays, InsertAllIn DEF ReadInv, MasterTyped
<1>9. held' \subseteq SoundDescs' /\ found' \in [Threads -> SUBSET SoundDescs']
  BY <1>5, <1>7, KnownStays DEF ReadInv
<1>10. ThreadTyped'
  BY ZenonT(60), <1>3, <1>5 DEF ReadInv, ThreadTyped, Goto
<1>11. ReadsHonest'
  BY <1>5, HonestStays DEF ReadInv
<1>12. UNCHANGED <<master, addrs, files, connected, reply, foreign, overlooked>>
  BY <1>5 DEF ghost
<1> QED BY <1>8, <1>9, <1>10, <1>11, <1>12, InsideStep, KnownStays DEF ReadInv, MasterTyped

LEMMA BatchGetSyncKnown ==
    ASSUME ReadInv, Stays, NEW t \in Threads, NEW ks \in Requests, BatchGetSync(t, ks)
    PROVE  Rest'
<1> DEFINE absent == {k \in Keys : ~Cached(cache, k)}
<1>0. ks \in Seq(Keys)
  BY ClientAssumption
<1>1. PICK misses \in Seq(absent) : misses = Among(ks, absent)
  BY <1>0, AmongIn
<1>2. misses \in Seq(Keys)
  BY SeqMonotonic
<1>3. /\ cache' = BatchLookup(cache, ks)
      /\ found' = [found EXCEPT ![t] = {Entry(cache, k) : k \in {x \in Range(ks) : Cached(cache, x)}}]
      /\ asked' = [asked EXCEPT ![t] = misses]
      /\ Goto(t, IF misses = <<>> THEN "get" ELSE "lookup")
      /\ UNCHANGED <<store, master, addrs, files, connected, held, reply, done, serving,
                     puts, faults, ghost>>
  BY <1>1 DEF BatchGetSync
<1>4. PICK D : D = SoundDescs' /\ cache \in Seq(D)
  BY KnownStays DEF ReadInv
<1>5. cache' \in Seq(D) /\ Len(cache') <= Bound
  BY <1>0, <1>3, <1>4, BatchLookupIn DEF ReadInv, MasterTyped
<1>6. {Entry(cache, k) : k \in {x \in Range(ks) : Cached(cache, x)}} \subseteq D
  BY <1>4, EntryIn
<1>7. found' \in [Threads -> SUBSET SoundDescs']
  BY <1>3, <1>4, <1>6, KnownStays DEF ReadInv
<1>8. ThreadTyped'
  BY <1>2, <1>3 DEF ReadInv, ThreadTyped, Goto
<1>9. ReadsHonest'
  BY <1>3, HonestStays DEF ReadInv
<1>10. UNCHANGED <<master, addrs, files, connected, held, reply, foreign, overlooked>>
  BY <1>3 DEF ghost
<1> QED BY <1>4, <1>5, <1>7, <1>8, <1>9, <1>10, InsideStep, KnownStays DEF ReadInv, MasterTyped

LEMMA MetaAnswersKnown ==
    ASSUME ReadInv, Stays, NEW t \in Threads, MetaAnswers(t)
    PROVE  Rest'
<1> DEFINE there == {k \in Keys : meta[k] # None}
<1>0. asked[t] \in Seq(Keys)
  BY DEF ReadInv, ThreadTyped
<1>1. PICK hits \in Seq(there) : hits = Among(asked[t], there)
  BY <1>0, AmongIn
<1>2. PICK ds : ds = [i \in DOMAIN hits |-> Describe(meta[hits[i]])]
  OBVIOUS
<1>3. /\ reply' = [reply EXCEPT ![t] = ds]
      /\ asked' = [asked EXCEPT ![t] = <<>>]
      /\ Goto(t, IF pc[t] = "exist" THEN "exist_reply" ELSE "lookup_reply")
      /\ UNCHANGED <<store, master, client, found, done, serving, budget, ghost>>
  BY <1>1, <1>2 DEF MetaAnswers
<1>4. ASSUME NEW k \in there PROVE Describe(meta[k]) \in SoundDescs'
  <2>1. PICK p \in SoundPlaces : p = meta[k]
    BY DEF ReadInv, KnownSound
  <2>2. PICK type, addr : /\ type = IF p.store \in registered \cap OnNode THEN "node" ELSE "remote"
                          /\ addr = (p.store \in registered)
    OBVIOUS
  <2>3. type \in {"local", "node", "remote"} /\ addr \in BOOLEAN
    BY <2>2
  <2>4. Describe(p) = Desc(p, type, addr)
    BY <2>2 DEF Describe
  <2> QED BY <2>1, <2>3, <2>4, SoundDesc DEF Stays
<1> HIDE DEF there
<1>5. ds \in Seq(SoundDescs')
  <2>1. \A i \in DOMAIN hits : ds[i] \in SoundDescs'
    BY <1>2, <1>4
  <2>2. ds = [i \in DOMAIN hits |-> ds[i]]
    BY <1>2
  <2> QED BY <2>1, <2>2, SoundSeq
<1>6. reply' \in [Threads -> Seq(SoundDescs')]
  BY <1>3, <1>5, KnownStays DEF ReadInv
<1>7. ThreadTyped'
  BY <1>3 DEF ReadInv, ThreadTyped, Goto
<1>8. ReadsHonest'
  BY <1>3, HonestStays DEF ReadInv
<1>9. UNCHANGED <<master, client, found, foreign, overlooked>>
  BY <1>3 DEF ghost
<1> QED BY <1>6, <1>7, <1>8, <1>9, InsideStep, KnownStays DEF ReadInv, MasterTyped, client

(* Going on with sound descriptions. *)
LEMMA LookedUpKnown ==
    ASSUME ReadInv, Stays, NEW t \in Threads, NEW ds \in SUBSET SoundDescs', LookedUp(t, ds)
    PROVE  /\ held' \subseteq SoundDescs'
           /\ found' \in [Threads -> SUBSET SoundDescs']
           /\ Goto(t, "idle") \/ Goto(t, "get")
BY KnownStays DEF ReadInv, LookedUp

LEMMA MetaRepliedKnown ==
    ASSUME ReadInv, Stays, NEW t \in Threads, MetaReplied(t)
    PROVE  Rest'
<1>0. Capacity \in Nat
  BY ClientAssumption
<1>1. PICK ds \in Seq(SoundDescs) : ds = reply[t]
  BY DEF ReadInv, KnownSound
<1>2. /\ cache' = InsertAll(cache, ds)
      /\ files' = files \cup {d.place.store : d \in {x \in Range(ds) : x.type = "node"}}
      /\ addrs' = addrs \cup {d.place.store : d \in {x \in Range(ds) : x.addr}}
      /\ LookedUp(t, found[t] \cup Range(ds))
      /\ reply' = [reply EXCEPT ![t] = <<>>]
      /\ UNCHANGED <<store, master, connected, asked, done, serving, budget, ghost>>
  BY <1>1 DEF MetaReplied
<1>3. Range(ds) \subseteq SoundDescs
  BY DEF Range
<1>4. \A d \in Range(ds) : d.place.store \in Stores
  BY <1>3, PlaceFacts DEF SoundDescs, SoundPlaces
<1>5. files' \subseteq Stores /\ addrs' \subseteq Stores
  BY <1>2, <1>4 DEF ReadInv, MasterTyped
<1>6. PICK D : D = SoundDescs' /\ cache \in Seq(D) /\ ds \in Seq(D)
  BY <1>1, KnownStays DEF ReadInv
<1>7. cache' \in Seq(D) /\ Len(cache') <= Bound
  BY <1>0, <1>2, <1>6, InsertAllIn DEF ReadInv, MasterTyped
<1>8. found[t] \cup Range(ds) \in SUBSET SoundDescs'
  BY <1>3, KnownStays DEF ReadInv, Stays
<1>9. /\ held' \subseteq SoundDescs'
      /\ found' \in [Threads -> SUBSET SoundDescs']
      /\ Goto(t, "idle") \/ Goto(t, "get")
  BY <1>2, <1>8, LookedUpKnown
<1>10. reply' \in [Threads -> Seq(SoundDescs')]
  BY <1>2, KnownStays DEF ReadInv
<1>11. ThreadTyped'
  BY <1>2, <1>9 DEF ReadInv, ThreadTyped, Goto
<1>12. ReadsHonest'
  BY <1>2, HonestStays DEF ReadInv
<1>13. UNCHANGED <<master, connected, foreign, overlooked>>
  BY <1>2 DEF ghost
<1> QED BY <1>5, <1>6, <1>7, <1>9, <1>10, <1>11, <1>12, <1>13, InsideStep DEF ReadInv, MasterTyped

LEMMA NoAnswerKnown ==
    ASSUME ReadInv, Stays, NEW t \in Threads, MetaFails(t) \/ NotConnected(t)
    PROVE  Rest'
<1>1. /\ asked' = [asked EXCEPT ![t] = <<>>]
      /\ LookedUp(t, found[t])
      /\ connected' \in BOOLEAN
      /\ UNCHANGED <<master, cache, addrs, files, reply, done, serving, foreign, overlooked>>
  BY DEF MetaFails, NotConnected, ghost, ReadInv, MasterTyped
<1>2. found[t] \in SUBSET SoundDescs'
  BY KnownStays DEF ReadInv
<1>3. /\ held' \subseteq SoundDescs'
      /\ found' \in [Threads -> SUBSET SoundDescs']
      /\ Goto(t, "idle") \/ Goto(t, "get")
  BY <1>1, <1>2, LookedUpKnown
<1>4. ThreadTyped'
  <2>1. asked' \in [Threads -> Seq(Keys)] /\ UNCHANGED <<done, serving>>
    BY <1>1 DEF ReadInv, ThreadTyped
  <2>2. PICK l \in {"idle", "get"} : pc' = [pc EXCEPT ![t] = l]
    BY <1>3 DEF Goto
  <2> QED BY <2>1, <2>2 DEF ReadInv, ThreadTyped
<1>5. ReadsHonest'
  BY <1>1, HonestStays DEF ReadInv
<1> QED BY <1>1, <1>3, <1>4, <1>5, InsideStep, KnownStays DEF ReadInv, MasterTyped

(* What a description in hand reads is honest, and is what the read gives. *)
LEMMA FinishKnown ==
    ASSUME ReadInv, Stays, NEW t \in Threads, NEW ds \in SUBSET found[t], NEW good,
           Finish(t, ds, good)
    PROVE  Rest'
<1> DEFINE Ans(d) == [place |-> d.place, got |-> IF d \in good THEN BytesAt(d) ELSE Failed]
<1>1. /\ done' = [done EXCEPT ![t] = @ \cup {Ans(d) : d \in ds}]
      /\ found' = [found EXCEPT ![t] = @ \ ds]
      /\ UNCHANGED <<store, master, client, pc, asked, reply, serving, puts, calls, ghost>>
  BY DEF Finish
<1>2. ASSUME NEW d \in ds
      PROVE  Ans(d) \in Answers /\ Honest(Ans(d))
  <2>1. PICK p \in SoundPlaces : p = d.place
    BY DEF ReadInv, KnownSound, SoundDescs
  <2>2. p \in Places /\ (p \in lapsed \/ ~Once(p.store, p.slot) \/ AtRest(p))
    BY DEF SoundPlaces, Sound
  <2>3. BytesAt(d) \in Contents
    BY <2>1, <2>2, PlaceFacts DEF BytesAt, ReadInv, SlotInv, StoreTyped
  <2>4. BytesAt(d) = p.key \/ p \in lapsed \/ <<p.store, p.slot>> \in twice
    BY <2>1, <2>2 DEF BytesAt, AtRest, Once
  <2>5. Ans(d) \in Answers
    BY <2>1, <2>2, <2>3 DEF Answers
  <2> QED BY <2>1, <2>4, <2>5 DEF Honest
<1> HIDE DEF Ans
<1>3. found' \in [Threads -> SUBSET SoundDescs']
  BY <1>1, KnownStays DEF ReadInv
<1>4. ThreadTyped'
  <2>1. done' \in [Threads -> SUBSET Answers]
    BY <1>1, <1>2 DEF ReadInv, ThreadTyped
  <2> QED BY <1>1, <2>1 DEF ReadInv, ThreadTyped
<1>5. ReadsHonest'
  <2> SUFFICES ASSUME NEW u \in Threads, NEW a \in done'[u] PROVE Honest(a)'
    BY DEF ReadsHonest
  <2>1. a \in done[u] \/ \E d \in ds : a = Ans(d)
    BY <1>1 DEF ReadInv, ThreadTyped
  <2>2. Honest(a)
    BY <1>2, <2>1 DEF ReadInv, ReadsHonest
  <2>3. a.place \in Places
    BY <2>1, <1>2 DEF ReadInv, ThreadTyped, Answers
  <2> QED BY <2>2, <2>3 DEF Honest, Stays, Once
<1>6. UNCHANGED <<master, client, reply, foreign, overlooked>>
  BY <1>1 DEF ghost
<1> QED BY <1>3, <1>4, <1>5, <1>6, InsideStep, KnownStays DEF ReadInv, MasterTyped, client

LEMMA ReadsKnown ==
    ASSUME ReadInv, Stays, NEW t \in Threads,
           ReadLocal(t) \/ ReadNode(t) \/ \E s \in Stores : ReadRemote(t, s)
    PROVE  Rest'
<1>1. PICK ds, good : ds \in SUBSET found[t] /\ Finish(t, ds, good)
  BY DEF ReadLocal, ReadNode, ReadRemote, Read, OfType
<1> QED BY <1>1, FinishKnown

LEMMA PutReturnsKnown ==
    ASSUME ReadInv, Stays, NEW t \in Threads, PutReturns(t)
    PROVE  Rest'
<1>0. Capacity \in Nat
  BY ClientAssumption
<1>1. PICK w \in writing : Publish(w) /\ cache' = Insert(cache, Desc(w.place, "local", FALSE))
  BY DEF PutReturns
<1>2. /\ Goto(t, "idle")
      /\ UNCHANGED <<addrs, files, connected, held, asked, reply, found, done, serving,
                     foreign, overlooked, lapsed, twice>>
  BY DEF PutReturns, ghost
<1>3. /\ committing' = committing \cup {w.place}
      /\ UNCHANGED <<retrying, evicting, removing, meta, registered, unsynced>>
  BY <1>1 DEF Publish, removals, server
<1>4. w.place \in SoundPlaces'
  BY <1>1, <1>2, PublishedSound DEF ReadInv
<1>5. PICK d : d = Desc(w.place, "local", FALSE)
  OBVIOUS
<1>6. d \in SoundDescs'
  BY <1>4, <1>5 DEF SoundDescs, SoundPlaces, Descs, Desc
<1>7. cache' \in Seq(SoundDescs') /\ Len(cache') <= Bound
  BY <1>0, <1>1, <1>5, <1>6, InsertIn, KnownStays DEF ReadInv, MasterTyped
<1>8. MasterTyped'
  BY <1>2, <1>3, <1>7 DEF ReadInv, MasterTyped, Stays
<1>9. ThreadTyped'
  BY <1>2 DEF ReadInv, ThreadTyped, Goto
<1>10. KnownSound'
  BY <1>2, <1>3, <1>4, <1>7, KnownStays DEF ReadInv, KnownSound
<1>11. ReadsHonest'
  BY <1>2, HonestStays DEF ReadInv
<1> QED BY <1>8, <1>9, <1>10, <1>11 DEF Rest

LEMMA GetLookupKnown ==
    ASSUME ReadInv, Stays, NEW t \in Threads, GetLookup(t)
    PROVE  Rest'
<1>1. PICK s \in Stores, k \in Keys : s = serving[t].store /\ k = serving[t].key
  BY DEF GetLookup, ReadInv, ThreadTyped
<1>2. /\ found' = [found EXCEPT ![t] = {Desc(Place(k, s, l), "local", FALSE) :
                                          l \in {index[s][k]} \ {None}}]
      /\ Goto(t, IF index[s][k] = None THEN "idle" ELSE "get")
      /\ serving' = [serving EXCEPT ![t] = None]
      /\ UNCHANGED <<master, client, asked, reply, done, foreign, overlooked>>
  BY <1>1 DEF GetLookup, ghost
<1>3. ASSUME NEW l \in {index[s][k]} \ {None}
      PROVE  Desc(Place(k, s, l), "local", FALSE) \in SoundDescs'
  <2>1. Place(k, s, l) \in SoundPlaces
    BY IndexedPlace DEF ReadInv
  <2> QED BY <2>1, SoundDesc DEF Stays
<1>4. found' \in [Threads -> SUBSET SoundDescs']
  BY <1>2, <1>3, KnownStays DEF ReadInv
<1>5. ThreadTyped'
  BY <1>2 DEF ReadInv, ThreadTyped, Goto
<1>6. ReadsHonest'
  BY <1>2, HonestStays DEF ReadInv
<1> QED BY <1>2, <1>4, <1>5, <1>6, InsideStep, KnownStays DEF ReadInv, MasterTyped, client

(* The steps that make no description. *)
LEMMA PlainStepsKnown ==
    ASSUME ReadInv, Stays, NEW t \in Threads,
           \/ BatchGet(t) \/ GetReturns(t)
           \/ \E k \in Keys : BatchPut(t, k) \/ PutExisting(t, k)
           \/ \E s \in Stores, k \in Keys : ServeByKey(t, s, k)
    PROVE  Rest'
<1>1. ASSUME BatchGet(t) PROVE Rest'
  <2>1. ThreadTyped' /\ ReadsHonest'
    BY <1>1, HonestStays DEF BatchGet, ReadInv, ThreadTyped, Goto
  <2>2. found' \in [Threads -> SUBSET SoundDescs']
    BY <1>1, KnownStays DEF BatchGet, ReadInv
  <2> QED BY <1>1, <2>1, <2>2, InsideStep, KnownStays DEF BatchGet, ReadInv, MasterTyped, client, ghost
<1>2. ASSUME GetReturns(t) PROVE Rest'
  <2>1. ThreadTyped'
    BY <1>2 DEF GetReturns, ReadInv, ThreadTyped, Goto
  <2>2. ReadsHonest'
    BY <1>2 DEF GetReturns, ReadInv, ReadsHonest, ThreadTyped, Honest, ghost
  <2> QED BY <1>2, <2>1, <2>2, InsideStep, KnownStays DEF GetReturns, ReadInv, MasterTyped, client, ghost
<1>3. ASSUME NEW k \in Keys, BatchPut(t, k) PROVE Rest'
  <2>1. ThreadTyped' /\ ReadsHonest'
    BY <1>3, HonestStays DEF BatchPut, ReadInv, ThreadTyped, Goto
  <2> QED BY <1>3, <2>1, InsideStep, KnownStays DEF BatchPut, ReadInv, MasterTyped, client, ghost
<1>4. ASSUME NEW k \in Keys, PutExisting(t, k) PROVE Rest'
  <2>1. ThreadTyped' /\ ReadsHonest'
    BY <1>4, HonestStays DEF PutExisting, ReadInv, ThreadTyped, thread
  <2> QED BY <1>4, <2>1, InsideStep, KnownStays DEF PutExisting, ReadInv, MasterTyped, client, ghost, thread
<1>5. ASSUME NEW s \in Stores, NEW k \in Keys, ServeByKey(t, s, k) PROVE Rest'
  <2>1. [store |-> s, key |-> k] # None
    BY ClientAssumption
  <2>2. ThreadTyped'
    BY <1>5, <2>1 DEF ServeByKey, ReadInv, ThreadTyped, Goto
  <2>3. ReadsHonest'
    BY <1>5, HonestStays DEF ServeByKey, ReadInv
  <2> QED BY <1>5, <2>2, <2>3, InsideStep, KnownStays DEF ServeByKey, ReadInv, MasterTyped, client, ghost
<1> QED BY <1>1, <1>2, <1>3, <1>4, <1>5

----------------------------------------------------------------------------
(* The invariant *)

LEMMA ReadInvTyped ==
    ASSUME ReadInv
    PROVE  TypeOK
<1>1. /\ committing \subseteq Places /\ retrying \subseteq Places
      /\ meta \in [Keys -> Places \cup {None}]
      /\ held \subseteq Descs /\ found \in [Threads -> SUBSET Descs]
  BY DEF ReadInv, KnownSound, SoundPlaces, SoundDescs
<1>2. cache \in Seq(Descs) /\ reply \in [Threads -> Seq(Descs)]
  <2>1. PICK D : D = SoundDescs /\ D \subseteq Descs
    BY DEF SoundDescs
  <2>2. cache \in Seq(Descs) /\ \A t \in Threads : reply[t] \in Seq(Descs)
    BY <2>1, SeqMonotonic DEF ReadInv, KnownSound
  <2> QED BY <2>1, <2>2 DEF ReadInv, KnownSound
<1> QED BY <1>1, <1>2 DEF ReadInv, SlotInv, StoreTyped, MasterTyped, ThreadTyped, TypeOK, Bound

LEMMA ReadInvInit ==
    ASSUME Init
    PROVE  ReadInv
<1>1. StoreTyped
  BY ClientAssumption DEF Init, StoreTyped, Contents
<1>2. WritesApart /\ IndexSound /\ WaitingSound
  BY DEF Init, WritesApart, IndexSound, WaitingSound
<1>3. MasterTyped
  BY ClientAssumption DEF Init, MasterTyped, Bound
<1>4. ThreadTyped
  BY DEF Init, ThreadTyped
<1>5. KnownSound
  BY DEF Init, KnownSound
<1>6. ReadsHonest
  BY DEF Init, ReadsHonest
<1> QED BY <1>1, <1>2, <1>3, <1>4, <1>5, <1>6 DEF ReadInv, SlotInv

LEMMA ReadInvStep ==
    ASSUME ReadInv, [Next]_vars
    PROVE  ReadInv'
<1>1. CASE Next
  <2>1. SlotInv' /\ Stays
    BY <1>1, SoundStays DEF ReadInv
  <2>2. Rest'
    <3>1. ASSUME NEW s \in Stores, StoreStep(s) PROVE Rest'
      BY <2>1, <3>1, StoreStepKnown
    <3>0. ASSUME \/ \E c \in evicting : SyncRemove(c) \/ SyncRemoveSkipped(c) \/ SyncRemoveFails(c)
                 \/ \E c \in removing : Unindex(c)
          PROVE  Rest'
      BY <2>1, <3>0, EvictionStepKnown
    <3>2. ASSUME \/ \E w \in writing : PublishElsewhere(w)
                 \/ \E p \in committing : CommitSkipped(p) \/ CommitOk(p) \/ CommitFails(p)
                 \/ \E p \in retrying : RetryOk(p) \/ RetryFails(p)
                 \/ MetaRestarts \/ Reconnect
          PROVE  Rest'
      BY <2>1, <3>2, MetaStepKnown
    <3>3. ASSUME NEW t \in Threads, ThreadStep(t) PROVE Rest'
      BY <2>1, <3>3, BatchExistKnown, BatchGetSyncKnown, MetaAnswersKnown, MetaRepliedKnown,
         NoAnswerKnown, ReadsKnown, PutReturnsKnown, GetLookupKnown, PlainStepsKnown
         DEF ThreadStep
    <3> QED BY <1>1, <3>0, <3>1, <3>2, <3>3 DEF Next
  <2> QED BY <2>1, <2>2 DEF ReadInv, Rest
<1>2. CASE UNCHANGED vars
  <2>0. UNCHANGED <<store, lapsed, twice>>
    BY <1>2 DEF vars, ghost
  <2>1. SlotInv' /\ \A p : AtRest(p)' <=> AtRest(p)
    BY <2>0, SlotsKept DEF ReadInv
  <2>2. SoundPlaces' = SoundPlaces /\ lapsed' = lapsed
    BY <2>0, <2>1 DEF SoundPlaces, Sound, Once
  <2>3. SoundDescs' = SoundDescs
    BY <2>2 DEF SoundDescs
  <2>4. Stays
    BY <2>0, <2>2, <2>3 DEF Stays, ReadInv, MasterTyped, Once
  <2>5. Rest'
    BY <1>2, <2>4, OutsideStep, KnownStays
       DEF ReadInv, MasterTyped, vars, master, commits, removals, server, client, ghost
  <2> QED BY <2>1, <2>5 DEF ReadInv, Rest
<1> QED BY <1>1, <1>2

LEMMA ReadInvAlways == Spec => []ReadInv
<1>1. Init => ReadInv
  BY ReadInvInit
<1>2. ReadInv /\ [Next]_vars => ReadInv'
  BY ReadInvStep
<1> QED BY <1>1, <1>2, PTL DEF Spec

(* The state keeps its types: in particular, KeyDescCache never holds more *)
(* entries than its capacity (one, when it is 0), every description names  *)
(* a slot its store has, and a reclaimed slot held some key's bytes.       *)
THEOREM TypeCorrect == Spec => []TypeOK
<1>1. ReadInv => TypeOK
  BY ReadInvTyped
<1> QED BY <1>1, ReadInvAlways, PTL

(* A read through any description, however old, and by any route delivers  *)
(* the key's own bytes, or fails, or its slot was reclaimed (or the store  *)
(* restarted) since, or was queued for reclamation by an eviction whose    *)
(* record another had removed before: BatchGet in falconkv_client_impl.cpp *)
(* never mixes up stores, slots, or finished and unfinished writes.        *)
THEOREM ReadsHonestHolds == Spec => []ReadsHonest
<1>1. ReadInv => ReadsHonest
  BY DEF ReadInv
<1> QED BY <1>1, ReadInvAlways, PTL

----------------------------------------------------------------------------
(* What Meta knows *)

(* Only types are needed: each step that puts a key into an index, or      *)
(* takes one out of Meta, leaves the matching trace.                       *)
BeingRemoved(s, k) == \E c \in removing : c.place.store = s /\ c.place.key = k

LEMMA KnownToMetaStep ==
    ASSUME ReadInv, KnownToMeta, Next
    PROVE  KnownToMeta'
<1> SUFFICES ASSUME NEW s \in Stores, NEW k \in Keys, NEW l, l = index'[s][k],
                    l # None, meta'[k] = None
             PROVE  \/ Place(k, s, l) \in committing'
                    \/ BeingRemoved(s, k)'
                    \/ s \in unsynced' \cup overlooked'
                    \/ k \in foreign'
  BY DEF KnownToMeta, BeingRemoved
<1> DEFINE Traced == \/ Place(k, s, l) \in committing'
                     \/ BeingRemoved(s, k)'
                     \/ s \in unsynced' \cup overlooked'
                     \/ k \in foreign'
<1>a. ASSUME index[s][k] = l, meta[k] = None
      PROVE  \/ Place(k, s, l) \in committing
             \/ BeingRemoved(s, k)
             \/ s \in unsynced \cup overlooked
             \/ k \in foreign
  BY <1>a DEF KnownToMeta, BeingRemoved
<1>b. StoreTyped /\ meta \in [Keys -> SoundPlaces \cup {None}]
  BY DEF ReadInv, SlotInv, KnownSound
<1>c. ASSUME index' = index, meta'[k] = None => meta[k] = None,
             committing \subseteq committing',
             removing \subseteq removing',
             unsynced \cup overlooked \subseteq unsynced' \cup overlooked',
             foreign \subseteq foreign'
      PROVE  Traced
  <2>1. BeingRemoved(s, k) => BeingRemoved(s, k)'
    BY <1>c DEF BeingRemoved
  <2> QED BY <1>a, <1>c, <2>1
<1>d. ASSUME NEW w \in writing, Publish(w), UNCHANGED ghost PROVE Traced
  <2>1. PICK p \in Places : p = w.place
    BY <1>b DEF StoreTyped
  <2>2. /\ index' = [index EXCEPT ![p.store][p.key] = p.slot]
        /\ committing' = committing \cup {p}
        /\ UNCHANGED <<retrying, removing, meta, unsynced, foreign, overlooked>>
    BY <1>d, <2>1 DEF Publish, removals, server, ghost
  <2>3. CASE s = p.store /\ k = p.key
    <3>1. l = p.slot
      BY <1>b, <2>2, <2>3, PlaceFacts DEF StoreTyped
    <3> QED BY <2>2, <2>3, <3>1, PlaceFacts
  <2>4. CASE ~(s = p.store /\ k = p.key)
    <3>1. index[s][k] = l
      BY <1>b, <2>2, <2>4, PlaceFacts DEF StoreTyped
    <3> QED BY <1>a, <2>2, <3>1 DEF BeingRemoved
  <2> QED BY <2>3, <2>4
<1>e. ASSUME NEW c \in evicting, Erase(c.place.store, c.place.key),
             UNCHANGED <<index, committing, retrying, overlooked>>,
             removing \subseteq removing', unsynced \subseteq unsynced',
             c \in removing' \/ c.place.store \in unsynced'
      PROVE  Traced
  <2>1. CASE k = c.place.key /\ s = c.place.store
    BY <1>e, <2>1 DEF BeingRemoved
  <2>2. CASE k = c.place.key /\ s # c.place.store
    BY <1>e, <2>2 DEF Erase
  <2>3. CASE k # c.place.key
    <3>1. meta[k] = None /\ foreign \subseteq foreign'
      BY <1>b, <1>e, <2>3 DEF Erase
    <3> QED BY <1>c, <1>e, <3>1
  <2> QED BY <2>1, <2>2, <2>3
<1>1. ASSUME NEW r \in Stores, StoreStep(r) PROVE Traced
  <2>1. ASSUME NEW j \in Keys, PutElsewhere(r, j) PROVE Traced
    BY <1>c, <2>1 DEF PutElsewhere, StartWrite, master, commits, removals, server, ghost
  <2>2. ASSUME NEW j \in Keys, NEW e \in Evictors[r], GetLRUCandidates(r, j, e) PROVE Traced
    BY <1>c, <2>2 DEF GetLRUCandidates, store, commits, server, ghost
  <2>3. ASSUME NEW m \in SlotsOf[r], Reclaim(r, m) PROVE Traced
    BY <1>c, <2>3 DEF Reclaim, master, commits, removals, server
  <2>4. ASSUME FullResync(r) PROVE Traced
    <3>1. /\ unsynced' = unsynced \ {r} /\ overlooked' = overlooked \ {r}
          /\ committing' = committing \cup {Place(j, r, index[r][j]) : j \in {x \in Keys : index[r][x] # None}}
          /\ UNCHANGED <<index, retrying, removing, meta, foreign>>
      BY <2>4 DEF FullResync, store, removals
    <3>2. CASE s = r
      BY <3>1, <3>2
    <3>3. CASE s # r
      BY <1>a, <3>1, <3>3 DEF BeingRemoved
    <3> QED BY <3>2, <3>3
  <2>5. ASSUME StoreRestarts(r) PROVE Traced
    <3>1. /\ index' = [index EXCEPT ![r] = [j \in Keys |-> None]]
          /\ committing' = {p \in committing : p.store # r}
          /\ retrying' = {p \in retrying : p.store # r}
          /\ removing' = {c \in removing : c.place.store # r}
          /\ unsynced' \in {unsynced \ {r}, unsynced \cup {r}}
          /\ overlooked' = overlooked \ {r}
          /\ UNCHANGED <<meta, foreign>>
      BY <2>5 DEF StoreRestarts
    <3>2. s # r /\ index[s][k] = l
      BY <1>b, <3>1 DEF StoreTyped
    <3>3. Place(k, s, l).store = s
      BY PlaceFields
    <3>4. BeingRemoved(s, k) => BeingRemoved(s, k)'
      BY <3>1, <3>2 DEF BeingRemoved
    <3> QED BY <1>a, <3>1, <3>2, <3>3, <3>4
  <2> QED BY <1>1, <2>1, <2>2, <2>3, <2>4, <2>5 DEF StoreStep
<1>2. ASSUME NEW w \in writing, PublishElsewhere(w) PROVE Traced
  BY <1>2, <1>d DEF PublishElsewhere
<1>3. ASSUME NEW c \in evicting, SyncRemove(c) \/ SyncRemoveSkipped(c) \/ SyncRemoveFails(c)
      PROVE  Traced
  <2>1. CASE SyncRemove(c)
    BY <1>e, <2>1 DEF SyncRemove, store, commits
  <2>2. CASE SyncRemoveSkipped(c)
    BY <1>c, <2>2 DEF SyncRemoveSkipped, store, commits, server, ghost
  <2>3. CASE SyncRemoveFails(c)
    <3>1. /\ UNCHANGED <<index, committing, retrying, removing, overlooked>>
          /\ unsynced' = unsynced \cup {c.place.store}
      BY <2>3 DEF SyncRemoveFails, store, commits
    <3>2. CASE Erase(c.place.store, c.place.key)
      BY <1>e, <3>1, <3>2
    <3>3. CASE UNCHANGED <<meta, foreign>>
      BY <1>c, <3>1, <3>3
    <3> QED BY <2>3, <3>2, <3>3 DEF SyncRemoveFails
  <2> QED BY <1>3, <2>1, <2>2, <2>3
<1>4. ASSUME NEW c \in removing, Unindex(c) PROVE Traced
  <2>1. PICK j \in Keys, r \in Stores : j = c.place.key /\ r = c.place.store
    BY PlaceFacts DEF ReadInv, MasterTyped, Candidates
  <2>2. /\ index' = [index EXCEPT ![r][j] = None] /\ removing' = removing \ {c}
        /\ UNCHANGED <<committing, retrying, meta, unsynced, foreign, overlooked>>
    BY <1>4, <2>1 DEF Unindex, commits, server
  <2>3. ~(s = r /\ k = j) /\ index[s][k] = l
    BY <1>b, <2>2 DEF StoreTyped
  <2>4. BeingRemoved(s, k) => BeingRemoved(s, k)'
    BY <2>1, <2>2, <2>3 DEF BeingRemoved
  <2> QED BY <1>a, <2>2, <2>3, <2>4
<1>5. ASSUME NEW p \in committing, CommitSkipped(p) \/ CommitOk(p) \/ CommitFails(p)
      PROVE  Traced
  <2>0. p \in Places
    BY DEF ReadInv, KnownSound, SoundPlaces
  <2>1. CASE CommitSkipped(p)
    <3>1. /\ committing' = committing \ {p} /\ p.store \in unsynced
          /\ UNCHANGED <<index, retrying, removing, meta, unsynced, foreign, overlooked>>
      BY <2>1 DEF CommitSkipped, store, removals, server, ghost
    <3> QED BY <1>a, <3>1, PlaceFields DEF BeingRemoved
  <2>2. CASE CommitOk(p)
    <3>1. /\ committing' = committing \ {p} /\ meta' = [meta EXCEPT ![p.key] = p]
          /\ UNCHANGED <<index, retrying, removing, unsynced, foreign, overlooked>>
      BY <2>2 DEF CommitOk, store, removals, ghost
    <3>2. k # p.key /\ meta[k] = None
      BY <1>b, <2>0, <3>1, PlaceFacts
    <3>3. Place(k, s, l) # p
      BY <3>2, PlaceFields
    <3> QED BY <1>a, <3>1, <3>2, <3>3 DEF BeingRemoved
  <2>3. CASE CommitFails(p)
    <3>1. /\ committing' = committing \ {p} /\ retrying' = retrying \cup {p}
          /\ meta' \in {meta, [meta EXCEPT ![p.key] = p]}
          /\ unsynced' = unsynced \cup {p.store}
          /\ UNCHANGED <<index, removing, foreign, overlooked>>
      BY <2>3 DEF CommitFails, store, removals, ghost
    <3>2. meta[k] = None
      BY <1>b, <2>0, <3>1, PlaceFacts
    <3>3. Place(k, s, l) = p => s \in unsynced'
      BY <3>1, PlaceFields
    <3> QED BY <1>a, <3>1, <3>2, <3>3 DEF BeingRemoved
  <2> QED BY <1>5, <2>1, <2>2, <2>3
<1>6. ASSUME NEW p \in retrying, RetryOk(p) \/ RetryFails(p) PROVE Traced
  <2>0. p \in Places
    BY DEF ReadInv, KnownSound, SoundPlaces
  <2>1. CASE RetryOk(p)
    <3>1. /\ retrying' = retrying \ {p} /\ meta' = [meta EXCEPT ![p.key] = p]
          /\ unsynced' = unsynced \ {p.store} /\ overlooked' = overlooked \cup {p.store}
          /\ UNCHANGED <<index, committing, removing, foreign>>
      BY <2>1 DEF RetryOk, store, removals
    <3>2. k # p.key /\ meta[k] = None
      BY <1>b, <2>0, <3>1, PlaceFacts
    <3>3. Place(k, s, l) # p
      BY <3>2, PlaceFields
    <3> QED BY <1>a, <3>1, <3>2, <3>3 DEF BeingRemoved
  <2>2. CASE RetryFails(p)
    <3>1. /\ retrying' = retrying \ {p}
          /\ meta' \in {meta, [meta EXCEPT ![p.key] = p]}
          /\ UNCHANGED <<index, committing, removing, unsynced, foreign, overlooked>>
      BY <2>2 DEF RetryFails, store, removals, ghost
    <3>2. meta[k] = None
      BY <1>b, <2>0, <3>1, PlaceFacts
    <3> QED BY <1>a, <3>1, <3>2, PlaceFields DEF BeingRemoved
  <2> QED BY <1>6, <2>1, <2>2
<1>7. ASSUME MetaRestarts PROVE Traced
  BY <1>7 DEF MetaRestarts
<1>8. ASSUME Reconnect PROVE Traced
  BY <1>8, <1>c DEF Reconnect, store, master, commits, removals, server, ghost
<1>9. ASSUME NEW t \in Threads, ThreadStep(t) PROVE Traced
  <2>1. ASSUME PutReturns(t) PROVE Traced
    BY <1>d, <2>1 DEF PutReturns
  <2>2. ASSUME ~PutReturns(t) PROVE UNCHANGED <<index, master, ghost>>
    <3>1. ASSUME NEW ks \in Requests, BatchExist(t, ks) \/ BatchGetSync(t, ks)
          PROVE  UNCHANGED <<index, master, ghost>>
      BY <3>1 DEF BatchExist, BatchGetSync, store
    <3>2. ASSUME NEW j \in Keys, BatchPut(t, j) \/ PutExisting(t, j)
          PROVE  UNCHANGED <<index, master, ghost>>
      BY <3>2 DEF BatchPut, StartWrite, PutExisting, store
    <3>3. ASSUME MetaAnswers(t) \/ MetaReplied(t) \/ MetaFails(t) \/ NotConnected(t)
          PROVE  UNCHANGED <<index, master, ghost>>
      BY <3>3 DEF MetaAnswers, MetaReplied, MetaFails, NotConnected, store
    <3>4. ASSUME BatchGet(t) \/ GetReturns(t) \/ GetLookup(t)
          PROVE  UNCHANGED <<index, master, ghost>>
      BY <3>4 DEF BatchGet, GetReturns, GetLookup, store
    <3>5. ASSUME ReadLocal(t) \/ ReadNode(t) \/ \E r \in Stores : ReadRemote(t, r)
          PROVE  UNCHANGED <<index, master, ghost>>
      BY <3>5 DEF ReadLocal, ReadNode, ReadRemote, Read, Finish, store
    <3>6. ASSUME NEW r \in Stores, NEW j \in Keys, ServeByKey(t, r, j)
          PROVE  UNCHANGED <<index, master, ghost>>
      BY <3>6 DEF ServeByKey, store
    <3> QED BY <1>9, <2>2, <3>1, <3>2, <3>3, <3>4, <3>5, <3>6 DEF ThreadStep
  <2>3. ASSUME UNCHANGED <<index, master, ghost>> PROVE Traced
    BY <1>c, <2>3 DEF master, commits, removals, server, ghost
  <2> QED BY <2>1, <2>2, <2>3
<1> HIDE DEF Traced
<1> QED BY <1>1, <1>2, <1>3, <1>4, <1>5, <1>6, <1>7, <1>8, <1>9 DEF Next, Traced

(* A committed key that Meta does not know has left a trace somewhere:     *)
(* whatever is lost, skipped or restarted between the stores and Meta, a   *)
(* commit or a resync is still due, unless Meta's restart or a failed call *)
(* was overlooked (ReconnectLoop looks at connected_ alone, and SyncCommit *)
(* sets it after a retry), or another store's removal took the record      *)
(* (MetaManager::SyncRemove looks at the key alone).                       *)
THEOREM KnownToMetaHolds == Spec => []KnownToMeta
<1>1. Init => KnownToMeta
  BY DEF Init, KnownToMeta
<1>2. ReadInv /\ KnownToMeta /\ [Next]_vars => KnownToMeta'
  <2>1. ASSUME KnownToMeta, UNCHANGED vars PROVE KnownToMeta'
    BY <2>1 DEF KnownToMeta, vars, store, master, commits, removals, server, ghost
  <2> QED BY <2>1, KnownToMetaStep
<1> QED BY <1>1, <1>2, ReadInvAlways, PTL DEF Spec
=============================================================================
