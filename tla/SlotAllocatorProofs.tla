------------------------ MODULE SlotAllocatorProofs ------------------------
(***************************************************************************)
(* Proofs about SlotAllocator for every capacity, slot size and width of   *)
(* the counters.  The inductive invariant is the conjunction of the type   *)
(* invariant, SlotPartition and UsageExact: that used_slots_ does not wrap *)
(* needs the number of held slots to be below total_slots_, which needs    *)
(* held slots and stacked slots to partition what lies below next_slot_.   *)
(* That the slots lie within the capacity needs LaidOut beside it.         *)
(***************************************************************************)
EXTENDS SlotAllocator, FiniteSetTheorems, FunctionTheorems,
        SequenceTheorems, TLAPS

Inv == TypeOK /\ SlotPartition /\ UsageExact

----------------------------------------------------------------------------
(* What popping p slots leaves on the stack. *)
Below(p) == SubSeq(freeStack, 1, Len(freeStack) - p)

(* Popping p slots off a stack without duplicates takes p slots, and the   *)
(* others are left.                                                        *)
LEMMA StackTop ==
    ASSUME NEW S, freeStack \in Seq(S), NEW p \in 0 .. Len(freeStack),
           \A i, j \in DOMAIN freeStack : i # j => freeStack[i] # freeStack[j]
    PROVE  /\ Below(p) \in Seq(S)
           /\ DOMAIN Below(p) = 1 .. Len(freeStack) - p
           /\ \A i \in DOMAIN Below(p) : Below(p)[i] = freeStack[i]
           /\ IsFiniteSet(PoppedSlots(p))
           /\ Cardinality(PoppedSlots(p)) = p
           /\ StackSet = PoppedSlots(p) \cup {Below(p)[i] : i \in DOMAIN Below(p)}
           /\ PoppedSlots(p) \cap {Below(p)[i] : i \in DOMAIN Below(p)} = {}
<1> DEFINE n == Len(freeStack)
           top == (n - p + 1) .. n
<1>1. /\ n \in Nat
      /\ DOMAIN freeStack = 1 .. n
      /\ freeStack \in [1 .. n -> S]
    BY LenProperties
<1>2. /\ Below(p) \in Seq(S)
      /\ Len(Below(p)) = n - p
      /\ \A i \in 1 .. n - p : Below(p)[i] = freeStack[i]
  <2>1. \A i \in 1 .. n - p : freeStack[i] \in S
      BY <1>1
  <2>2. /\ SubSeq(freeStack, 1, n - p) \in Seq(S)
        /\ Len(SubSeq(freeStack, 1, n - p)) = IF 1 <= n - p THEN (n - p) - 1 + 1 ELSE 0
        /\ \A i \in 1 .. (n - p) - 1 + 1 : SubSeq(freeStack, 1, n - p)[i] = freeStack[1 + i - 1]
      BY <1>1, <2>1, SubSeqProperties
  <2>3. Below(p) = SubSeq(freeStack, 1, n - p)
      BY DEF Below
  <2> HIDE DEF n
  <2>4. \A i \in 1 .. n - p : SubSeq(freeStack, 1, n - p)[i] = freeStack[i]
      BY <1>1, <2>2
  <2>5. Len(SubSeq(freeStack, 1, n - p)) = n - p
    <3>1. p \in Nat /\ p <= n
        BY <1>1 DEF n
    <3> QED
        BY <1>1, <2>2, <3>1
  <2> QED
      BY <2>2, <2>3, <2>4, <2>5
<1>3. DOMAIN Below(p) = 1 .. n - p
    BY <1>2, LenProperties
<1>4. IsFiniteSet(PoppedSlots(p)) /\ Cardinality(PoppedSlots(p)) = p
  <2> DEFINE f == [i \in top |-> freeStack[i]]
  <2>1. top \subseteq 1 .. n
      BY <1>1
  <2>2. f \in Bijection(top, PoppedSlots(p))
    <3>1. f \in [top -> PoppedSlots(p)]
        BY DEF PoppedSlots
    <3>2. \A i, j \in top : f[i] = f[j] => i = j
        BY <1>1, <2>1
    <3>3. \A x \in PoppedSlots(p) : \E i \in top : f[i] = x
        BY DEF PoppedSlots
    <3> QED
        BY <3>1, <3>2, <3>3, Fun_IsBij
  <2>3. ExistsBijection(top, PoppedSlots(p))
      BY <2>2 DEF ExistsBijection
  <2>4. IsFiniteSet(top) /\ Cardinality(top) = p
      BY <1>1, FS_Interval
  <2> QED
      BY <2>3, <2>4, FS_Bijection
<1>5. 1 .. n = top \cup (1 .. n - p) /\ top \cap (1 .. n - p) = {}
    BY <1>1
<1> HIDE DEF top
<1>6. /\ StackSet = PoppedSlots(p) \cup {Below(p)[i] : i \in DOMAIN Below(p)}
      /\ PoppedSlots(p) \cap {Below(p)[i] : i \in DOMAIN Below(p)} = {}
  <2>1. PoppedSlots(p) = {freeStack[i] : i \in top}
      BY DEF top, PoppedSlots
  <2>2. {Below(p)[i] : i \in DOMAIN Below(p)} = {freeStack[i] : i \in 1 .. n - p}
      BY <1>2, <1>3
  <2>3. StackSet = {freeStack[i] : i \in top} \cup {freeStack[i] : i \in 1 .. n - p}
      BY <1>1, <1>5 DEF StackSet
  <2>4. {freeStack[i] : i \in top} \cap {freeStack[i] : i \in 1 .. n - p} = {}
      BY <1>1, <1>5
  <2> QED
      BY <2>1, <2>2, <2>3, <2>4
<1> QED
    BY <1>1, <1>2, <1>3, <1>4, <1>6

(* The smaller of two numbers is one of them and exceeds neither. *)
LEMMA SmallerIsMinimum ==
    ASSUME NEW a \in Nat, NEW b \in Nat
    PROVE  /\ Smaller(a, b) \in Nat
           /\ Smaller(a, b) <= a
           /\ Smaller(a, b) <= b
           /\ Smaller(a, b) = a \/ Smaller(a, b) = b
    BY DEF Smaller

(* A layout has at least one slot and fewer than a counter can hold. *)
LEMMA SlotsInBounds ==
    ASSUME NEW size \in Nat \ {0}
    PROVE  SlotsIn(size) \in 1 .. U32 - 1
<1> DEFINE q == TotalBytes \div size
           n == q % U32
<1>1. TotalBytes \in Nat /\ U32 \in Nat /\ U32 > 1
    BY AllocatorAssumption
<1>2. q \in Nat
    BY <1>1
<1> HIDE DEF q
<1>3. n \in 0 .. U32 - 1
    BY <1>1, <1>2
<1> HIDE DEF n
<1>4. SlotsIn(size) = IF n = 0 THEN 1 ELSE n
    BY DEF SlotsIn, n, q
<1> QED
    BY <1>1, <1>3, <1>4

(* After the lazy initialisation the allocator is laid out; it is the      *)
(* layout of before, or there was none and no slot had been given out.     *)
LEMMA LayoutSettled ==
    ASSUME Inv, NEW size \in Sizes, initialized \/ size # 0, LazyInit(size)
    PROVE  /\ slotSize' \in Nat \ {0}
           /\ totalSlots' \in 1 .. U32 - 1
           /\ initialized' = TRUE
           /\ autoDetected' \in BOOLEAN
           /\ totalSlots <= totalSlots'
           /\ initialized => UNCHANGED layout
           /\ ~initialized => totalSlots = 0 /\ autoDetected' = TRUE /\ slotSize' = size
<1>1. size \in Nat /\ U32 \in Nat
    BY AllocatorAssumption
<1>2. CASE initialized
    BY <1>1, <1>2 DEF Inv, TypeOK, LazyInit, layout
<1>3. CASE ~initialized
  <2>1. size \in Nat \ {0}
      BY <1>1, <1>3
  <2>2. SlotsIn(size) \in 1 .. U32 - 1
      BY <2>1, SlotsInBounds
  <2>3. /\ slotSize' = size /\ totalSlots' = SlotsIn(size)
        /\ initialized' = TRUE /\ autoDetected' = TRUE
      BY <1>3 DEF LazyInit
  <2>4. totalSlots = 0
      BY <1>3 DEF Inv, TypeOK
  <2> QED
      BY <1>1, <1>3, <2>1, <2>2, <2>3, <2>4
<1> QED
    BY <1>2, <1>3

(* The slots a call takes are free ones, as many as asked for or else all  *)
(* that are left; below the bump pointer the partition is kept.            *)
LEMMA SlotsTaken ==
    \A count \in Nat \ {0} :
        Inv /\ TakeSlots(count) /\ totalSlots' \in Nat /\ totalSlots <= totalSlots' =>
            \E S \in SUBSET (0 .. totalSlots' - 1) :
                /\ IsFiniteSet(S)
                /\ S \cap held = {}
                /\ held' = held \cup S
                /\ usedSlots' = (usedSlots + Cardinality(S)) % U32
                /\ \/ Cardinality(S) = count
                   \/ Cardinality(S) < count /\ S = (0 .. totalSlots' - 1) \ held
                /\ nextSlot' \in nextSlot .. totalSlots'
                /\ nextSlot < totalSlots' => S # {}
                /\ freeStack' \in Seq(0 .. totalSlots' - 1)
                /\ SlotPartition'
<1> TAKE count \in Nat \ {0}
<1>0. SUFFICES ASSUME Inv, TakeSlots(count), totalSlots' \in Nat, totalSlots <= totalSlots'
               PROVE  \E S \in SUBSET (0 .. totalSlots' - 1) :
                          /\ IsFiniteSet(S)
                          /\ S \cap held = {}
                          /\ held' = held \cup S
                          /\ usedSlots' = (usedSlots + Cardinality(S)) % U32
                          /\ \/ Cardinality(S) = count
                             \/ Cardinality(S) < count /\ S = (0 .. totalSlots' - 1) \ held
                          /\ nextSlot' \in nextSlot .. totalSlots'
                          /\ nextSlot < totalSlots' => S # {}
                          /\ freeStack' \in Seq(0 .. totalSlots' - 1)
                          /\ SlotPartition'
    OBVIOUS
<1>0a. PICK T \in Nat, O \in Nat, N \in Nat :
          T = totalSlots' /\ O = totalSlots /\ N = nextSlot
    BY <1>0 DEF Inv, TypeOK
<1>0b. O <= T /\ N <= O
    BY <1>0, <1>0a DEF Inv, TypeOK
<1>1. /\ freeStack \in Seq(0 .. O - 1)
      /\ held \in SUBSET (0 .. O - 1)
      /\ usedSlots \in Nat
    BY <1>0, <1>0a, AllocatorAssumption DEF Inv, TypeOK
<1>2. /\ held \cap StackSet = {}
      /\ held \cup StackSet = 0 .. N - 1
      /\ \A i, j \in DOMAIN freeStack : i # j => freeStack[i] # freeStack[j]
    BY <1>0, <1>0a DEF Inv, SlotPartition
<1>3. PICK L \in Nat : L = Len(freeStack)
    BY <1>1, LenProperties
<1>4. PICK p \in Nat : p = Smaller(count, L)
    BY SmallerIsMinimum
<1>4a. p <= L /\ p <= count /\ (p = count \/ p = L)
    BY <1>4, SmallerIsMinimum
<1>5. PICK b \in Nat : b = Smaller(count - p, T - N)
  <2>1. count - p \in Nat /\ T - N \in Nat
      BY <1>0b, <1>4a
  <2> QED
      BY <2>1, SmallerIsMinimum
<1>5a. b <= T - N /\ b <= count - p /\ (b = count - p \/ b = T - N)
  <2>1. count - p \in Nat /\ T - N \in Nat
      BY <1>0b, <1>4a
  <2> QED
      BY <1>5, <2>1, SmallerIsMinimum
<1> DEFINE P == PoppedSlots(p)
           B == N .. N + b - 1
           S == P \cup B
           R == {freeStack'[i] : i \in DOMAIN freeStack'}
<1>6. /\ freeStack' = SubSeq(freeStack, 1, L - p)
      /\ nextSlot' = N + b
      /\ usedSlots' = (usedSlots + p + b) % U32
      /\ held' = held \cup P \cup B
    BY <1>0, <1>0a, <1>3, <1>4, <1>5 DEF TakeSlots
<1>7. p \in 0 .. L
    BY <1>4a
<1>8. /\ freeStack' \in Seq(0 .. O - 1)
      /\ DOMAIN freeStack' = 1 .. L - p
      /\ \A i \in DOMAIN freeStack' : freeStack'[i] = freeStack[i]
      /\ IsFiniteSet(P)
      /\ Cardinality(P) = p
      /\ StackSet = P \cup R
      /\ P \cap R = {}
  <2>1. p \in 0 .. Len(freeStack) /\ freeStack' = Below(p)
      BY <1>3, <1>6, <1>7 DEF Below
  <2>2. /\ Below(p) \in Seq(0 .. O - 1)
        /\ DOMAIN Below(p) = 1 .. Len(freeStack) - p
        /\ \A i \in DOMAIN Below(p) : Below(p)[i] = freeStack[i]
        /\ IsFiniteSet(P)
        /\ Cardinality(P) = p
        /\ StackSet = P \cup {Below(p)[i] : i \in DOMAIN Below(p)}
        /\ P \cap {Below(p)[i] : i \in DOMAIN Below(p)} = {}
      BY <1>1, <1>2, <2>1, StackTop
  <2> QED
      BY <1>3, <2>1, <2>2
<1> HIDE DEF P
<1>9. IsFiniteSet(B) /\ Cardinality(B) = b
  <2>1. /\ IsFiniteSet(N .. N + b - 1)
        /\ Cardinality(N .. N + b - 1) = IF N > N + b - 1 THEN 0 ELSE (N + b - 1) - N + 1
      BY FS_Interval
  <2> QED
      BY <2>1
<1>10. B \cap (0 .. N - 1) = {} /\ B \subseteq 0 .. T - 1
    BY <1>0b, <1>5a
<1>11. (0 .. N - 1) \cup B = 0 .. N + b - 1
    BY <1>5a
<1> HIDE DEF B, R
<1>12. IsFiniteSet(S) /\ Cardinality(S) = p + b
  <2>1. P \cap B = {}
      BY <1>2, <1>8, <1>10
  <2>2. Cardinality(P \cap B) = 0
      BY <2>1, FS_EmptySet
  <2>3. /\ IsFiniteSet(P \cup B)
        /\ Cardinality(P \cup B) = Cardinality(P) + Cardinality(B) - Cardinality(P \cap B)
      BY <1>8, <1>9, FS_Union
  <2> QED
      BY <1>8, <1>9, <2>2, <2>3
<1>13. S \in SUBSET (0 .. T - 1)
  <2>1. 0 .. N - 1 \subseteq 0 .. T - 1
      BY <1>0b
  <2> QED
      BY <1>2, <1>8, <1>10, <2>1
<1>14. S \cap held = {} /\ held' = held \cup S
    BY <1>2, <1>6, <1>8, <1>10
<1>15. held' \cap R = {} /\ held' \cup R = 0 .. N + b - 1
    BY <1>2, <1>8, <1>10, <1>11, <1>14
<1>16. SlotPartition'
  <2>1. StackSet' = R
      BY DEF StackSet, R
  <2>2. \A i, j \in DOMAIN freeStack' : i # j => freeStack'[i] # freeStack'[j]
    <3>1. DOMAIN freeStack' \subseteq DOMAIN freeStack
        BY <1>1, <1>3, <1>7, <1>8, LenProperties
    <3> QED
        BY <1>2, <1>8, <3>1
  <2> QED
      BY <1>6, <1>15, <2>1, <2>2 DEF SlotPartition
<1>17. \/ Cardinality(S) = count
       \/ Cardinality(S) < count /\ S = (0 .. T - 1) \ held
  <2>1. CASE b = count - p
      BY <1>4a, <1>12, <2>1
  <2>2. CASE b # count - p
    <3>1. b = T - N /\ p = L /\ p + b < count
        BY <1>4a, <1>5a, <2>2
    <3>2. R = {}
        BY <1>8, <3>1 DEF R
    <3>3. held \cup S = 0 .. T - 1
        BY <1>14, <1>15, <3>1, <3>2
    <3> QED
        BY <1>12, <1>14, <3>1, <3>3
  <2> QED
      BY <2>1, <2>2
<1>18. N < T => S # {}
  <2> SUFFICES ASSUME N < T, S = {}
               PROVE  FALSE
      OBVIOUS
  <2>1. p + b = 0
      BY <1>12, FS_EmptySet
  <2> QED
      BY <1>0b, <1>4a, <1>5a, <2>1
<1>19. freeStack' \in Seq(0 .. T - 1)
  <2>1. 0 .. O - 1 \subseteq 0 .. T - 1
      BY <1>0b
  <2>2. PICK rest \in Seq(0 .. O - 1) : rest = freeStack'
      BY <1>8
  <2>3. rest \in Seq(0 .. T - 1)
      BY <2>1, SeqMonotonic
  <2> QED
      BY <2>2, <2>3
<1>20. nextSlot' \in N .. T
    BY <1>0b, <1>5a, <1>6
<1>21. usedSlots' = (usedSlots + Cardinality(S)) % U32
  <2>1. usedSlots + p + b = usedSlots + Cardinality(S)
      BY <1>1, <1>12
  <2> QED
      BY <1>6, <2>1
<1> HIDE DEF S
<1> QED
    BY <1>0a, <1>12, <1>13, <1>14, <1>16, <1>17, <1>18, <1>19, <1>20, <1>21

----------------------------------------------------------------------------
(* Slots added to held ones that they are not among add up. *)
LEMMA CountGrows ==
    ASSUME NEW h, NEW S, IsFiniteSet(h), IsFiniteSet(S), S \cap h = {}
    PROVE  Cardinality(h \cup S) = Cardinality(h) + Cardinality(S)
<1>1. Cardinality(h \cap S) = 0
    BY FS_EmptySet
<1>2. Cardinality(h) \in Nat /\ Cardinality(S) \in Nat
    BY FS_CardinalityType
<1>3. Cardinality(h \cup S) = Cardinality(h) + Cardinality(S) - Cardinality(h \cap S)
    BY FS_Union
<1> QED
    BY <1>1, <1>2, <1>3

(* A counter that does not overflow is not reduced. *)
LEMMA NoWrap ==
    ASSUME NEW x \in Nat, x < U32
    PROVE  x % U32 = x
    BY AllocatorAssumption

(* The allocator starts in a state of the invariant. *)
LEMMA InitInv == Init => Inv
<1> SUFFICES ASSUME Init
             PROVE  Inv
    OBVIOUS
<1>1. slotSize \in Nat /\ U32 \in Nat /\ U32 > 1
    BY AllocatorAssumption DEF Init
<1>2. TypeOK
  <2>1. <<>> \in Seq(0 .. totalSlots - 1)
      BY EmptySeq
  <2>2. /\ usedSlots = 0 /\ nextSlot = 0 /\ freeStack = <<>> /\ held = {}
        /\ autoDetected = FALSE
        /\ initialized = (slotSize > 0)
      BY DEF Init
  <2>3. initialized \in BOOLEAN /\ (initialized <=> slotSize > 0)
    <3>1. CASE slotSize > 0
      <4>1. initialized = TRUE
          BY <2>2, <3>1
      <4> QED
          BY <3>1, <4>1
    <3>2. CASE ~(slotSize > 0)
      <4>1. initialized = FALSE
        <5>1. slotSize = 0
            BY <1>1, <3>2
        <5>2. (slotSize > 0) = FALSE
            BY <5>1
        <5> QED
            BY <2>2, <5>2, Zenon
      <4> QED
          BY <3>2, <4>1
    <3> QED
        BY <3>1, <3>2
  <2>4. totalSlots \in 0 .. U32 - 1 /\ (slotSize > 0 <=> totalSlots > 0)
    <3>1. CASE slotSize > 0
      <4>1. SlotsIn(slotSize) \in 1 .. U32 - 1
          BY <1>1, <3>1, SlotsInBounds
      <4>2. totalSlots = SlotsIn(slotSize)
          BY <3>1 DEF Init
      <4> QED
          BY <1>1, <3>1, <4>1, <4>2
    <3>2. CASE ~(slotSize > 0)
      <4>1. totalSlots = 0
          BY <3>2 DEF Init
      <4> QED
          BY <1>1, <3>2, <4>1
    <3> QED
        BY <3>1, <3>2
  <2>5. usedSlots \in 0 .. U32 - 1 /\ nextSlot \in 0 .. totalSlots
      BY <1>1, <2>2, <2>4
  <2>6. initialized <=> totalSlots > 0
      BY <2>3, <2>4, Zenon
  <2>7. /\ freeStack \in Seq(0 .. totalSlots - 1)
        /\ held \in SUBSET (0 .. totalSlots - 1)
        /\ autoDetected \in BOOLEAN
      BY <2>1, <2>2
  <2> QED
      BY <1>1, <2>3, <2>4, <2>5, <2>6, <2>7, Zenon DEF TypeOK
<1>3. SlotPartition
  <2>1. DOMAIN freeStack = {}
      BY DEF Init
  <2> QED
      BY <2>1 DEF Init, SlotPartition, StackSet
<1>4. UsageExact
    BY FS_EmptySet DEF Init, UsageExact
<1> QED
    BY <1>2, <1>3, <1>4 DEF Inv

(* Taking slots keeps the invariant, once the layout is settled. *)
LEMMA TakeSlotsInv ==
    \A size \in Sizes, count \in Nat \ {0} :
        Inv /\ (initialized \/ size # 0) /\ LazyInit(size) /\ TakeSlots(count) => Inv'
<1> TAKE size \in Sizes, count \in Nat \ {0}
<1>0. SUFFICES ASSUME Inv, initialized \/ size # 0, LazyInit(size), TakeSlots(count)
               PROVE  Inv'
    OBVIOUS
<1>1. /\ slotSize' \in Nat \ {0}
      /\ totalSlots' \in 1 .. U32 - 1
      /\ initialized' = TRUE
      /\ autoDetected' \in BOOLEAN
      /\ totalSlots <= totalSlots'
    BY <1>0, LayoutSettled
<1>2. PICK T \in 1 .. U32 - 1 : T = totalSlots'
    BY <1>1
<1>2a. T \in Nat
    BY <1>2, AllocatorAssumption
<1>3. PICK S \in SUBSET (0 .. T - 1) :
          /\ IsFiniteSet(S)
          /\ S \cap held = {}
          /\ held' = held \cup S
          /\ usedSlots' = (usedSlots + Cardinality(S)) % U32
          /\ nextSlot' \in nextSlot .. T
          /\ freeStack' \in Seq(0 .. T - 1)
          /\ SlotPartition'
  <2>1. totalSlots' \in Nat
      BY <1>2, <1>2a
  <2> QED
      BY <1>0, <1>1, <1>2, <2>1, SlotsTaken
<1>4. PICK N \in 0 .. T : N = nextSlot'
  <2>1. PICK M \in Nat : M = nextSlot
      BY <1>0 DEF Inv, TypeOK
  <2>2. nextSlot' \in M .. T
      BY <1>3, <2>1
  <2>3. M .. T \subseteq 0 .. T
      BY <1>2a
  <2> QED
      BY <2>2, <2>3
<1>4a. N \in Nat /\ N <= T
    BY <1>2a
<1>5. held \in SUBSET (0 .. T - 1)
  <2>1. PICK O \in Nat : O = totalSlots
      BY <1>0, AllocatorAssumption DEF Inv, TypeOK
  <2>2. O <= T /\ held \in SUBSET (0 .. O - 1)
      BY <1>0, <1>1, <1>2, <2>1 DEF Inv, TypeOK
  <2>3. 0 .. O - 1 \subseteq 0 .. T - 1
      BY <1>2a, <2>2
  <2> QED
      BY <2>2, <2>3
<1>6. held' \in SUBSET (0 .. T - 1) /\ held' \in SUBSET (0 .. N - 1)
  <2>1. held' \cup StackSet' = 0 .. N - 1
      BY <1>3, <1>4 DEF SlotPartition
  <2> QED
      BY <1>3, <1>5, <2>1
<1>7. UsageExact' /\ usedSlots' \in 0 .. U32 - 1
  <2>1. IsFiniteSet(0 .. N - 1) /\ Cardinality(0 .. N - 1) = N
    <3>1. /\ IsFiniteSet(0 .. N - 1)
          /\ Cardinality(0 .. N - 1) = IF 0 > N - 1 THEN 0 ELSE (N - 1) - 0 + 1
        BY <1>4a, FS_Interval
    <3> QED
        BY <1>4a, <3>1
  <2>2. /\ IsFiniteSet(held') /\ Cardinality(held') <= N
        /\ Cardinality(held') \in Nat
      BY <1>6, <2>1, FS_Subset, FS_CardinalityType
  <2>3. IsFiniteSet(held)
      BY <1>3, <2>2, FS_Subset
  <2>4. Cardinality(held') = Cardinality(held) + Cardinality(S)
      BY <1>3, <2>3, CountGrows
  <2>5. usedSlots = Cardinality(held)
      BY <1>0 DEF Inv, UsageExact
  <2>6. PICK c \in Nat : c = Cardinality(held')
      BY <2>2
  <2>7. c < U32 /\ U32 \in Nat
    <3>1. c <= N
        BY <2>2, <2>6
    <3> QED
        BY <1>2a, <1>4a, <3>1, AllocatorAssumption
  <2>8. c % U32 = c
      BY <2>7, NoWrap
  <2> QED
      BY <1>3, <2>4, <2>5, <2>6, <2>7, <2>8 DEF UsageExact
<1>8. TypeOK'
  <2>1. slotSize' \in Nat /\ slotSize' > 0 /\ totalSlots' \in 0 .. U32 - 1 /\ totalSlots' > 0
      BY <1>1
  <2>2. nextSlot' \in 0 .. totalSlots' /\ usedSlots' \in 0 .. U32 - 1
      BY <1>2, <1>4, <1>7
  <2>3. /\ freeStack' \in Seq(0 .. totalSlots' - 1)
        /\ held' \in SUBSET (0 .. totalSlots' - 1)
      BY <1>2, <1>3, <1>6
  <2> QED
      BY <1>1, <2>1, <2>2, <2>3, Zenon DEF TypeOK
<1> QED
    BY <1>3, <1>7, <1>8 DEF Inv

(* An offset of a held slot is not truncated to the index of another one.  *)
LEMMA FreedIsHeld ==
    \A offset \in Int :
        Inv /\ CallerMayFree(offset) /\ Accepted(offset) => SlotOf(offset) \in held
<1> TAKE offset \in Int
<1>0. SUFFICES ASSUME Inv, CallerMayFree(offset), Accepted(offset)
               PROVE  SlotOf(offset) \in held
    OBVIOUS
<1>1. PICK q \in held : q = offset \div slotSize
    BY <1>0 DEF CallerMayFree
<1>2. q \in 0 .. totalSlots - 1 /\ totalSlots \in 0 .. U32 - 1
    BY <1>0 DEF Inv, TypeOK
<1>3. q \in Nat /\ q < U32
    BY <1>2, AllocatorAssumption
<1>4. q % U32 = q
    BY <1>3, NoWrap
<1> QED
    BY <1>1, <1>4 DEF SlotOf

(* Freeing a slot that the caller holds puts it back on the stack once,    *)
(* and the count of used slots was at least one.                           *)
LEMMA FreeInv ==
    \A offset \in Int : Inv /\ CallerMayFree(offset) /\ Free(offset) => Inv'
<1> TAKE offset \in Int
<1>0. SUFFICES ASSUME Inv, CallerMayFree(offset), Free(offset)
               PROVE  Inv'
    OBVIOUS
<1>1. CASE ~Accepted(offset)
  <2>1. UNCHANGED vars
      BY <1>0, <1>1 DEF Free
  <2> QED
      BY <1>0, <2>1, Zenon DEF Inv, TypeOK, SlotPartition, UsageExact, StackSet, vars
<1>2. CASE Accepted(offset)
  <2>1. PICK q \in held : q = SlotOf(offset)
      BY <1>0, <1>2, FreedIsHeld
  <2>2. /\ freeStack' = Append(freeStack, q)
        /\ usedSlots' = (usedSlots - 1) % U32
        /\ held' = held \ {q}
        /\ UNCHANGED <<slotSize, totalSlots, initialized, autoDetected, nextSlot>>
      BY <1>0, <1>2, <2>1 DEF Free
  <2>3. PICK T \in Nat, N \in Nat, L \in Nat :
            T = totalSlots /\ N = nextSlot /\ L = Len(freeStack)
    <3>1. totalSlots \in Nat /\ nextSlot \in Nat
        BY <1>0, AllocatorAssumption DEF Inv, TypeOK
    <3>2. Len(freeStack) \in Nat
        BY <1>0, LenProperties DEF Inv, TypeOK
    <3> QED
        BY <3>1, <3>2
  <2>4. /\ freeStack \in Seq(0 .. T - 1)
        /\ held \in SUBSET (0 .. T - 1)
        /\ N <= T
        /\ T < U32
      BY <1>0, <2>3, AllocatorAssumption DEF Inv, TypeOK
  <2>5. /\ held \cap StackSet = {}
        /\ held \cup StackSet = 0 .. N - 1
        /\ \A i, j \in DOMAIN freeStack : i # j => freeStack[i] # freeStack[j]
        /\ usedSlots = Cardinality(held)
      BY <1>0, <2>3 DEF Inv, SlotPartition, UsageExact
  <2>6. q \in 0 .. T - 1
      BY <2>4
  <2>7. PICK g \in Seq(0 .. T - 1) :
            /\ g = freeStack'
            /\ DOMAIN g = 1 .. L + 1
            /\ \A i \in 1 .. L : g[i] = freeStack[i]
            /\ g[L + 1] = q
    <3>1. /\ Append(freeStack, q) \in Seq(0 .. T - 1)
          /\ Len(Append(freeStack, q)) = Len(freeStack) + 1
          /\ \A i \in 1 .. Len(freeStack) : Append(freeStack, q)[i] = freeStack[i]
          /\ Append(freeStack, q)[Len(freeStack) + 1] = q
        BY <2>4, <2>6, AppendProperties
    <3>2. DOMAIN Append(freeStack, q) = 1 .. L + 1
        BY <2>3, <3>1, LenProperties
    <3> QED
        BY <2>2, <2>3, <3>1, <3>2
  <2>8. DOMAIN freeStack = 1 .. L
      BY <2>3, <2>4, LenProperties
  <2>9. {g[i] : i \in DOMAIN g} = StackSet \cup {q}
    <3>1. 1 .. L + 1 = (1 .. L) \cup {L + 1}
        OBVIOUS
    <3> QED
        BY <2>7, <2>8, <3>1 DEF StackSet
  <2>10. SlotPartition'
    <3>1. StackSet' = StackSet \cup {q}
        BY <2>7, <2>9 DEF StackSet
    <3>2. q \notin StackSet
        BY <2>5
    <3>3. held' \cap StackSet' = {} /\ held' \cup StackSet' = 0 .. N - 1
        BY <2>2, <2>5, <3>1, <3>2
    <3>4. \A i, j \in DOMAIN g : i # j => g[i] # g[j]
      <4>1. \A i \in 1 .. L : g[i] # q
          BY <2>7, <2>8, <3>2 DEF StackSet
      <4> QED
          BY <2>5, <2>7, <2>8, <4>1
    <3> QED
        BY <2>2, <2>3, <2>7, <3>3, <3>4 DEF SlotPartition
  <2>11. UsageExact' /\ usedSlots' \in 0 .. U32 - 1
    <3>1. IsFiniteSet(0 .. T - 1) /\ Cardinality(0 .. T - 1) = T
      <4>1. /\ IsFiniteSet(0 .. T - 1)
            /\ Cardinality(0 .. T - 1) = IF 0 > T - 1 THEN 0 ELSE (T - 1) - 0 + 1
          BY FS_Interval
      <4> QED
          BY <4>1
    <3>2. /\ IsFiniteSet(held) /\ Cardinality(held) <= T
          /\ Cardinality(held) \in Nat
        BY <2>4, <3>1, FS_Subset, FS_CardinalityType
    <3>3. /\ IsFiniteSet(held \ {q})
          /\ Cardinality(held \ {q}) = Cardinality(held) - 1
        BY <3>2, FS_RemoveElement
    <3>4. Cardinality(held \ {q}) \in Nat
        BY <3>3, FS_CardinalityType
    <3>5. PICK c \in Nat : c = Cardinality(held \ {q})
        BY <3>4
    <3>6. c = usedSlots - 1 /\ c < U32 /\ U32 \in Nat
        BY <2>4, <2>5, <3>2, <3>3, <3>5, AllocatorAssumption
    <3>7. c % U32 = c
        BY <3>6, NoWrap
    <3> QED
        BY <2>2, <3>5, <3>6, <3>7 DEF UsageExact
  <2>12. TypeOK'
    <3>1. /\ slotSize' \in Nat /\ totalSlots' \in 0 .. U32 - 1
          /\ nextSlot' \in 0 .. totalSlots'
          /\ initialized' \in BOOLEAN /\ autoDetected' \in BOOLEAN
          /\ initialized' <=> slotSize' > 0
          /\ initialized' <=> totalSlots' > 0
        BY <1>0, <2>2, Zenon DEF Inv, TypeOK
    <3>2. totalSlots' = T
        BY <2>2, <2>3
    <3>3. /\ freeStack' \in Seq(0 .. totalSlots' - 1)
          /\ held' \in SUBSET (0 .. totalSlots' - 1)
        BY <2>2, <2>4, <2>7, <3>2
    <3> QED
        BY <2>11, <3>1, <3>3, Zenon DEF TypeOK
  <2> QED
      BY <2>10, <2>11, <2>12 DEF Inv
<1> QED
    BY <1>1, <1>2

(* A refused allocation changes nothing: a size is only refused by a       *)
(* layout that was there before.                                           *)
LEMMA RefusedUnchanged ==
    \A size \in Sizes :
        Inv /\ (initialized \/ size # 0) /\ LazyInit(size)
            /\ ~SizeAccepted(size) /\ Refuse => UNCHANGED vars
<1> TAKE size \in Sizes
<1>0. SUFFICES ASSUME Inv, initialized \/ size # 0, LazyInit(size),
                      ~SizeAccepted(size), Refuse
               PROVE  UNCHANGED vars
    OBVIOUS
<1>1. /\ initialized => UNCHANGED layout
      /\ ~initialized => autoDetected' = TRUE /\ slotSize' = size
    BY <1>0, LayoutSettled
<1>2. initialized
    BY <1>0, <1>1 DEF SizeAccepted
<1> QED
    BY <1>0, <1>1, <1>2 DEF Refuse, layout, vars

(* A step that changes nothing keeps the invariant. *)
LEMMA StutterInv == Inv /\ UNCHANGED vars => Inv'
<1>0. SUFFICES ASSUME Inv, UNCHANGED vars
               PROVE  Inv'
    OBVIOUS
<1> QED
    BY <1>0, Zenon DEF Inv, TypeOK, SlotPartition, UsageExact, StackSet, vars

(* Every operation keeps the invariant. *)
LEMMA NextInv == Inv /\ [Next]_vars => Inv'
<1>0. SUFFICES ASSUME Inv, [Next]_vars
               PROVE  Inv'
    OBVIOUS
<1>1. ASSUME NEW size \in Sizes, Alloc(size)
      PROVE  Inv'
  <2>1. CASE SizeAccepted(size)
    <3>1. /\ initialized \/ size # 0
          /\ LazyInit(size)
          /\ TakeSlots(1)
        BY <1>1, <2>1 DEF Alloc
    <3> QED
        BY <1>0, <3>1, TakeSlotsInv
  <2>2. CASE ~SizeAccepted(size)
    <3>1. (initialized \/ size # 0) /\ LazyInit(size) /\ Refuse
        BY <1>1, <2>2 DEF Alloc
    <3> QED
        BY <1>0, <2>2, <3>1, RefusedUnchanged, StutterInv
  <2> QED
      BY <2>1, <2>2
<1>2. ASSUME NEW size \in Sizes, NEW count \in 1 .. MaxBatch, BatchAlloc(size, count)
      PROVE  Inv'
  <2>1. count \in Nat \ {0}
      BY AllocatorAssumption
  <2>2. CASE SizeAccepted(size)
    <3>1. /\ initialized \/ size # 0
          /\ LazyInit(size)
          /\ TakeSlots(count)
        BY <1>2, <2>2 DEF BatchAlloc
    <3> QED
        BY <1>0, <2>1, <3>1, TakeSlotsInv
  <2>3. CASE ~SizeAccepted(size)
    <3>1. (initialized \/ size # 0) /\ LazyInit(size) /\ Refuse
        BY <1>2, <2>3 DEF BatchAlloc
    <3> QED
        BY <1>0, <2>3, <3>1, RefusedUnchanged, StutterInv
  <2> QED
      BY <2>2, <2>3
<1>3. ASSUME NEW offset \in -1 .. MaxOffset, CallerMayFree(offset), Free(offset)
      PROVE  Inv'
  <2>1. offset \in Int
      BY AllocatorAssumption
  <2> QED
      BY <1>0, <1>3, <2>1, FreeInv
<1>4. CASE UNCHANGED vars
    BY <1>0, <1>4, StutterInv
<1> QED
    BY <1>0, <1>1, <1>2, <1>3, <1>4 DEF Next

(* The invariant holds in every reachable state. *)
LEMMA InvHolds == Spec => []Inv
    BY InitInv, NextInv, PTL DEF Spec

(* Type correctness, for every capacity, slot size and width of the        *)
(* counters; in particular next_slot_ never passes total_slots_ and the    *)
(* slot size is set exactly when there are slots.                          *)
THEOREM TypeCorrect == Spec => []TypeOK
<1>1. Inv => TypeOK
    BY DEF Inv
<1> QED
    BY <1>1, InvHolds, PTL

(* No sequence of Alloc, BatchAlloc and Free by callers that free what     *)
(* they hold makes two callers hold one slot, loses a slot or stacks one   *)
(* twice.                                                                  *)
THEOREM SlotPartitionHolds == Spec => []SlotPartition
<1>1. Inv => SlotPartition
    BY DEF Inv
<1> QED
    BY <1>1, InvHolds, PTL

(* used_slots_ counts the held slots and never wraps, whatever the width   *)
(* of the counter.                                                         *)
THEOREM UsageExactHolds == Spec => []UsageExact
<1>1. Inv => UsageExact
    BY DEF Inv
<1> QED
    BY <1>1, InvHolds, PTL

----------------------------------------------------------------------------
(* The layout is the one the capacity gives for the slot size. *)
LaidOut == initialized => totalSlots = SlotsIn(slotSize)

LEMMA QuotientFits ==
    ASSUME NEW a \in Nat, NEW b \in Nat \ {0}, NEW m \in Nat, m <= a \div b
    PROVE  m * b <= a
<1>1. PICK q \in Nat : q = a \div b
    OBVIOUS
<1>2. q * b <= a
    BY <1>1
<1>3. m * b <= q * b
    BY <1>1
<1> QED
    BY <1>2, <1>3

(* Truncating a quotient to 32 bits makes it no larger. *)
LEMMA SlotsFit ==
    ASSUME NEW size \in Nat \ {0}, SlotsIn(size) # 1
    PROVE  SlotsIn(size) <= TotalBytes \div size
<1>1. TotalBytes \in Nat /\ U32 \in Nat /\ U32 > 1
    BY AllocatorAssumption
<1>2. PICK q \in Nat : q = TotalBytes \div size
    BY <1>1
<1>3. SlotsIn(size) = q % U32
    BY <1>2 DEF SlotsIn
<1>4. q % U32 <= q
    BY <1>1
<1> QED
    BY <1>2, <1>3, <1>4

LEMMA LaidOutAlways == LaidOut /\ [Next]_vars => LaidOut'
<1> SUFFICES ASSUME LaidOut, [Next]_vars
             PROVE  LaidOut'
    OBVIOUS
<1>1. ASSUME NEW size \in Sizes, LazyInit(size)
      PROVE  LaidOut'
    BY <1>1 DEF LaidOut, LazyInit, layout, SlotsIn
<1>2. ASSUME NEW offset \in -1 .. MaxOffset, Free(offset)
      PROVE  LaidOut'
    BY <1>2 DEF LaidOut, Free, vars, SlotsIn
<1>3. ASSUME UNCHANGED vars
      PROVE  LaidOut'
    BY <1>3 DEF LaidOut, vars, SlotsIn
<1> QED
    BY <1>1, <1>2, <1>3 DEF Next, Alloc, BatchAlloc

(* Every slot handed out lies within the capacity of the data file, except *)
(* when the allocator has a single slot: a capacity of less than a slot,   *)
(* or a slot count that truncates to 0, still gives one.                   *)
THEOREM CapacityHolds == Spec => []CapacityRespected
<1>1. Init => LaidOut
    BY DEF Init, LaidOut
<1>2. Inv /\ LaidOut => CapacityRespected
  <2> SUFFICES ASSUME Inv, LaidOut, NEW s \in held, totalSlots # 1
               PROVE  (s + 1) * slotSize <= TotalBytes
      BY DEF CapacityRespected
  <2>1. totalSlots \in Nat /\ s \in 0 .. totalSlots - 1 /\ slotSize \in Nat
      BY DEF Inv, TypeOK
  <2>2. slotSize \in Nat \ {0} /\ totalSlots = SlotsIn(slotSize)
      BY <2>1 DEF Inv, TypeOK, LaidOut
  <2>3. totalSlots <= TotalBytes \div slotSize
      BY <2>2, SlotsFit
  <2>4. TotalBytes \in Nat /\ (TotalBytes \div slotSize) \in Nat
      BY <2>2, AllocatorAssumption
  <2>5. s + 1 \in Nat /\ s + 1 <= TotalBytes \div slotSize
      BY <2>1, <2>3, <2>4
  <2> QED
      BY <2>2, <2>4, <2>5, QuotientFits
<1> QED
    BY <1>1, <1>2, LaidOutAlways, InvHolds, PTL DEF Spec

----------------------------------------------------------------------------
(* Callers hold finitely many slots. *)
LEMMA HeldFinite == Inv => IsFiniteSet(held)
<1>0. SUFFICES ASSUME Inv
               PROVE  IsFiniteSet(held)
    OBVIOUS
<1>1. PICK T \in Nat : T = totalSlots
    BY <1>0, AllocatorAssumption DEF Inv, TypeOK
<1>2. held \in SUBSET (0 .. T - 1)
    BY <1>0, <1>1 DEF Inv, TypeOK
<1>3. IsFiniteSet(0 .. T - 1)
    BY FS_Interval
<1> QED
    BY <1>2, <1>3, FS_Subset

(* A call that is not refused grants free slots of the pool, or finds the  *)
(* pool exhausted and changes nothing of it.                               *)
LEMMA TakeSlotsGrants ==
    \A size \in Sizes, count \in 1 .. MaxBatch :
        Inv /\ (initialized \/ size # 0) /\ LazyInit(size) /\ TakeSlots(count)
            => [Pool!Next]_(Pool!vars)
<1> TAKE size \in Sizes, count \in 1 .. MaxBatch
<1>0. SUFFICES ASSUME Inv, initialized \/ size # 0, LazyInit(size), TakeSlots(count)
               PROVE  [Pool!Next]_(Pool!vars)
    OBVIOUS
<1>1. count \in Nat \ {0}
    BY AllocatorAssumption
<1>2. /\ totalSlots' \in 1 .. U32 - 1
      /\ totalSlots <= totalSlots'
      /\ initialized => UNCHANGED layout
      /\ ~initialized => totalSlots = 0
    BY <1>0, LayoutSettled
<1>3. totalSlots' \in Nat \ {0}
    BY <1>2, AllocatorAssumption
<1>4. PICK S \in SUBSET (0 .. totalSlots' - 1) :
          /\ IsFiniteSet(S)
          /\ S \cap held = {}
          /\ held' = held \cup S
          /\ \/ Cardinality(S) = count
             \/ Cardinality(S) < count /\ S = (0 .. totalSlots' - 1) \ held
          /\ nextSlot < totalSlots' => S # {}
    BY <1>0, <1>1, <1>2, <1>3, SlotsTaken
<1>5. totalSlots # 0 => totalSlots' = totalSlots
    BY <1>2 DEF layout
<1>5a. usedSlots' = usedSlots + Cardinality(S)
  <2>1. Inv'
      BY <1>0, <1>1, TakeSlotsInv
  <2>2. usedSlots = Cardinality(held) /\ usedSlots' = Cardinality(held')
      BY <1>0, <2>1 DEF Inv, UsageExact
  <2>3. Cardinality(held \cup S) = Cardinality(held) + Cardinality(S)
      BY <1>0, <1>4, HeldFinite, CountGrows
  <2> QED
      BY <1>4, <2>2, <2>3
<1>6. CASE S # {}
  <2>1. Pool!Grant(count)
    <3>1. Pool!Cardinality(S) = Cardinality(S)
        BY DEF Pool!Cardinality, Cardinality
    <3> QED
        BY <1>3, <1>4, <1>5, <1>5a, <1>6, <3>1, Zenon DEF Pool!Grant
  <2> QED
      BY <2>1 DEF Pool!Next
<1>7. CASE S = {}
  <2>1. held' = held
      BY <1>4, <1>7
  <2>2. ~(nextSlot < totalSlots')
      BY <1>4, <1>7
  <2>3. initialized
    <3>1. SUFFICES ASSUME ~initialized
                   PROVE  FALSE
        OBVIOUS
    <3>2. nextSlot = 0
        BY <1>0, <1>2, <3>1 DEF Inv, TypeOK
    <3> QED
        BY <1>3, <2>2, <3>2
  <2>4. totalSlots' = totalSlots
      BY <1>2, <2>3 DEF layout
  <2>5. usedSlots' = usedSlots
    <3>1. usedSlots' = usedSlots + 0
        BY <1>5a, <1>7, FS_EmptySet
    <3>2. usedSlots \in Nat
        BY <1>0, AllocatorAssumption DEF Inv, TypeOK
    <3> QED
        BY <3>1, <3>2
  <2> QED
      BY <2>1, <2>4, <2>5 DEF Pool!vars
<1> QED
    BY <1>6, <1>7

(* The allocator implements the pool: whatever the free stack and the bump *)
(* pointer do, callers see free slots granted, as many as they asked for   *)
(* or else all that are left, and held slots released.                     *)
THEOREM PoolRefined == Spec => PoolSpec
<1>1. Init => Pool!Init
  <2> SUFFICES ASSUME Init
               PROVE  Pool!Init
      OBVIOUS
  <2>1. totalSlots \in Nat
      BY InitInv, AllocatorAssumption DEF Inv, TypeOK
  <2> QED
      BY <2>1 DEF Init, Pool!Init
<1>2. Inv /\ [Next]_vars => [Pool!Next]_(Pool!vars)
  <2>0. SUFFICES ASSUME Inv, [Next]_vars
                 PROVE  [Pool!Next]_(Pool!vars)
      OBVIOUS
  <2>1. ASSUME UNCHANGED vars
        PROVE  UNCHANGED Pool!vars
      BY <2>1 DEF vars, Pool!vars
  <2>2. ASSUME NEW size \in Sizes, NEW count \in 1 .. MaxBatch,
               initialized \/ size # 0, LazyInit(size),
               IF SizeAccepted(size) THEN TakeSlots(count) ELSE Refuse
        PROVE  [Pool!Next]_(Pool!vars)
    <3>1. CASE SizeAccepted(size)
        BY <2>0, <2>2, <3>1, TakeSlotsGrants
    <3>2. CASE ~SizeAccepted(size)
        BY <2>0, <2>1, <2>2, <3>2, RefusedUnchanged
    <3> QED
        BY <3>1, <3>2
  <2>3. ASSUME NEW size \in Sizes, Alloc(size)
        PROVE  [Pool!Next]_(Pool!vars)
    <3>1. 1 \in 1 .. MaxBatch
        BY AllocatorAssumption
    <3>2. /\ initialized \/ size # 0
          /\ LazyInit(size)
          /\ IF SizeAccepted(size) THEN TakeSlots(1) ELSE Refuse
        BY <2>3 DEF Alloc
    <3> QED
        BY <2>2, <3>1, <3>2
  <2>4. ASSUME NEW size \in Sizes, NEW count \in 1 .. MaxBatch, BatchAlloc(size, count)
        PROVE  [Pool!Next]_(Pool!vars)
    <3>1. /\ initialized \/ size # 0
          /\ LazyInit(size)
          /\ IF SizeAccepted(size) THEN TakeSlots(count) ELSE Refuse
        BY <2>4 DEF BatchAlloc
    <3> QED
        BY <2>2, <3>1
  <2>5. ASSUME NEW offset \in -1 .. MaxOffset, CallerMayFree(offset), Free(offset)
        PROVE  [Pool!Next]_(Pool!vars)
    <3>1. CASE Accepted(offset)
      <4>1. SlotOf(offset) \in held
        <5>1. offset \in Int
            BY AllocatorAssumption
        <5> QED
            BY <2>0, <2>5, <3>1, <5>1, FreedIsHeld
      <4>2. held' = held \ {SlotOf(offset)} /\ totalSlots' = totalSlots
          BY <2>5, <3>1 DEF Free
      <4>3. usedSlots' = usedSlots - 1
        <5>1. Inv'
            BY <2>0, NextInv
        <5>2. usedSlots = Cardinality(held) /\ usedSlots' = Cardinality(held')
            BY <2>0, <5>1 DEF Inv, UsageExact
        <5>3. IsFiniteSet(held)
            BY <2>0, HeldFinite
        <5>4. Cardinality(held \ {SlotOf(offset)}) = Cardinality(held) - 1
            BY <4>1, <5>3, FS_RemoveElement
        <5> QED
            BY <4>2, <5>2, <5>4
      <4> QED
          BY <4>1, <4>2, <4>3 DEF Pool!Next, Pool!Release
    <3>2. CASE ~Accepted(offset)
        BY <2>1, <2>5, <3>2 DEF Free
    <3> QED
        BY <3>1, <3>2
  <2> QED
      BY <2>0, <2>1, <2>3, <2>4, <2>5 DEF Next
<1> QED
    BY <1>1, <1>2, InvHolds, PTL DEF Spec, PoolSpec, Pool!Spec

=============================================================================
