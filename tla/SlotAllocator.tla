--------------------------- MODULE SlotAllocator ---------------------------
(***************************************************************************)
(* src/common/slot_allocator.cpp: fixed-size slots of the SSD data file.   *)
(* Freed slots are reused from a LIFO stack before virgin slots are bumped *)
(* off next_slot_.  The slot size is configured or, when configured as 0,  *)
(* taken from the first allocation.  Every method runs under mutex_ and so *)
(* is one action.  Free does not check for a double free, so the           *)
(* guarantees here are those given to callers that free only what they     *)
(* hold; `held` is the auxiliary variable that says what that is.          *)
(***************************************************************************)
EXTENDS Integers, Sequences, FiniteSets

CONSTANTS TotalBytes,     \* capacity of the data file
          ConfigSlotSizes,\* values of the constructor's slot_size, 0 = detect
          Sizes,          \* sizes callers ask for
          MaxBatch,       \* bound: largest count passed to BatchAlloc
          MaxOffset,      \* bound: largest offset passed to Free
          U32             \* number of values of a uint32_t (2^32 in the code)

ASSUME AllocatorAssumption ==
    /\ TotalBytes \in Nat
    /\ ConfigSlotSizes \subseteq Nat
    /\ Sizes \subseteq Nat
    /\ MaxBatch \in Nat \ {0}
    /\ MaxOffset \in Nat
    /\ U32 \in Nat \ {0, 1}

VARIABLES slotSize, totalSlots, usedSlots, nextSlot, initialized, autoDetected,
          freeStack,      \* top of the stack is the last element
          held            \* auxiliary: slots handed out and not freed since

layout == <<slotSize, totalSlots, initialized, autoDetected>>
vars == <<slotSize, totalSlots, usedSlots, nextSlot, initialized, autoDetected,
          freeStack, held>>

Smaller(a, b) == IF a <= b THEN a ELSE b

StackSet == {freeStack[i] : i \in DOMAIN freeStack}

----------------------------------------------------------------------------
(* Mutant of SlotsIn: rounds up, so the last slot ends past the capacity. *)
SlotsInRoundedUp(size) == (TotalBytes + size - 1) \div size

(* A quotient beyond 32 bits is truncated, and no slot becomes one slot. *)
SlotsIn(size) ==
    LET n == (TotalBytes \div size) % U32
    IN  IF n = 0 THEN 1 ELSE n

Init ==
    /\ slotSize \in ConfigSlotSizes
    /\ totalSlots = IF slotSize > 0 THEN SlotsIn(slotSize) ELSE 0
    /\ initialized = (slotSize > 0)
    /\ autoDetected = FALSE
    /\ usedSlots = 0
    /\ nextSlot = 0
    /\ freeStack = <<>>
    /\ held = {}

(* The first allocation fixes the slot size when none was configured. *)
LazyInit(size) ==
    IF initialized
    THEN UNCHANGED layout
    ELSE /\ slotSize' = size
         /\ totalSlots' = SlotsIn(size)
         /\ initialized' = TRUE
         /\ autoDetected' = TRUE

(* The size check that follows, against the layout just established. *)
SizeAccepted(size) ==
    IF autoDetected' THEN size = slotSize' ELSE size <= slotSize'

(* Pop up to `count` slots off the stack, then bump the virgin region. *)
PoppedSlots(popped) ==
    {freeStack[i] : i \in (Len(freeStack) - popped + 1) .. Len(freeStack)}

(* Mutant of TakeSlots: the top of the stack is read and not popped. *)
TakeSlotsNoPop(count) ==
    LET popped == Smaller(count, Len(freeStack))
        bumped == Smaller(count - popped, totalSlots' - nextSlot)
    IN  /\ freeStack' = freeStack
        /\ nextSlot' = nextSlot + bumped
        /\ usedSlots' = (usedSlots + popped + bumped) % U32
        /\ held' = held \cup PoppedSlots(popped)
                        \cup (nextSlot .. nextSlot + bumped - 1)

TakeSlots(count) ==
    LET popped == Smaller(count, Len(freeStack))
        bumped == Smaller(count - popped, totalSlots' - nextSlot)
    IN  /\ freeStack' = SubSeq(freeStack, 1, Len(freeStack) - popped)
        /\ nextSlot' = nextSlot + bumped
        /\ usedSlots' = (usedSlots + popped + bumped) % U32
        /\ held' = held \cup PoppedSlots(popped)
                        \cup (nextSlot .. nextSlot + bumped - 1)

Refuse == UNCHANGED <<freeStack, nextSlot, usedSlots, held>>

Alloc(size) ==
    /\ initialized \/ size # 0
    /\ LazyInit(size)
    /\ IF SizeAccepted(size) THEN TakeSlots(1) ELSE Refuse

(* Mutant of BatchAlloc: counts the slots asked for, not the slots given. *)
BatchAllocCountsAsked(size, count) ==
    /\ initialized \/ size # 0
    /\ LazyInit(size)
    /\ IF SizeAccepted(size)
       THEN LET popped == Smaller(count, Len(freeStack))
                bumped == Smaller(count - popped, totalSlots' - nextSlot)
            IN  /\ freeStack' = SubSeq(freeStack, 1, Len(freeStack) - popped)
                /\ nextSlot' = nextSlot + bumped
                /\ usedSlots' = (usedSlots + count) % U32
                /\ held' = held \cup PoppedSlots(popped)
                                \cup (nextSlot .. nextSlot + bumped - 1)
       ELSE Refuse

BatchAlloc(size, count) ==
    /\ count # 0
    /\ initialized \/ size # 0
    /\ LazyInit(size)
    /\ IF SizeAccepted(size) THEN TakeSlots(count) ELSE Refuse

(* The slot index is truncated to 32 bits. *)
SlotOf(offset) == (offset \div slotSize) % U32

(* The offsets that Free does not ignore. *)
Accepted(offset) ==
    /\ offset >= 0
    /\ initialized
    /\ offset % slotSize = 0
    /\ SlotOf(offset) < totalSlots

(* Mutant of Free: misaligned offsets are not refused. *)
FreeMisaligned(offset) ==
    IF offset < 0 \/ ~initialized \/ SlotOf(offset) >= totalSlots
    THEN UNCHANGED vars
    ELSE /\ freeStack' = Append(freeStack, SlotOf(offset))
         /\ usedSlots' = (usedSlots - 1) % U32
         /\ held' = held \ {SlotOf(offset)}
         /\ UNCHANGED <<slotSize, totalSlots, initialized, autoDetected, nextSlot>>

Free(offset) ==
    IF Accepted(offset)
    THEN /\ freeStack' = Append(freeStack, SlotOf(offset))
         /\ usedSlots' = (usedSlots - 1) % U32
         /\ held' = held \ {SlotOf(offset)}
         /\ UNCHANGED <<slotSize, totalSlots, initialized, autoDetected, nextSlot>>
    ELSE UNCHANGED vars

(* The callers' side of the contract: free what is held, or something that *)
(* is no slot at all (put failures pass whatever offset they recorded).    *)
CallerMayFree(offset) == Accepted(offset) => offset \div slotSize \in held

Next ==
    \/ \E size \in Sizes : Alloc(size)
    \/ \E size \in Sizes, count \in 1 .. MaxBatch : BatchAlloc(size, count)
    \/ \E offset \in -1 .. MaxOffset : CallerMayFree(offset) /\ Free(offset)

Spec == Init /\ [][Next]_vars

----------------------------------------------------------------------------
TypeOK ==
    /\ slotSize \in Nat
    /\ totalSlots \in 0 .. U32 - 1
    /\ usedSlots \in 0 .. U32 - 1
    /\ nextSlot \in 0 .. totalSlots
    /\ initialized \in BOOLEAN
    /\ autoDetected \in BOOLEAN
    /\ initialized <=> slotSize > 0
    /\ initialized <=> totalSlots > 0
    /\ freeStack \in Seq(0 .. totalSlots - 1)
    /\ held \in SUBSET (0 .. totalSlots - 1)

(* Alloc and BatchAlloc never hand out a slot somebody holds, and none is *)
(* lost: below the bump pointer every slot is either held or stacked, and *)
(* it is stacked once; above it no slot is held or stacked.               *)
SlotPartition ==
    /\ held \cap StackSet = {}
    /\ held \cup StackSet = 0 .. nextSlot - 1
    /\ \A i, j \in DOMAIN freeStack : i # j => freeStack[i] # freeStack[j]

(* used_slots_, which GetUsageRatio divides by total_slots_ to decide on  *)
(* eviction, counts the slots callers hold: it neither drifts over Alloc, *)
(* BatchAlloc and Free nor wraps below zero.                              *)
UsageExact == usedSlots = Cardinality(held)

(* The slots handed out fit the configured capacity, except that a        *)
(* capacity below one slot (or whose slot count truncates to 0) still     *)
(* gives one slot.                                                        *)
CapacityRespected ==
    \A s \in held : (s + 1) * slotSize <= TotalBytes \/ totalSlots = 1

(* The allocator implements the pool it promises to its callers: the free *)
(* stack and the bump pointer only decide which free slot is granted, and *)
(* each slot granted or released is counted once.                         *)
Pool == INSTANCE SlotPool WITH slots <- totalSlots, held <- held,
                               used <- usedSlots, MaxAsked <- MaxBatch

PoolSpec == Pool!Spec
=============================================================================
