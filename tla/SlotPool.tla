------------------------------ MODULE SlotPool ------------------------------
(***************************************************************************)
(* What SlotAllocator promises its callers, with no free stack and no bump *)
(* pointer: a pool of equally sized slots out of which an allocation       *)
(* hands slots nobody holds, as many as it was asked for or else all that  *)
(* are left.  How many slots there are is settled once, at construction or *)
(* by the first allocation.  The promise is made to callers that free only *)
(* what they hold.  `used` is the number the pool reports as in use.       *)
(***************************************************************************)
EXTENDS Integers, FiniteSets

CONSTANT MaxAsked   \* the largest number of slots one call asks for

VARIABLES slots,    \* number of slots, 0 until the pool is laid out
          held,     \* the slots that callers hold
          used      \* how many slots are in use

vars == <<slots, held, used>>

Init == slots \in Nat /\ held = {} /\ used = 0

(* A call asking for `count` slots of an accepted size. *)
Grant(count) ==
    \E S \in SUBSET (0 .. slots' - 1) :
        /\ slots' \in Nat \ {0}
        /\ slots # 0 => slots' = slots
        /\ S \cap held = {}
        /\ S # {}
        /\ \/ Cardinality(S) = count
           \/ Cardinality(S) < count /\ S = (0 .. slots' - 1) \ held
        /\ held' = held \cup S
        /\ used' = used + Cardinality(S)

Release(s) ==
    /\ s \in held
    /\ held' = held \ {s}
    /\ used' = used - 1
    /\ UNCHANGED slots

Next == (\E count \in 1 .. MaxAsked : Grant(count)) \/ (\E s \in held : Release(s))

Spec == Init /\ [][Next]_vars
=============================================================================
