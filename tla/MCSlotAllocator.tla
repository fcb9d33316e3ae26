-------------------------- MODULE MCSlotAllocator --------------------------
(***************************************************************************)
(* A 10-byte file asked for slots of 0 to 4 bytes: the slot count is 10, 5,*)
(* 3 or 2, and 10 truncates to 2 in a 3-bit counter.                       *)
(***************************************************************************)
EXTENDS SlotAllocator
=============================================================================
