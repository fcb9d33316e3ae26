------------------------------ MODULE LruOrder ------------------------------
(***************************************************************************)
(* What StoreMetaIndex promises: the committed keys in order of their last *)
(* use, the most recent first, next to the keys that are present and not   *)
(* committed.  No pointers and no counter.                                 *)
(***************************************************************************)
EXTENDS Integers, SequencesExt

CONSTANTS Keys, MaxKeys      \* MaxKeys: bound on the keys one call touches

VARIABLES order,             \* committed keys, most recently used first
          uncommitted        \* keys present with another stat

vars == <<order, uncommitted>>

(* A key is in the order at most once. *)
Without(s, k) ==
    IF Contains(s, k) THEN RemoveAt(s, CHOOSE i \in 1 .. Len(s) : s[i] = k) ELSE s

ToFront(s, k) == <<k>> \o Without(s, k)

Init == order = <<>> /\ uncommitted = {}

(* A committed Put or a Commit: the key becomes the most recently used. *)
Admit(k) ==
    /\ order' = ToFront(order, k)
    /\ uncommitted' = uncommitted \ {k}

(* A Put with another stat takes a committed key out of the order. *)
Demote(k) ==
    /\ order' = Without(order, k)
    /\ uncommitted' = uncommitted \cup {k}

Drop(k) ==
    /\ order' = Without(order, k)
    /\ uncommitted' = uncommitted \ {k}

(* Lookups move their hits to the front, one after the other. *)
HitsToFront(s, ks) ==
    LET after[i \in 0 .. Len(ks)] ==
            IF i = 0 THEN s
            ELSE IF Contains(after[i - 1], ks[i]) THEN ToFront(after[i - 1], ks[i])
            ELSE after[i - 1]
    IN  after[Len(ks)]

Use(ks) ==
    /\ order' = HitsToFront(order, ks)
    /\ UNCHANGED uncommitted

Next ==
    \/ \E k \in Keys : Admit(k) \/ Demote(k) \/ Drop(k)
    \/ \E ks \in BoundedSeq(Keys, MaxKeys) : Use(ks)

Spec == Init /\ [][Next]_vars
=============================================================================
