-------------------------- MODULE MCFalconKVStore --------------------------
(***************************************************************************)
(* Calls for the models of FalconKVStore.  k3 is the key whose value does  *)
(* not fit a slot in the configurations that have one.                     *)
(***************************************************************************)
EXTENDS FalconKVStore, TLC

CONSTANTS k1, k2, k3,
          first     \* one of the writers

(* Two writers, who may both put the same keys. *)
PairBatches == [w \in Writers |-> {<<k1>>, <<k1, k2>>}]
AnyRemovals == [w \in Writers |-> Keys]

(* One writer. *)
SoloBatches == [w \in Writers |-> {<<k1>>, <<k2>>, <<k3>>, <<k1, k2>>}]

(* Two writers, each with keys of its own, one slot between them. *)
DuelBatches == [w \in Writers |-> IF w = first THEN {<<k1>>} ELSE {<<k2>>, <<k3>>}]
DuelRemovals == [w \in Writers |-> IF w = first THEN {k1} ELSE {}]

Symmetry == Permutations(Writers)
=============================================================================
