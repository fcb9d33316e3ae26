----------------------------- MODULE MCHixlRead -----------------------------
(***************************************************************************)
(* Models of HixlRead: two threads of a client and one store.              *)
(***************************************************************************)
EXTENDS HixlRead, TLC

MCBatches == {<<1, 1>>, <<1, 0>>}
MCSymmetry == Permutations(Readers)
=============================================================================
