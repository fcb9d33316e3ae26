---------------------------- MODULE MCClientRead ----------------------------
(***************************************************************************)
(* Models of ClientRead: a client with its own store, of one slot and two  *)
(* evicting threads, and a store of one slot on another node, which does   *)
(* not evict but may restart.                                              *)
(***************************************************************************)
EXTENDS ClientRead

CONSTANTS s1, s2, k1, k2, e1, e2

MCSlotsOf == (s1 :> {0}) @@ (s2 :> {0})
MCEvictors == (s1 :> {e1, e2}) @@ (s2 :> {})
MCRequests == {<<k1, k2>>, <<k2, k1>>}
MCSymmetry == Permutations({k1, k2}) \cup Permutations({e1, e2})
=============================================================================
