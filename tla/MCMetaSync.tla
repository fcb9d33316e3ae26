----------------------------- MODULE MCMetaSync -----------------------------
(***************************************************************************)
(* A model of MetaSync.  Two workers, of which one removes too, the        *)
(* committer and the reconnector race with each other for the record of    *)
(* one key through two puts and two outages, the second of which may come  *)
(* while the first is being repaired.                                      *)
(***************************************************************************)
EXTENDS MetaSync

CONSTANTS k1, w1, w2

OneKey == {k1}
OnePutter == {w2}
OneRemover == {w1}
=============================================================================
