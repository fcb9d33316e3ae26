-------------------------- MODULE MCStoreMetaIndex --------------------------
(***************************************************************************)
(* Three keys, records of one or two units, batches of up to two keys.     *)
(***************************************************************************)
EXTENDS StoreMetaIndex
=============================================================================
