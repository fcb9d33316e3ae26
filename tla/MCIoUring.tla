------------------------------ MODULE MCIoUring -----------------------------
(***************************************************************************)
(* Models of IoUring: two threads of the store with a batch each.          *)
(***************************************************************************)
EXTENDS IoUring
=============================================================================
