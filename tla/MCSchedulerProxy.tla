-------------------------- MODULE MCSchedulerProxy --------------------------
(***************************************************************************)
(* Models of SchedulerProxy.  One failure is enough for BYPASS; two IO     *)
(* threads let a failure be acted on while the probe reconnects.           *)
(***************************************************************************)
EXTENDS SchedulerProxy, TLC

Symmetry == Permutations(IOThreads)
=============================================================================
