------------------------------ MODULE IoUring -------------------------------
(***************************************************************************)
(* IOUringEngine: BatchRead and BatchWrite over the one ring of the store, *)
(* called by whoever reads or writes a batch: client threads, the bridge's *)
(* workers and the handlers of the RPC server.  The engine has no lock.    *)
(* Each call of liburing is one step here, although two threads inside     *)
(* io_uring_get_sqe at once would already be a data race.                  *)
(***************************************************************************)
EXTENDS Integers, Sequences, FiniteSets

CONSTANTS Callers,
          Size,       \* requests of a batch
          QueueDepth,
          MaxFaults   \* bound: failing submits, interrupted waits and failed IOs

VARIABLES
    pc,
    idx,       \* per caller: requests prepared so far
    start,     \* per caller: first of the current sub-batch
    toReap,    \* per caller: completions it still waits for
    status,    \* per caller: results, kOk unless set
    sq,        \* prepared entries
    inflight,  \* submitted requests the kernel works on
    cq,        \* completions nobody has reaped
    faults

vars == <<pc, idx, start, toReap, status, sq, inflight, cq, faults>>

Request(c, i) == [by |-> c, user_data |-> i]
Fault == faults < MaxFaults /\ faults' = faults + 1

Init ==
    /\ pc = [c \in Callers |-> "idle"]
    /\ idx = [c \in Callers |-> 0] /\ start = [c \in Callers |-> 0]
    /\ toReap = [c \in Callers |-> 0]
    /\ status = [c \in Callers |-> [i \in 1 .. Size |-> "ok"]]
    /\ sq = <<>> /\ inflight = {} /\ cq = <<>>
    /\ faults = 0

Batch(c) ==
    /\ pc[c] = "idle"
    /\ pc' = [pc EXCEPT ![c] = "prepare"]
    /\ UNCHANGED <<idx, start, toReap, status, sq, inflight, cq, faults>>

(* One sub-batch of entries, as many as the queue has room for. *)
Prepare(c) ==
    LET room == QueueDepth - Len(sq)
        n == IF Size - idx[c] < room THEN Size - idx[c] ELSE room
    IN  /\ pc[c] = "prepare"
        /\ idx[c] < Size
        /\ n > 0
        /\ sq' = sq \o [j \in 1 .. n |-> Request(c, idx[c] + j)]
        /\ start' = [start EXCEPT ![c] = idx[c]]
        /\ idx' = [idx EXCEPT ![c] = @ + n]
        /\ pc' = [pc EXCEPT ![c] = "submit"]
        /\ UNCHANGED <<toReap, status, inflight, cq, faults>>

(* No entry to be had: the loop ends, the rest keeps its default status.   *)
NoEntry(c) ==
    /\ pc[c] = "prepare"
    /\ idx[c] < Size
    /\ Len(sq) >= QueueDepth
    /\ pc' = [pc EXCEPT ![c] = "returned"]
    /\ UNCHANGED <<idx, start, toReap, status, sq, inflight, cq, faults>>

(* io_uring_submit hands over all that is prepared, whoever did it. *)
Submit(c) ==
    /\ pc[c] = "submit"
    /\ inflight' = inflight \cup {sq[j] : j \in DOMAIN sq}
    /\ sq' = <<>>
    /\ toReap' = [toReap EXCEPT ![c] = idx[c] - start[c]]
    /\ pc' = [pc EXCEPT ![c] = "reap"]
    /\ UNCHANGED <<idx, start, status, cq, faults>>

(* A failed submit leaves its entries in the queue. *)
SubmitFails(c) ==
    /\ pc[c] = "submit"
    /\ Fault
    /\ status' = [status EXCEPT ![c] = [i \in 1 .. Size |->
                      IF i \in start[c] + 1 .. idx[c] THEN "error" ELSE @[i]]]
    /\ pc' = [pc EXCEPT ![c] = "prepare"]
    /\ UNCHANGED <<idx, start, toReap, sq, inflight, cq>>

Complete(r, ok) ==
    /\ r \in inflight
    /\ ok \/ Fault
    /\ ok => UNCHANGED faults
    /\ inflight' = inflight \ {r}
    /\ cq' = Append(cq, [request |-> r, ok |-> ok])
    /\ UNCHANGED <<pc, idx, start, toReap, status, sq>>

(* The completion at the head is taken for the caller's own. *)
Reap(c) ==
    /\ pc[c] = "reap"
    /\ toReap[c] > 0
    /\ cq # <<>>
    /\ status' = [status EXCEPT ![c][Head(cq).request.user_data] =
                                     IF Head(cq).ok THEN "ok" ELSE "error"]
    /\ cq' = Tail(cq)
    /\ toReap' = [toReap EXCEPT ![c] = @ - 1]
    /\ UNCHANGED <<pc, idx, start, sq, inflight, faults>>

(* io_uring_wait_cqe returns an error: one completion less is awaited.     *)
WaitFails(c) ==
    /\ pc[c] = "reap"
    /\ toReap[c] > 0
    /\ Fault
    /\ toReap' = [toReap EXCEPT ![c] = @ - 1]
    /\ UNCHANGED <<pc, idx, start, status, sq, inflight, cq>>

Reaped(c) ==
    /\ pc[c] = "reap"
    /\ toReap[c] = 0
    /\ pc' = [pc EXCEPT ![c] = "prepare"]
    /\ UNCHANGED <<idx, start, toReap, status, sq, inflight, cq, faults>>

Return(c) ==
    /\ pc[c] = "prepare"
    /\ idx[c] = Size
    /\ pc' = [pc EXCEPT ![c] = "returned"]
    /\ UNCHANGED <<idx, start, toReap, status, sq, inflight, cq, faults>>

Next ==
    \/ \E c \in Callers :
          \/ Batch(c) \/ Prepare(c) \/ NoEntry(c) \/ Submit(c) \/ SubmitFails(c)
          \/ Reap(c) \/ WaitFails(c) \/ Reaped(c) \/ Return(c)
    \/ \E r \in inflight, ok \in BOOLEAN : Complete(r, ok)

Spec == Init /\ [][Next]_vars

----------------------------------------------------------------------------
(* "Batch write: block until all complete" (io_uring_engine.h): when a     *)
(* batch returns, the kernel has finished with its buffers, which the      *)
(* caller is about to free or to use.                                      *)
BlocksUntilComplete ==
    \A c \in Callers : pc[c] = "returned" => \A r \in inflight : r.by # c
=============================================================================
