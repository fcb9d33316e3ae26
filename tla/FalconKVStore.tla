--------------------------- MODULE FalconKVStore ---------------------------
(***************************************************************************)
(* The store's write path: FalconKVStore::Put, BatchPut and Remove, the    *)
(* EvictManager thread (Evictor) and ForceEvict, and PendingEvictQueue with*)
(* its reaper thread (Reaper), over the shared slot allocator and key      *)
(* index.  Each of those objects has a mutex of its own and no lock spans  *)
(* two of them, so a step is one locked method, one SSD write or one RPC.  *)
(*                                                                         *)
(* Data is abstracted: the allocator is the multiset of slots it offers    *)
(* (SlotAllocator refines it; the multiset matters because Free accepts a  *)
(* slot twice), the LRU order is left out (StoreMetaIndex models it) so    *)
(* candidates are any indexed keys, and every value fills one slot, except *)
(* those of the keys in Oversize.  SyncRemove either succeeds or fails;    *)
(* MetaSync models what it does to the Meta server.                        *)
(***************************************************************************)
EXTENDS Integers, Sequences, FiniteSets

CONSTANTS Keys,
          NSlots,       \* slots of the data file
          Writers,      \* threads that call Put, BatchPut and Remove
          Evictor,      \* the EvictManager thread
          Reaper,       \* the PendingEvictQueue thread
          Batches,      \* key sequences each writer passes to BatchPut (a Put
                        \* has one key)
          Removals,     \* keys each writer passes to Remove
          Oversize,     \* keys whose value is larger than a slot
          EvictTarget,  \* slots ForceEvict is asked for: max(size, 5% of all)
          MaxRounds,    \* kMaxRounds (5)
          MaxPerRound,  \* kMaxPerRound (64)
          LoopBatch,    \* entries EvictLoop evicts at a time (16)
          HighWater,    \* watermarks, in used slots
          LowWater,
          Grace,        \* grace_period_ms_
          MaxClock,     \* bound: the wall clock stops here
          Guarded,      \* TRUE: no two evictions or removals overlap, and no
                        \* two puts of one key do; FALSE: as the code runs
          MaxCalls,     \* bound: calls begun when not Guarded (overlapping
                        \* evictions duplicate slots without end)
          NoSlot, NoKey

Slots == 0 .. NSlots - 1
Times == 0 .. MaxClock
Mutators == Writers \cup {Evictor}
Threads == Mutators \cup {Reaper}

ASSUME StoreAssumption ==
    /\ NSlots \in Nat \ {0}
    /\ Evictor \notin Writers /\ Reaper \notin Mutators
    /\ Batches \in [Writers -> SUBSET (Seq(Keys) \ {<<>>})]
    /\ Removals \in [Writers -> SUBSET Keys]
    /\ Oversize \subseteq Keys
    /\ {EvictTarget, MaxRounds, MaxPerRound, LoopBatch} \subseteq Nat \ {0}
    /\ {HighWater, LowWater, Grace, MaxClock} \subseteq Nat
    /\ Guarded \in BOOLEAN /\ MaxCalls \in Nat
    /\ NoSlot \notin Slots
    /\ NoKey \notin Keys

Records == [key : Keys, slot : Slots]
NoRecord == [key |-> NoKey, slot |-> NoSlot]
EmptyQueue == [s \in Slots |-> [t \in Times |-> 0]]

VARIABLES
    clock,      \* wall clock
    calls,      \* auxiliary: calls begun so far, when not Guarded
    offers,     \* allocator: how often each slot is on offer
    used,       \* allocator: used_slots_, below 0 when the code's counter wraps
    index,      \* StoreMetaIndex: slot of each committed key, or NoSlot
    content,    \* whose value a slot's bytes are; NoKey: nobody's, or torn
    pending,    \* PendingEvictQueue entries_, as a multiset of (slot, enqueue time)
    pc,         \* where each thread is
    todo,       \* keys a put has not looked up yet
    need,       \* keys a put has no slot for yet
    items,      \* records a put has allocated and not yet published
    level,      \* eviction level a put has reached, 1..3
    futile,     \* auxiliary: this key's ForceEvict found nothing to evict, or
                \* Meta refused
    lost,       \* auxiliary: slots others were given since it began, up to
                \* EvictTarget, when not Guarded
    cands,      \* eviction candidates still to process (a snapshot)
    hand,       \* record removed from the index and not yet enqueued
    round,      \* rounds of ForceEvict done
    evicted,    \* slots ForceEvict has enqueued
    now,        \* clock value read at the start of a flush
    spoils      \* to_free: entries taken off the queue and not yet freed

evictVars == <<cands, hand, round, evicted>>
putVars == <<todo, need, items, level, futile, lost>>
flushVars == <<now, spoils>>
vars == <<clock, calls, offers, used, index, content, pending, pc, todo, need, items, level,
          futile, lost, cands, hand, round, evicted, now, spoils>>

Init ==
    /\ clock = 0
    /\ calls = 0
    /\ offers = [s \in Slots |-> 1]
    /\ used = 0
    /\ index = [k \in Keys |-> NoSlot]
    /\ content = [s \in Slots |-> NoKey]
    /\ pending = EmptyQueue
    /\ pc = [t \in Threads |-> "idle"]
    /\ todo = [w \in Writers |-> <<>>]
    /\ need = [w \in Writers |-> <<>>]
    /\ items = [w \in Writers |-> {}]
    /\ level = [w \in Writers |-> 1]
    /\ futile = [w \in Writers |-> FALSE]
    /\ lost = [w \in Writers |-> 0]
    /\ cands = [t \in Mutators |-> {}]
    /\ hand = [t \in Mutators |-> NoRecord]
    /\ round = [w \in Writers |-> 0]
    /\ evicted = [w \in Writers |-> 0]
    /\ now = [t \in Threads |-> 0]
    /\ spoils = [t \in Threads |-> EmptyQueue]

Goto(t, l) == pc' = [pc EXCEPT ![t] = l]

Indexed == {k \in Keys : index[k] # NoSlot}

(* From the snapshot of its candidates, or from Remove's call, until the   *)
(* last of them is enqueued, a thread is evicting.                         *)
Evicting(t) ==
    pc[t] \in {"sync", "remove", "enqueue", "rmsync", "rmindex", "rmenqueue"}

MayEvict(t) == Guarded => \A u \in Mutators \ {t} : ~Evicting(u)

(* The keys a put is working on. *)
Busy(w) ==
    {todo[w][i] : i \in DOMAIN todo[w]} \cup {need[w][i] : i \in DOMAIN need[w]}
    \cup {c.key : c \in items[w]}

MayPut(w, ks) ==
    Guarded => \A v \in Writers \ {w} : Busy(v) \cap {ks[i] : i \in DOMAIN ks} = {}

CountCall ==
    IF Guarded THEN UNCHANGED calls ELSE calls < MaxCalls /\ calls' = calls + 1

Tick ==
    /\ clock < MaxClock
    /\ clock' = clock + 1
    /\ UNCHANGED <<calls, offers, used, index, content, pending, pc, putVars, evictVars, flushVars>>

----------------------------------------------------------------------------
(* SlotAllocator, as the multiset of offered slots *)

Exhausted == \A s \in Slots : offers[s] = 0

(* used_slots_ is unsigned: below 0 it reads as nearly 2^32. *)
UsageAbove(mark) == used > mark \/ used < 0

(* One slot goes back to the allocator, whoever else may have it. *)
FreeSlot(s) ==
    /\ offers' = [offers EXCEPT ![s] = @ + 1]
    /\ used' = used - 1

----------------------------------------------------------------------------
(* PendingEvictQueue *)

Enqueue(s) == pending' = [pending EXCEPT ![s][clock] = @ + 1]

(* Mutant of Expired: entries as old as the grace period less one tick. *)
ExpiredEarly(at, t) == t > at \/ at - t >= Grace - 1

(* now - enqueue_time_ms >= grace_period_ms_ in 64-bit unsigned            *)
(* arithmetic, where `now` was read before the lock was taken: an entry    *)
(* enqueued after that has a huge age.                                     *)
Expired(at, t) == t > at \/ at - t >= Grace

Nothing(q) == \A s \in Slots, t \in Times : q[s][t] = 0

(* Where a thread goes once a flush has freed everything it took. *)
AfterFlush(t) == IF t = Reaper THEN "idle" ELSE "alloc"

(* EvictLoop of the queue wakes up every 100 ms. *)
ReaperWakes ==
    /\ pc[Reaper] = "idle"
    /\ Goto(Reaper, "now")
    /\ UNCHANGED <<clock, calls, offers, used, index, content, pending, putVars,
                   evictVars, flushVars>>

(* EvictLoop and FlushExpired: first read the clock ... *)
ReadNow(t) ==
    /\ pc[t] = "now"
    /\ now' = [now EXCEPT ![t] = clock]
    /\ Goto(t, "take")
    /\ UNCHANGED <<clock, calls, offers, used, index, content, pending, putVars,
                   evictVars, spoils>>

(* ... then, under the lock, split off what has expired. *)
TakeExpired(t) ==
    LET taken == [s \in Slots |-> [e \in Times |->
                     IF Expired(now[t], e) THEN pending[s][e] ELSE 0]]
    IN  /\ pc[t] = "take"
        /\ spoils' = [spoils EXCEPT ![t] = taken]
        /\ pending' = [s \in Slots |-> [e \in Times |->
                          IF Expired(now[t], e) THEN 0 ELSE pending[s][e]]]
        /\ Goto(t, IF Nothing(taken) THEN AfterFlush(t) ELSE "free")
        /\ UNCHANGED <<clock, calls, offers, used, index, content, putVars, evictVars, now>>

(* FlushAllForced, the third level of a put that is out of space. *)
TakeAll(w) ==
    /\ pc[w] = "takeall"
    /\ spoils' = [spoils EXCEPT ![w] = pending]
    /\ pending' = EmptyQueue
    /\ Goto(w, IF Nothing(pending) THEN "alloc" ELSE "free")
    /\ UNCHANGED <<clock, calls, offers, used, index, content, putVars, evictVars, now>>

(* Outside the queue's lock the entries are freed one by one. *)
FreeTaken(t) ==
    /\ pc[t] = "free"
    /\ \E s \in Slots, e \in Times :
          /\ spoils[t][s][e] > 0
          /\ spoils' = [spoils EXCEPT ![t][s][e] = @ - 1]
          /\ FreeSlot(s)
    /\ Goto(t, IF Nothing(spoils'[t]) THEN AfterFlush(t) ELSE "free")
    /\ UNCHANGED <<clock, calls, index, content, pending, putVars, evictVars, now>>

----------------------------------------------------------------------------
(* EvictManager: snapshot the candidates, tell Meta, remove and enqueue *)

Least(a, b) == IF a <= b THEN a ELSE b

(* GetLRUCandidates and GetLRUCandidatesBySize: n records, copied out. *)
Snapshots(n) ==
    {C \in SUBSET {[key |-> k, slot |-> index[k]] : k \in Indexed} :
        Cardinality(C) = Least(n, Cardinality(Indexed))}

(* EvictLoop above the high watermark, and again while above the low one.  *)
LoopWakes ==
    /\ pc[Evictor] = "idle"
    /\ UsageAbove(HighWater)
    /\ Goto(Evictor, "test")
    /\ UNCHANGED <<clock, calls, offers, used, index, content, pending, putVars,
                   evictVars, flushVars>>

LoopTest ==
    /\ pc[Evictor] = "test"
    /\ Goto(Evictor, IF UsageAbove(LowWater) THEN "pick" ELSE "idle")
    /\ UNCHANGED <<clock, calls, offers, used, index, content, pending, putVars,
                   evictVars, flushVars>>

LoopPick ==
    /\ pc[Evictor] = "pick"
    /\ MayEvict(Evictor)
    /\ IF Indexed # {}
       THEN /\ \E C \in Snapshots(LoopBatch) : cands' = [cands EXCEPT ![Evictor] = C]
            /\ Goto(Evictor, "sync")
       ELSE Goto(Evictor, "idle") /\ UNCHANGED cands
    /\ UNCHANGED <<clock, calls, offers, used, index, content, pending, putVars, flushVars,
                   hand, round, evicted>>

(* ForceEvict: at most MaxRounds rounds, until EvictTarget is reached or   *)
(* nothing is left.  FlushExpired follows it.                              *)
ForcePick(w) ==
    /\ pc[w] = "pick"
    /\ MayEvict(w)
    /\ IF round[w] < MaxRounds /\ evicted[w] < EvictTarget /\ Indexed # {}
       THEN /\ \E C \in Snapshots(Least(EvictTarget - evicted[w], MaxPerRound)) :
                  cands' = [cands EXCEPT ![w] = C]
            /\ round' = [round EXCEPT ![w] = @ + 1]
            /\ Goto(w, "sync")
            /\ UNCHANGED futile
       ELSE /\ futile' = [futile EXCEPT ![w] = @ \/ Indexed = {}]
            /\ Goto(w, "now")
            /\ UNCHANGED <<cands, round>>
    /\ UNCHANGED <<clock, calls, offers, used, index, content, pending, todo, need, items,
                   level, lost, flushVars, hand, evicted>>

(* Mutant of SyncRemoveFails: a failed batch is tried again. *)
SyncRemoveFailsRetries(t) ==
    /\ pc[t] = "sync"
    /\ cands' = [cands EXCEPT ![t] = {}]
    /\ futile' = [w \in Writers |-> futile[w] \/ w = t]
    /\ Goto(t, IF t = Evictor THEN "test" ELSE "pick")
    /\ UNCHANGED <<clock, calls, offers, used, index, content, pending, todo, need,
                   items, level, lost, hand, round, evicted, flushVars>>

(* SyncRemove of the candidates: on failure the batch is given up.         *)
SyncRemoveOk(t) ==
    /\ pc[t] = "sync"
    /\ Goto(t, "remove")
    /\ UNCHANGED <<clock, calls, offers, used, index, content, pending, putVars, evictVars,
                   flushVars>>

SyncRemoveFails(t) ==
    /\ pc[t] = "sync"
    /\ cands' = [cands EXCEPT ![t] = {}]
    /\ futile' = [w \in Writers |-> futile[w] \/ w = t]
    /\ Goto(t, IF t = Evictor THEN "idle" ELSE "now")
    /\ UNCHANGED <<clock, calls, offers, used, index, content, pending, todo, need, items,
                   level, lost, hand, round, evicted, flushVars>>

(* The key is removed from the index whatever it maps to by now, and the   *)
(* slot of the snapshot is enqueued whatever the removal found.            *)
EvictRemove(t) ==
    /\ pc[t] = "remove"
    /\ \E c \in cands[t] :
          /\ index' = [index EXCEPT ![c.key] = NoSlot]
          /\ hand' = [hand EXCEPT ![t] = c]
          /\ cands' = [cands EXCEPT ![t] = @ \ {c}]
    /\ Goto(t, "enqueue")
    /\ UNCHANGED <<clock, calls, offers, used, content, pending, putVars, round, evicted,
                   flushVars>>

EvictEnqueue(t) ==
    /\ pc[t] = "enqueue"
    /\ Enqueue(hand[t].slot)
    /\ hand' = [hand EXCEPT ![t] = NoRecord]
    /\ evicted' = [w \in Writers |-> IF w = t THEN evicted[w] + 1 ELSE evicted[w]]
    /\ Goto(t, IF cands[t] # {} THEN "remove" ELSE IF t = Evictor THEN "test" ELSE "pick")
    /\ UNCHANGED <<clock, calls, offers, used, index, content, putVars, cands, round,
                   flushVars>>

----------------------------------------------------------------------------
(* FalconKVStore::Put is BatchPut of one key: BatchAlloc of one slot is    *)
(* Alloc, and what differs after it (SyncCommit instead of AsyncCommit)    *)
(* touches the Meta server only.                                           *)

BatchPut(w, ks) ==
    /\ pc[w] = "idle"
    /\ MayPut(w, ks)
    /\ CountCall
    /\ todo' = [todo EXCEPT ![w] = ks]
    /\ Goto(w, "check")
    /\ UNCHANGED <<clock, offers, used, index, content, pending, need, items, level,
                   futile, lost, evictVars, flushVars>>

(* Keys found in the index are skipped. *)
CheckKey(w) ==
    LET key == Head(todo[w])
        missing == IF index[key] = NoSlot THEN Append(need[w], key) ELSE need[w]
    IN  /\ pc[w] = "check"
        /\ todo' = [todo EXCEPT ![w] = Tail(@)]
        /\ need' = [need EXCEPT ![w] = missing]
        /\ Goto(w, IF todo'[w] # <<>> THEN "check"
                   ELSE IF missing = <<>> THEN "idle" ELSE "balloc")
        /\ UNCHANGED <<clock, calls, offers, used, index, content, pending, items, level,
                       futile, lost, evictVars, flushVars>>

(* Locals of the eviction ladder, at its first level for the next key; the *)
(* n slots w is given are lost to the others who evict for theirs.         *)
StartLadder(w, n) ==
    /\ level' = [level EXCEPT ![w] = 1]
    /\ futile' = [futile EXCEPT ![w] = FALSE]
    /\ lost' = [v \in Writers |->
                   IF v = w THEN 0
                   ELSE IF Guarded \/ level[v] = 1 THEN lost[v]
                   ELSE Least(EvictTarget, lost[v] + n)]
    /\ round' = [round EXCEPT ![w] = 0]
    /\ evicted' = [evicted EXCEPT ![w] = 0]

(* Where a put goes when `rest` keys are still without a slot. *)
NextKey(w, rest, recs) ==
    IF rest # <<>> THEN "now" ELSE IF recs = {} THEN "idle" ELSE "write"

(* As many slots as there are, in one call that looks at the first size.   *)
BatchAlloc(w) ==
    /\ pc[w] = "balloc"
    /\ \E n \in 0 .. Len(need[w]) : \E give \in [1 .. n -> Slots] :
          LET left == [s \in Slots |->
                          offers[s] - Cardinality({i \in 1 .. n : give[i] = s})]
              rest == SubSeq(need[w], n + 1, Len(need[w]))
          IN  /\ Head(need[w]) \in Oversize => n = 0
              /\ \A s \in Slots : left[s] >= 0
              /\ \/ n = Len(need[w])
                 \/ Head(need[w]) \in Oversize
                 \/ \A s \in Slots : left[s] = 0
              /\ offers' = left
              /\ used' = used + n
              /\ items' = [items EXCEPT ![w] =
                              {[key |-> need[w][i], slot |-> give[i]] : i \in 1 .. n}]
              /\ need' = [need EXCEPT ![w] = rest]
              /\ Goto(w, NextKey(w, rest, items'[w]))
              /\ StartLadder(w, n)
    /\ UNCHANGED <<clock, calls, index, content, pending, todo, cands, hand, flushVars>>

(* Mutant of AllocOk: hands out a slot without looking whether it is free. *)
AllocOkUnchecked(w) ==
    LET key == Head(need[w])
    IN  /\ pc[w] = "alloc"
        /\ key \notin Oversize
        /\ \E s \in Slots :
              /\ offers' = [offers EXCEPT ![s] = @ - 1]
              /\ items' = [items EXCEPT ![w] = @ \cup {[key |-> key, slot |-> s]}]
        /\ used' = used + 1
        /\ need' = [need EXCEPT ![w] = Tail(@)]
        /\ Goto(w, NextKey(w, need'[w], items'[w]))
        /\ StartLadder(w, 1)
        /\ UNCHANGED <<clock, calls, index, content, pending, todo, cands, hand,
                       flushVars>>

(* The ladder of a key without a slot: FlushExpired and Alloc; ForceEvict, *)
(* FlushExpired and Alloc; FlushAllForced and Alloc; give the key up.      *)
AllocOk(w) ==
    LET key == Head(need[w])
    IN  /\ pc[w] = "alloc"
        /\ key \notin Oversize
        /\ \E s \in Slots :
              /\ offers[s] > 0
              /\ offers' = [offers EXCEPT ![s] = @ - 1]
              /\ items' = [items EXCEPT ![w] = @ \cup {[key |-> key, slot |-> s]}]
        /\ used' = used + 1
        /\ need' = [need EXCEPT ![w] = Tail(@)]
        /\ Goto(w, NextKey(w, need'[w], items'[w]))
        /\ StartLadder(w, 1)
        /\ UNCHANGED <<clock, calls, index, content, pending, todo, cands, hand, flushVars>>

AllocFails(w) == Head(need[w]) \in Oversize \/ Exhausted

(* Mutant of ClimbLadder: flushes the queue at both levels, evicts at none. *)
ClimbLadderNoEvict(w) ==
    /\ pc[w] = "alloc"
    /\ AllocFails(w)
    /\ level[w] < 3
    /\ level' = [level EXCEPT ![w] = @ + 1]
    /\ Goto(w, "takeall")
    /\ UNCHANGED <<clock, calls, offers, used, index, content, pending, todo, need,
                   items, futile, lost, evictVars, flushVars>>

ClimbLadder(w) ==
    /\ pc[w] = "alloc"
    /\ AllocFails(w)
    /\ level[w] < 3
    /\ level' = [level EXCEPT ![w] = @ + 1]
    /\ Goto(w, IF level[w] = 1 THEN "pick" ELSE "takeall")
    /\ UNCHANGED <<clock, calls, offers, used, index, content, pending, todo, need, items,
                   futile, lost, evictVars, flushVars>>

NoSpace(w) ==
    /\ pc[w] = "alloc"
    /\ AllocFails(w)
    /\ level[w] = 3
    /\ need' = [need EXCEPT ![w] = Tail(@)]
    /\ Goto(w, NextKey(w, need'[w], items[w]))
    /\ StartLadder(w, 0)
    /\ UNCHANGED <<clock, calls, offers, used, index, content, pending, todo, items, cands,
                   hand, flushVars>>

(* The slots an SSD write of this record touches: a value larger than a    *)
(* slot runs into the next one.                                            *)
Footprint(c) == {c.slot} \cup (IF c.key \in Oversize THEN {c.slot + 1} ELSE {})

(* While it is being written, a slot holds nobody's value. *)
WriteStarts(w) ==
    /\ pc[w] = "write"
    /\ content' = [s \in Slots |->
                      IF \E c \in items[w] : s \in Footprint(c) THEN NoKey ELSE content[s]]
    /\ Goto(w, "writing")
    /\ UNCHANGED <<clock, calls, offers, used, index, pending, putVars, evictVars, flushVars>>

(* A slot that two records of the batch touch stays nobody's. *)
Written(recs) ==
    [s \in Slots |->
        IF \E c \in recs : {d \in recs : s \in Footprint(d)} = {c} /\ c.slot = s
        THEN (CHOOSE c \in recs : c.slot = s).key
        ELSE content[s]]

WriteOk(w) ==
    /\ pc[w] = "writing"
    /\ content' = Written(items[w])
    /\ Goto(w, "publish")
    /\ UNCHANGED <<clock, calls, offers, used, index, pending, putVars, evictVars, flushVars>>

(* Mutant of WriteFails: the batch is published although a write failed. *)
WriteFailsIgnored(w) ==
    /\ pc[w] = "writing"
    /\ \E done \in SUBSET items[w] : done # items[w] /\ content' = Written(done)
    /\ Goto(w, "publish")
    /\ UNCHANGED <<clock, calls, offers, used, index, pending, putVars, evictVars,
                   flushVars>>

(* One write failing fails the batch, although others may have been done. *)
WriteFails(w) ==
    /\ pc[w] = "writing"
    /\ \E done \in SUBSET items[w] : done # items[w] /\ content' = Written(done)
    /\ Goto(w, "unwind")
    /\ UNCHANGED <<clock, calls, offers, used, index, pending, putVars, evictVars, flushVars>>

(* Mutant of Unwind: a failed put keeps its slots. *)
UnwindKeepsSlots(w) ==
    /\ pc[w] = "unwind"
    /\ items' = [items EXCEPT ![w] = {}]
    /\ Goto(w, "idle")
    /\ UNCHANGED <<clock, calls, offers, used, index, content, pending, todo, need,
                   level, futile, lost, evictVars, flushVars>>

Unwind(w) ==
    /\ pc[w] = "unwind"
    /\ \E c \in items[w] :
          /\ FreeSlot(c.slot)
          /\ items' = [items EXCEPT ![w] = @ \ {c}]
    /\ Goto(w, IF items'[w] = {} THEN "idle" ELSE "unwind")
    /\ UNCHANGED <<clock, calls, index, content, pending, todo, need, level, futile, lost,
                   evictVars, flushVars>>

(* StoreMetaIndex::Put overwrites the record of a key that is there again. *)
Publish(w) ==
    /\ pc[w] = "publish"
    /\ \E c \in items[w] :
          /\ index' = [index EXCEPT ![c.key] = c.slot]
          /\ items' = [items EXCEPT ![w] = @ \ {c}]
    /\ Goto(w, IF items'[w] = {} THEN "idle" ELSE "publish")
    /\ UNCHANGED <<clock, calls, offers, used, content, pending, todo, need, level, futile, lost,
                   evictVars, flushVars>>

----------------------------------------------------------------------------
(* FalconKVStore::Remove: Meta first, then the index, then the queue.      *)

Remove(w, k) ==
    /\ pc[w] = "idle"
    /\ MayEvict(w)
    /\ CountCall
    /\ todo' = [todo EXCEPT ![w] = <<k>>]
    /\ Goto(w, "rmsync")
    /\ UNCHANGED <<clock, offers, used, index, content, pending, need, items, level,
                   futile, lost, evictVars, flushVars>>

RemoveSync(w) ==
    /\ pc[w] = "rmsync"
    /\ \/ Goto(w, "rmindex") /\ UNCHANGED todo
       \/ Goto(w, "idle") /\ todo' = [todo EXCEPT ![w] = <<>>]
    /\ UNCHANGED <<clock, calls, offers, used, index, content, pending, need, items, level,
                   futile, lost, evictVars, flushVars>>

RemoveFromIndex(w) ==
    LET key == Head(todo[w])
    IN  /\ pc[w] = "rmindex"
        /\ todo' = [todo EXCEPT ![w] = <<>>]
        /\ index' = [index EXCEPT ![key] = NoSlot]
        /\ IF index[key] = NoSlot
           THEN Goto(w, "idle") /\ UNCHANGED hand
           ELSE /\ hand' = [hand EXCEPT ![w] = [key |-> key, slot |-> index[key]]]
                /\ Goto(w, "rmenqueue")
        /\ UNCHANGED <<clock, calls, offers, used, content, pending, need, items, level,
                       futile, lost, cands, round, evicted, flushVars>>

RemoveEnqueue(w) ==
    /\ pc[w] = "rmenqueue"
    /\ Enqueue(hand[w].slot)
    /\ hand' = [hand EXCEPT ![w] = NoRecord]
    /\ Goto(w, "idle")
    /\ UNCHANGED <<clock, calls, offers, used, index, content, putVars, cands, round,
                   evicted, flushVars>>

----------------------------------------------------------------------------
PutStep(w) ==
    \/ CheckKey(w) \/ BatchAlloc(w) \/ AllocOk(w) \/ ClimbLadder(w) \/ NoSpace(w)
    \/ WriteStarts(w) \/ WriteOk(w) \/ WriteFails(w) \/ Unwind(w) \/ Publish(w)

EvictStep(t) ==
    SyncRemoveOk(t) \/ SyncRemoveFails(t) \/ EvictRemove(t) \/ EvictEnqueue(t)

FlushStep(t) == ReadNow(t) \/ TakeExpired(t) \/ FreeTaken(t)

RemoveStep(w) == RemoveSync(w) \/ RemoveFromIndex(w) \/ RemoveEnqueue(w)

WriterStep(w) ==
    PutStep(w) \/ ForcePick(w) \/ EvictStep(w) \/ FlushStep(w) \/ TakeAll(w) \/ RemoveStep(w)

EvictorStep == LoopTest \/ LoopPick \/ EvictStep(Evictor)

Calls ==
    \E w \in Writers : \/ \E ks \in Batches[w] : BatchPut(w, ks)
                      \/ \E k \in Removals[w] : Remove(w, k)

Next ==
    \/ Calls \/ Tick \/ ReaperWakes \/ LoopWakes
    \/ \E w \in Writers : WriterStep(w)
    \/ EvictorStep
    \/ FlushStep(Reaper)

(* A thread inside an operation keeps running. *)
Fairness ==
    /\ \A w \in Writers : WF_vars(WriterStep(w))
    /\ WF_vars(EvictorStep)
    /\ WF_vars(FlushStep(Reaper))

Spec == Init /\ [][Next]_vars /\ Fairness

----------------------------------------------------------------------------
Labels == {"idle", "check", "balloc", "now", "take", "free", "takeall", "alloc",
           "test", "pick", "sync", "remove", "enqueue", "write", "writing", "unwind",
           "publish", "rmsync", "rmindex", "rmenqueue"}

Queues == [Slots -> [Times -> Nat]]

TypeOK ==
    /\ clock \in Times
    /\ calls \in 0 .. MaxCalls
    /\ offers \in [Slots -> Nat]
    /\ used \in Int
    /\ index \in [Keys -> Slots \cup {NoSlot}]
    /\ content \in [Slots -> Keys \cup {NoKey}]
    /\ pending \in Queues
    /\ pc \in [Threads -> Labels]
    /\ todo \in [Writers -> Seq(Keys)]
    /\ need \in [Writers -> Seq(Keys)]
    /\ items \in [Writers -> SUBSET Records]
    /\ level \in [Writers -> 1 .. 3]
    /\ futile \in [Writers -> BOOLEAN]
    /\ lost \in [Writers -> 0 .. EvictTarget]
    /\ cands \in [Mutators -> SUBSET Records]
    /\ hand \in [Mutators -> Records \cup {NoRecord}]
    /\ round \in [Writers -> Nat]
    /\ evicted \in [Writers -> Nat]
    /\ now \in [Threads -> Times]
    /\ spoils \in [Threads -> Queues]

(* Everyone who treats slot s as theirs to use or to give back. *)
Claims(s) ==
    {<<"allocator", i>> : i \in 1 .. offers[s]}
    \cup {<<"index", k>> : k \in {k \in Keys : index[k] = s}}
    \cup (UNION {{<<"queue", t, i>> : i \in 1 .. pending[s][t]} : t \in Times})
    \cup (UNION {{<<"flush", u, t, i>> : i \in 1 .. spoils[u][s][t]} :
                   u \in Threads, t \in Times})
    \cup (UNION {{<<"put", w, c.key>> : c \in {c \in items[w] : c.slot = s}} :
                   w \in Writers})
    \cup {<<"evict", t>> : t \in {t \in Mutators : hand[t].slot = s}}

(* No slot is used twice: not published for two keys, not freed while it   *)
(* is published, not freed twice.                                          *)
NoAliasing == \A s \in Slots : Cardinality(Claims(s)) <= 1

(* No slot is lost: one that nobody claims is never allocated again.       *)
NoLeak == \A s \in Slots : Claims(s) # {}

(* As long as evictions do not overlap each other, nor puts of one key,    *)
(* every slot has exactly one owner through all of allocation, eviction,   *)
(* grace period, forced reclaim and failed writes.                         *)
SlotOwnership == NoAliasing /\ NoLeak

(* A key is published only once its value is on the SSD, and the value     *)
(* stays there while the key is in the index: a Get that finds the key     *)
(* reads its value.                                                        *)
PublishedIntact == \A k \in Indexed : content[index[k]] = k

(* Entries other threads have taken off the queue and have yet to free.    *)
Underway(w) ==
    {q \in (Threads \ {w}) \X Slots \X Times \X (1 .. EvictTarget) :
        q[4] <= spoils[q[1]][q[2]][q[3]]}

(* A put reports NoSpace only when it could not have had a slot: its value *)
(* is too large; or its ForceEvict had nothing to evict, or Meta refused;  *)
(* or every slot it has evicted for itself was given to another put in the *)
(* meantime or is about to be freed by another thread.                     *)
NoSpaceJustified ==
    [][\A w \in Writers : NoSpace(w) =>
          \/ Head(need[w]) \in Oversize
          \/ evicted[w] = 0 /\ futile[w]
          \/ evicted[w] \in 1 .. lost[w] + Cardinality(Underway(w))]_vars

(* Put, BatchPut, Remove and a run of the evict loop come to an end: the   *)
(* ladder, the rounds and the loop's retries are bounded.                  *)
OperationsReturn ==
    \A t \in Mutators : pc[t] # "idle" ~> pc[t] = "idle"

(* PendingEvictQueue's purpose: an entry waits out its grace period unless *)
(* FlushAllForced takes it as the last resort, or a flush does that had    *)
(* read the clock before the entry was enqueued: its unsigned age is huge. *)
GraceUnlessStaleClock ==
    [][\A s \in Slots, t \in Times :
          pending'[s][t] < pending[s][t] =>
              \/ clock - t >= Grace
              \/ \E w \in Writers : TakeAll(w)
              \/ \E u \in Threads : t > now[u] /\ TakeExpired(u)]_vars
=============================================================================
