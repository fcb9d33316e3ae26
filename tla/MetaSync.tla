------------------------------ MODULE MetaSync ------------------------------
(***************************************************************************)
(* One store's MetaSyncClient and its entries in the Meta server's         *)
(* MetaManager: SyncCommit (one retry), AsyncCommit and the commit thread, *)
(* SyncRemove, RegisterStore, and the reconnect thread with FullResync.    *)
(* The Workers are the threads that put, remove and evict.                 *)
(*                                                                         *)
(* A record is a key and the version its put gave it, which stands for the *)
(* offset and size.  A step is an RPC together with the store to           *)
(* connected_ that follows its outcome, a read of connected_, or a locked  *)
(* section.  An RPC fails while Meta cannot be reached, or loses its reply *)
(* when an outage begins; an outage ends with Meta's records in place or,  *)
(* when the process was restarted, with none: MetaManager persists nothing.*)
(***************************************************************************)
EXTENDS Integers, Sequences, FiniteSets

CONSTANTS Keys,
          Putters, BatchPutters, Removers, \* threads that put, remove or evict
          Committer,    \* the thread that runs AsyncCommitLoop
          Reconnector,  \* the thread that runs ReconnectLoop
          FirstConnect, \* possible outcomes of TryConnect within Connect
          PushSize,     \* kBatchSize (256)
          MaxAttempts,  \* attempts at RegisterStore (3)
          MaxPuts,      \* bound: number of puts that succeed
          MaxOutages    \* bound: number of outages of Meta

Workers == Putters \cup BatchPutters \cup Removers
Threads == Workers \cup {Committer, Reconnector}

ASSUME MetaSyncAssumption ==
    /\ Committer \notin Workers /\ Reconnector \notin Workers
    /\ Committer # Reconnector
    /\ FirstConnect \subseteq BOOLEAN
    /\ IsFiniteSet(Keys)
    /\ {PushSize, MaxAttempts} \subseteq Nat \ {0}
    /\ {MaxPuts, MaxOutages} \subseteq Nat

Versions == 1 .. MaxPuts
NoVersion == 0
Records == [key : Keys, ver : Versions \cup {NoVersion}]

VARIABLES
    index,      \* StoreMetaIndex: version of each committed key
    puts,       \* number of puts that have entered the index
    meta,       \* MetaManager: version of this store's record of each key
    registered, \* MetaManager knows the store
    up,         \* Meta can be reached
    outages,    \* outages so far
    connected,  \* connected_
    started,    \* the commit thread has been started
    queue,      \* pending_commits_, as one sequence of records
    pc,         \* where each thread is
    recs,       \* records a thread is putting, committing or removing
    snap,       \* FullResync: entries still to be pushed
    attempt,    \* FullResync: failed attempts at RegisterStore
    excused,    \* auxiliary: keys of which a record may come back to Meta, or
                \* stay there, after their removal or a newer put
    overlooked  \* auxiliary: a restart of Meta, or an RPC that failed and was
                \* retried, has not been followed by a full resync

vars == <<index, puts, meta, registered, up, outages, connected, started, queue,
          pc, recs, snap, attempt, excused, overlooked>>

store == <<index, puts, queue, excused>>
server == <<meta, registered, up, outages>>
link == <<connected, started, overlooked>>
resync == <<snap, attempt>>

EmptyMeta == [k \in Keys |-> NoVersion]

Goto(t, l) == pc' = [pc EXCEPT ![t] = l]

Names(rs, k) == \E i \in DOMAIN rs : rs[i].key = k

(* Some thread is going to push key k, or to take a snapshot that has it. *)
PushComing(k) ==
    \/ Names(queue, k)
    \/ \E t \in Threads : pc[t] \in {"commit", "send", "retry", "enqueue"} /\ Names(recs[t], k)
    \/ \E r \in snap : r.key = k
    \/ pc[Reconnector] \in {"register", "snapshot"}

RemovalComing(k) == \E w \in Workers : pc[w] = "unindex" /\ Names(recs[w], k)

----------------------------------------------------------------------------
(* MetaManager *)

(* SyncCommit of MetaManager: records are upserted in their order. *)
Upsert(rs) ==
    [k \in Keys |->
        LET at == {i \in DOMAIN rs : rs[i].key = k}
        IN  IF at = {} THEN meta[k]
            ELSE rs[CHOOSE i \in at : \A j \in at : j <= i].ver]

(* SyncRemove of MetaManager: erased by key, whatever record is there. *)
Erase(k) == [meta EXCEPT ![k] = NoVersion]

(* The outcomes of an RPC that turns Meta's records into m and the set of  *)
(* registered stores into r.                                               *)
RpcOk(m, r) ==
    /\ up
    /\ meta' = m
    /\ registered' = r
    /\ UNCHANGED <<up, outages>>

RpcLost == ~up /\ UNCHANGED server

RpcReplyLost(m, r) ==
    /\ up
    /\ outages < MaxOutages
    /\ meta' = m
    /\ registered' = r
    /\ up' = FALSE
    /\ outages' = outages + 1

RpcFails(m, r) == RpcLost \/ RpcReplyLost(m, r)

(* Meta becomes unreachable, or reachable again with or without a restart. *)
OutageBegins ==
    /\ up
    /\ outages < MaxOutages
    /\ up' = FALSE
    /\ outages' = outages + 1
    /\ UNCHANGED <<store, meta, registered, link, pc, recs, resync>>

OutageEnds ==
    /\ ~up
    /\ up' = TRUE
    /\ UNCHANGED <<store, meta, registered, outages, link, pc, recs, resync>>

MetaRestarts ==
    /\ ~up
    /\ up' = TRUE
    /\ meta' = EmptyMeta
    /\ registered' = FALSE
    /\ overlooked' = TRUE
    /\ UNCHANGED <<store, outages, connected, started, pc, recs, resync>>

----------------------------------------------------------------------------
(* FalconKVStore's side: Put, BatchPut, and Remove or an eviction *)

(* Connect, called by Init of the store with an empty index: TryConnect,   *)
(* then RegisterStore and the start of the commit thread if it succeeded.  *)
Init ==
    /\ index = EmptyMeta
    /\ puts = 0
    /\ meta = EmptyMeta
    /\ up \in BOOLEAN
    /\ outages = 0
    /\ started \in FirstConnect
    /\ registered = (started /\ up)
    /\ connected = registered
    /\ queue = <<>>
    /\ pc = [t \in Threads |-> "idle"]
    /\ recs = [t \in Threads |-> <<>>]
    /\ snap = {}
    /\ attempt = 0
    /\ excused = {}
    /\ overlooked = FALSE

(* A key that is not in the index gets a slot and is written, ...          *)
StartPut(w, k, how) ==
    /\ pc[w] = "idle"
    /\ index[k] = NoVersion
    /\ recs' = [recs EXCEPT ![w] = <<[key |-> k, ver |-> NoVersion]>>]
    /\ Goto(w, how)
    /\ UNCHANGED <<store, server, link, resync>>

Put(w, k) == StartPut(w, k, "put")
BatchPut(w, k) == StartPut(w, k, "batchput")

(* ... which may fail: no slot is left, or the write ends with an error.   *)
PutFails(w) ==
    /\ pc[w] \in {"put", "batchput"}
    /\ recs' = [recs EXCEPT ![w] = <<>>]
    /\ Goto(w, "idle")
    /\ UNCHANGED <<store, server, link, resync>>

(* Then it enters the index, over whatever another put of the key may have *)
(* left there since; only then is Meta told, by SyncCommit (Put) or        *)
(* AsyncCommit (BatchPut).                                                 *)
Publish(w) ==
    LET k == recs[w][1].key
    IN  /\ pc[w] \in {"put", "batchput"}
        /\ puts < MaxPuts
        /\ puts' = puts + 1
        /\ index' = [index EXCEPT ![k] = puts']
        /\ excused' = IF index[k] = NoVersion THEN excused ELSE excused \cup {k}
        /\ recs' = [recs EXCEPT ![w] = <<[key |-> k, ver |-> puts']>>]
        /\ Goto(w, IF pc[w] = "put" THEN "commit" ELSE "enqueue")
        /\ UNCHANGED <<queue, server, link, resync>>

(* Remove, which does not ask whether the store has the key, and           *)
(* EvictEntries or ForceEvict for one of their candidates.                 *)
Remove(w, k) ==
    /\ pc[w] = "idle"
    /\ recs' = [recs EXCEPT ![w] = <<[key |-> k, ver |-> index[k]]>>]
    /\ Goto(w, "remove")
    /\ UNCHANGED <<store, server, link, resync>>

(* The index is left by key: what goes may be a newer entry, put since     *)
(* Meta was told.                                                          *)
Unindex(w) ==
    LET rec == recs[w][1]
    IN  /\ pc[w] = "unindex"
        /\ index' = [index EXCEPT ![rec.key] = NoVersion]
        /\ excused' = IF index[rec.key] \in {NoVersion, rec.ver} THEN excused
                      ELSE excused \cup {rec.key}
        /\ recs' = [recs EXCEPT ![w] = <<>>]
        /\ Goto(w, "idle")
        /\ UNCHANGED <<puts, queue, server, link, resync>>

----------------------------------------------------------------------------
(* SyncCommit, for every thread that calls it *)

(* Where a thread goes when SyncCommit returns: FullResync goes on after   *)
(* success and returns after an error, the others ignore the status.       *)
Return(t, ok) ==
    /\ recs' = [recs EXCEPT ![t] = <<>>]
    /\ Goto(t, IF t = Reconnector /\ ok /\ snap # {} THEN "push" ELSE "idle")
    /\ snap' = IF t = Reconnector /\ ~ok THEN {} ELSE snap
    /\ UNCHANGED attempt

SyncCommit(t) ==
    /\ pc[t] = "commit"
    /\ IF connected
       THEN Goto(t, "send") /\ UNCHANGED <<recs, resync>>
       ELSE Return(t, TRUE)
    /\ UNCHANGED <<store, server, link>>

CommitOk(t) ==
    /\ pc[t] = "send"
    /\ RpcOk(Upsert(recs[t]), registered)
    /\ Return(t, TRUE)
    /\ UNCHANGED <<store, link>>

(* Mutant of CommitFails: the failure does not clear connected_. *)
CommitFailsUnnoticed(t) ==
    /\ pc[t] = "send"
    /\ RpcFails(Upsert(recs[t]), registered)
    /\ Goto(t, "retry")
    /\ UNCHANGED <<store, link, recs, resync>>

CommitFails(t) ==
    /\ pc[t] = "send"
    /\ RpcFails(Upsert(recs[t]), registered)
    /\ connected' = FALSE
    /\ Goto(t, "retry")
    /\ UNCHANGED <<store, started, overlooked, recs, resync>>

(* The retry's success sets connected_ again, so that no resync follows. *)
RetryOk(t) ==
    /\ pc[t] = "retry"
    /\ RpcOk(Upsert(recs[t]), registered)
    /\ connected' = TRUE
    /\ overlooked' = TRUE
    /\ Return(t, TRUE)
    /\ UNCHANGED <<store, started>>

(* The retry's failure leaves connected_ alone: it was cleared before. *)
RetryFails(t) ==
    /\ pc[t] = "retry"
    /\ RpcFails(Upsert(recs[t]), registered)
    /\ Return(t, FALSE)
    /\ UNCHANGED <<store, link>>

(* AsyncCommit enqueues the records and returns. *)
AsyncCommit(w) ==
    /\ pc[w] = "enqueue"
    /\ queue' = queue \o recs[w]
    /\ recs' = [recs EXCEPT ![w] = <<>>]
    /\ Goto(w, "idle")
    /\ UNCHANGED <<index, puts, excused, server, link, resync>>

(* AsyncCommitLoop takes the whole queue and merges it into one call. *)
Drain ==
    /\ started
    /\ pc[Committer] = "idle"
    /\ queue # <<>>
    /\ recs' = [recs EXCEPT ![Committer] = queue]
    /\ queue' = <<>>
    /\ Goto(Committer, "commit")
    /\ UNCHANGED <<index, puts, excused, server, link, resync>>

----------------------------------------------------------------------------
(* SyncRemove: skipped and successful when not connected, no retry *)

SyncRemove(w) ==
    /\ pc[w] = "remove"
    /\ Goto(w, IF connected THEN "sendremove" ELSE "unindex")
    /\ excused' = IF connected THEN excused ELSE excused \cup {recs[w][1].key}
    /\ UNCHANGED <<index, puts, queue, server, link, recs, resync>>

RemoveOk(w) ==
    LET key == recs[w][1].key
    IN  /\ pc[w] = "sendremove"
        /\ RpcOk(Erase(key), registered)
        /\ excused' = IF PushComing(key) THEN excused \cup {key} ELSE excused \ {key}
        /\ Goto(w, "unindex")
        /\ UNCHANGED <<index, puts, queue, link, recs, resync>>

(* Mutant of RemoveFails: the key leaves the index all the same. *)
RemoveFailsGoesOn(w) ==
    /\ pc[w] = "sendremove"
    /\ RpcFails(Erase(recs[w][1].key), registered)
    /\ connected' = FALSE
    /\ Goto(w, "unindex")
    /\ UNCHANGED <<store, started, overlooked, recs, resync>>

(* The caller gives up: the key stays in the index. *)
RemoveFails(w) ==
    /\ pc[w] = "sendremove"
    /\ RpcFails(Erase(recs[w][1].key), registered)
    /\ connected' = FALSE
    /\ recs' = [recs EXCEPT ![w] = <<>>]
    /\ Goto(w, "idle")
    /\ UNCHANGED <<store, started, overlooked, resync>>

----------------------------------------------------------------------------
(* ReconnectLoop and FullResync *)

(* Mutants of TryConnect: the count of attempts is not reset; the new      *)
(* connection is not followed by FullResync.                               *)
TryConnectKeepsAttempts ==
    /\ pc[Reconnector] = "idle"
    /\ ~connected
    /\ connected' = TRUE
    /\ Goto(Reconnector, "register")
    /\ UNCHANGED <<store, server, started, overlooked, recs, resync>>

TryConnectOnly ==
    /\ pc[Reconnector] = "idle"
    /\ ~connected
    /\ connected' = TRUE
    /\ UNCHANGED <<store, server, started, overlooked, pc, recs, resync>>

(* Every interval, if not connected: TryConnect; nothing happens when that *)
(* fails.  Meta need not be reachable: the channel connects lazily.        *)
TryConnect ==
    /\ pc[Reconnector] = "idle"
    /\ ~connected
    /\ connected' = TRUE
    /\ attempt' = 0
    /\ Goto(Reconnector, "register")
    /\ UNCHANGED <<store, server, started, overlooked, recs, snap>>

(* RegisterStore is skipped, and counts as done, when not connected: that  *)
(* is what every attempt after a failed one finds, unless another thread   *)
(* has set connected_ meanwhile.                                           *)
RegisterSkipped ==
    /\ pc[Reconnector] = "register"
    /\ ~connected
    /\ Goto(Reconnector, "snapshot")
    /\ UNCHANGED <<store, server, link, recs, resync>>

RegisterOk ==
    /\ pc[Reconnector] = "register"
    /\ connected
    /\ RpcOk(meta, TRUE)
    /\ Goto(Reconnector, "snapshot")
    /\ UNCHANGED <<store, link, recs, resync>>

RegisterFails ==
    /\ pc[Reconnector] = "register"
    /\ connected
    /\ RpcFails(meta, TRUE)
    /\ connected' = FALSE
    /\ attempt' = attempt + 1
    /\ Goto(Reconnector, IF attempt' = MaxAttempts THEN "idle" ELSE "register")
    /\ UNCHANGED <<store, started, overlooked, recs, snap>>

(* GetAllCommittedEntries copies the index under its lock. *)
Snapshot ==
    /\ pc[Reconnector] = "snapshot"
    /\ snap' = {[key |-> k, ver |-> index[k]] : k \in {k \in Keys : index[k] # NoVersion}}
    /\ overlooked' = (overlooked /\ ~registered)
    /\ excused' = excused \cup {k \in Keys : RemovalComing(k)}
    /\ Goto(Reconnector, IF snap' = {} THEN "idle" ELSE "push")
    /\ UNCHANGED <<index, puts, queue, server, connected, started, recs, attempt>>

(* The entries go out in batches, each through SyncCommit. *)
Push ==
    /\ pc[Reconnector] = "push"
    /\ \E B \in SUBSET snap : \E order \in [1 .. Cardinality(B) -> B] :
          /\ Cardinality(B) = IF Cardinality(snap) < PushSize THEN Cardinality(snap)
                              ELSE PushSize
          /\ \A r \in B : \E i \in DOMAIN order : order[i] = r
          /\ recs' = [recs EXCEPT ![Reconnector] = order]
          /\ snap' = snap \ B
    /\ Goto(Reconnector, "commit")
    /\ UNCHANGED <<store, server, link, attempt>>

----------------------------------------------------------------------------
CommitStep(t) ==
    SyncCommit(t) \/ CommitOk(t) \/ CommitFails(t) \/ RetryOk(t) \/ RetryFails(t)

RemoveStep(w) == SyncRemove(w) \/ RemoveOk(w) \/ RemoveFails(w) \/ Unindex(w)

PutStep(w) == PutFails(w) \/ Publish(w) \/ AsyncCommit(w)

WorkerStep(w) == PutStep(w) \/ CommitStep(w) \/ RemoveStep(w)

CommitterStep == Drain \/ CommitStep(Committer)

ReconnectorStep ==
    \/ TryConnect \/ RegisterSkipped \/ RegisterOk \/ RegisterFails
    \/ Snapshot \/ Push \/ CommitStep(Reconnector)

Calls ==
    \E k \in Keys :
       \/ \E w \in Putters : Put(w, k)
       \/ \E w \in BatchPutters : BatchPut(w, k)
       \/ \E w \in Removers : Remove(w, k)

Next ==
    \/ Calls \/ OutageBegins \/ OutageEnds \/ MetaRestarts
    \/ \E w \in Workers : WorkerStep(w)
    \/ CommitterStep
    \/ ReconnectorStep

(* Threads keep running, TryConnect succeeds sooner or later, and Meta     *)
(* comes back after an outage.                                             *)
Fairness ==
    /\ \A w \in Workers : WF_vars(WorkerStep(w))
    /\ WF_vars(CommitterStep)
    /\ WF_vars(ReconnectorStep)
    /\ WF_vars(OutageEnds \/ MetaRestarts)

Spec == Init /\ [][Next]_vars /\ Fairness

----------------------------------------------------------------------------
Labels == {"idle", "put", "batchput", "commit", "send", "retry", "enqueue", "remove",
           "sendremove", "unindex", "register", "snapshot", "push"}

TypeOK ==
    /\ puts \in 0 .. MaxPuts
    /\ index \in [Keys -> 0 .. puts]
    /\ meta \in [Keys -> 0 .. puts]
    /\ registered \in BOOLEAN /\ up \in BOOLEAN
    /\ outages \in 0 .. MaxOutages
    /\ connected \in BOOLEAN /\ started \in BOOLEAN /\ overlooked \in BOOLEAN
    /\ queue \in Seq(Records)
    /\ pc \in [Threads -> Labels]
    /\ recs \in [Threads -> Seq(Records)]
    /\ snap \in SUBSET Records
    /\ excused \in SUBSET Keys
    /\ attempt \in 0 .. MaxAttempts

(* A key the store has and Meta has no record of is never forgotten: it is *)
(* still to be pushed, or about to leave the index, or the client knows it *)
(* is disconnected and so will resync.  Failed commits, commits skipped    *)
(* while disconnected and removals whose reply was lost are all covered.   *)
(* The exceptions are the outages the client overlooks.  Without them a    *)
(* connected store is registered, too.                                     *)
NothingForgotten ==
    ~overlooked /\ connected =>
        /\ \A k \in Keys : index[k] # NoVersion /\ meta[k] = NoVersion =>
                              PushComing(k) \/ RemovalComing(k)
        /\ registered \/ pc[Reconnector] = "register"

(* Outages that are not overlooked are repaired: a key that stays in the   *)
(* index is eventually known to Meta for good, provided the commit thread  *)
(* was started.                                                            *)
NoticedOutagesRepaired ==
    started => \A k \in Keys :
        <>[](index[k] # NoVersion /\ ~overlooked) => <>[](meta[k] # NoVersion)

(* A removal that Meta has confirmed is final: Meta's records are those of *)
(* the index, through later puts, retries, restarts and resyncs, except of *)
(* keys whose removal was skipped while disconnected, met a commit of the  *)
(* key on its way to Meta, or was overtaken between Meta and the index by  *)
(* the snapshot of a resync or by a new put of the key; and of keys two    *)
(* puts of which overlapped, so that the second entered the index over the *)
(* first: their commits may reach Meta in the other order.                 *)
GhostsExplained ==
    \A k \in Keys \ excused : meta[k] \in {NoVersion, index[k]}
=============================================================================
