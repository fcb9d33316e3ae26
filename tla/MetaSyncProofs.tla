--------------------------- MODULE MetaSyncProofs ---------------------------
(***************************************************************************)
(* Proofs about MetaSync for any finite set of keys, any sets of threads,  *)
(* any batch size and number of attempts, and any number of puts and       *)
(* outages.  Fairness plays no part in them.                               *)
(*                                                                         *)
(* NothingForgotten is not inductive: it counts the record a thread is     *)
(* about to retry among those on their way, yet a retry may fail and say   *)
(* nothing.  Scheduled leaves the retries out.  It is kept because the     *)
(* failure before the retry has cleared connected_, and who sets the flag  *)
(* again either overlooks the failure (RetryOk) or resyncs (TryConnect).   *)
(*                                                                         *)
(* GhostsExplained rests on what is still under way: a record of a key     *)
(* that is not excused is that of the index (PendingExact), and there is   *)
(* none while the key's removal is between Meta and the index              *)
(* (ConfirmedGone).                                                        *)
(***************************************************************************)
EXTENDS MetaSync, SequenceTheorems, FiniteSetTheorems, FunctionTheorems,
        WellFoundedInduction, TLAPS

Pushing == {"commit", "send", "retry", "enqueue"}
Holding == {"put", "batchput", "remove", "sendremove", "unindex"}

In(rs, r) == \E i \in DOMAIN rs : rs[i] = r

(* Record r is on its way to Meta; Sure does not count on the retries. *)
Under(r) ==
    \/ In(queue, r)
    \/ \E t \in Threads : pc[t] \in Pushing /\ In(recs[t], r)
    \/ r \in snap

Sure(r) ==
    \/ In(queue, r)
    \/ \E t \in Threads : pc[t] \in Pushing \ {"retry"} /\ In(recs[t], r)
    \/ r \in snap

Resyncing == pc[Reconnector] \in {"register", "snapshot"}

(* What a record on its way and one held by a put or a removal look like,  *)
(* and the bound on the attempts.                                          *)
Fresh ==
    /\ \A r \in Records : Under(r) => r.ver \in 1 .. puts
    /\ \A w \in Workers : pc[w] \in Holding => Len(recs[w]) = 1 /\ recs[w][1].ver \in 0 .. puts
    /\ IsFiniteSet(snap)
    /\ pc[Reconnector] = "register" => attempt < MaxAttempts

Scheduled ==
    ~overlooked /\ connected =>
        \A k \in Keys : index[k] # NoVersion /\ meta[k] = NoVersion =>
           \/ \E r \in Records : Sure(r) /\ r.key = k
           \/ Resyncing
           \/ RemovalComing(k)

(* A failure before a retry of FullResync has not been forgotten. *)
RetryNoticed == pc[Reconnector] = "retry" => overlooked \/ ~connected

RegistrationKept ==
    ~overlooked /\ connected => registered \/ pc[Reconnector] = "register"

PendingExact ==
    \A r \in Records : Under(r) /\ r.key \notin excused => r.ver = index[r.key]

ConfirmedGone ==
    \A w \in Workers :
       LET rec == recs[w][1]
       IN  pc[w] = "unindex" /\ rec.key \notin excused /\ rec.ver = index[rec.key] =>
              meta[rec.key] = NoVersion /\ \A r \in Records : Under(r) => r.key # rec.key

Inv ==
    /\ TypeOK /\ Fresh
    /\ Scheduled /\ RetryNoticed /\ RegistrationKept
    /\ PendingExact /\ ConfirmedGone /\ GhostsExplained

----------------------------------------------------------------------------
(* Sequences of records *)

LEMMA InEmpty == \A r : ~In(<<>>, r)
    BY DEF In

LEMMA InOne == ASSUME NEW x PROVE \A r : In(<<x>>, r) <=> r = x
<1>1. DOMAIN <<x>> = {1} /\ <<x>>[1] = x
    OBVIOUS
<1> QED
    BY <1>1 DEF In

LEMMA InConcat ==
    ASSUME NEW S, NEW p \in Seq(S), NEW q \in Seq(S)
    PROVE  \A r : In(p \o q, r) <=> In(p, r) \/ In(q, r)
<1>1. /\ DOMAIN p = 1 .. Len(p) /\ DOMAIN q = 1 .. Len(q) /\ Len(p) \in Nat /\ Len(q) \in Nat
      /\ DOMAIN (p \o q) = 1 .. Len(p) + Len(q)
      /\ \A i \in 1 .. Len(p) : (p \o q)[i] = p[i]
      /\ \A i \in Len(p) + 1 .. Len(p) + Len(q) : (p \o q)[i] = q[i - Len(p)]
    BY ConcatProperties
<1>2. \A i \in 1 .. Len(q) : Len(p) + i \in DOMAIN (p \o q) /\ (p \o q)[Len(p) + i] = q[i]
    BY <1>1
<1>3. \A i \in DOMAIN (p \o q) : i \in 1 .. Len(p) \/ i - Len(p) \in 1 .. Len(q)
    BY <1>1
<1>4. \A i \in DOMAIN (p \o q) :
         \/ i \in DOMAIN p /\ (p \o q)[i] = p[i]
         \/ i - Len(p) \in DOMAIN q /\ (p \o q)[i] = q[i - Len(p)]
    BY <1>1, <1>3
<1>5. DOMAIN p \subseteq DOMAIN (p \o q)
    BY <1>1
<1> SUFFICES ASSUME NEW r PROVE In(p \o q, r) <=> In(p, r) \/ In(q, r)
    OBVIOUS
<1>6. In(p \o q, r) => In(p, r) \/ In(q, r)
    BY <1>4 DEF In
<1>7. In(p, r) => In(p \o q, r)
    BY <1>1, <1>5 DEF In
<1>8. In(q, r) => In(p \o q, r)
    BY <1>1, <1>2 DEF In
<1> QED
    BY <1>6, <1>7, <1>8

LEMMA InTyped ==
    ASSUME NEW S, NEW q \in Seq(S), NEW r, In(q, r)
    PROVE  r \in S
    BY DEF In

LEMMA NamesIn == ASSUME NEW rs, NEW k PROVE Names(rs, k) <=> \E r : In(rs, r) /\ r.key = k
    BY DEF Names, In

(* Every set of numbers up to n that is not empty has a largest one. *)
Below == {ss \in Nat \X Nat : ss[1] < ss[2]}

LEMMA Least ==
    ASSUME NEW S, S \subseteq Nat, S # {}
    PROVE  \E i \in S : \A j \in S : i <= j
<1>1. IsWellFoundedOn(Below, Nat)
    BY NatLessThanWellFounded DEF OpToRel, Below
<1>2. PICK x \in S : \A y \in S : ~(<<y, x>> \in Below)
    BY <1>1, WFMin
<1>3. \A y \in S : ~(y < x)
    BY <1>2 DEF Below
<1> QED
    BY <1>3

LEMMA Largest ==
    ASSUME NEW n \in Nat, NEW S, S \subseteq 1 .. n, S # {}
    PROVE  \E i \in S : \A j \in S : j <= i
<1> DEFINE T == {n - i : i \in S}
<1>1. T \subseteq Nat
    OBVIOUS
<1>2. T # {}
    OBVIOUS
<1>3. PICK x \in T : \A y \in T : x <= y
  <2> HIDE DEF T
  <2> QED
      BY <1>1, <1>2, Least
<1>4. PICK i \in S : x = n - i
    OBVIOUS
<1>5. ASSUME NEW j \in S PROVE j <= i
  <2>1. n - i <= n - j
      BY <1>3, <1>4
  <2> QED
      BY <2>1
<1> QED
    BY <1>5

(* What Upsert leaves in Meta: the version of the last record of a key, or *)
(* what was there.                                                         *)
LEMMA UpsertValue ==
    ASSUME TypeOK, NEW rs \in Seq(Records), NEW k \in Keys
    PROVE  \/ Upsert(rs)[k] = meta[k] /\ \A r : In(rs, r) => r.key # k
           \/ \E r \in Records : In(rs, r) /\ r.key = k /\ Upsert(rs)[k] = r.ver
<1> DEFINE at == {i \in DOMAIN rs : rs[i].key = k}
           last == CHOOSE i \in at : \A j \in at : j <= i
<1>1. Upsert(rs)[k] = IF at = {} THEN meta[k] ELSE rs[last].ver
    BY DEF Upsert
<1>2. CASE at = {}
    BY <1>1, <1>2 DEF In
<1>3. CASE at # {}
  <2>1. at \subseteq 1 .. Len(rs) /\ Len(rs) \in Nat
      OBVIOUS
  <2>2. \E i \in at : \A j \in at : j <= i
    <3> HIDE DEF at
    <3> QED
        BY <1>3, <2>1, Largest
  <2>3. last \in at
    <3> HIDE DEF at
    <3> QED
        BY <2>2
  <2>4. last \in DOMAIN rs /\ rs[last].key = k /\ rs[last] \in Records
      BY <2>3
  <2> HIDE DEF at, last
  <2> QED
      BY <1>1, <1>3, <2>4 DEF In
<1> QED
    BY <1>2, <1>3

----------------------------------------------------------------------------
(* The steps *)

Begins(w, k) == Put(w, k) \/ BatchPut(w, k) \/ Remove(w, k)

(* The steps that are no part of SyncCommit. *)
OtherStep ==
    \/ \E w \in Workers, k \in Keys : Begins(w, k)
    \/ OutageBegins \/ OutageEnds \/ MetaRestarts
    \/ \E w \in Workers : \/ Publish(w) \/ PutFails(w) \/ AsyncCommit(w) \/ SyncRemove(w)
                          \/ RemoveOk(w) \/ RemoveFails(w) \/ Unindex(w)
    \/ Drain \/ TryConnect \/ RegisterSkipped \/ RegisterOk \/ RegisterFails
    \/ Snapshot \/ Push

LEMMA StepCases ==
    ASSUME [Next]_vars
    PROVE  UNCHANGED vars \/ OtherStep \/ \E t \in Threads : CommitStep(t)
<1>1. ASSUME NEW w \in Workers, WorkerStep(w)
      PROVE  OtherStep \/ \E t \in Threads : CommitStep(t)
    BY <1>1 DEF WorkerStep, PutStep, RemoveStep, OtherStep, Threads
<1>2. ASSUME CommitterStep PROVE OtherStep \/ \E t \in Threads : CommitStep(t)
    BY <1>2 DEF CommitterStep, OtherStep, Threads
<1>3. ASSUME ReconnectorStep PROVE OtherStep \/ \E t \in Threads : CommitStep(t)
    BY <1>3 DEF ReconnectorStep, OtherStep, Threads
<1>4. ASSUME Calls PROVE OtherStep
    BY <1>4 DEF Calls, OtherStep, Begins, Workers
<1> QED
    BY <1>1, <1>2, <1>3, <1>4 DEF Next, OtherStep

LEMMA Kinds ==
    /\ Workers \subseteq Threads /\ Committer \in Threads /\ Reconnector \in Threads
    /\ \A w \in Workers : w # Committer /\ w # Reconnector
    /\ Committer # Reconnector
    BY MetaSyncAssumption DEF Threads

(* A call of a worker begins with a record as the index has it (a put's    *)
(* key is not there), and a put ends with a new one.                       *)
LEMMA BeginEffect ==
    ASSUME NEW w \in Workers, NEW k \in Keys, Begins(w, k)
    PROVE  /\ pc[w] = "idle"
           /\ recs' = [recs EXCEPT ![w] = <<[key |-> k, ver |-> index[k]]>>]
           /\ \E l \in {"put", "batchput", "remove"} : pc' = [pc EXCEPT ![w] = l]
           /\ UNCHANGED <<store, server, link, resync>>
    BY DEF Begins, Put, BatchPut, StartPut, Remove, Goto

Enters(w, k) ==
    /\ pc[w] \in {"put", "batchput"}
    /\ puts < MaxPuts /\ puts' = puts + 1
    /\ index' = [index EXCEPT ![k] = puts + 1]
    /\ excused' = IF index[k] = NoVersion THEN excused ELSE excused \cup {k}
    /\ recs' = [recs EXCEPT ![w] = <<[key |-> k, ver |-> puts + 1]>>]
    /\ \E l \in {"commit", "enqueue"} : pc' = [pc EXCEPT ![w] = l]
    /\ UNCHANGED <<queue, server, link, resync>>

LEMMA PublishEffect ==
    ASSUME TypeOK, Fresh, NEW w \in Workers, Publish(w)
    PROVE  \E k \in Keys : k = recs[w][1].key /\ Enters(w, k)
<1>1. recs[w] \in Seq(Records) /\ Len(recs[w]) = 1
    BY Kinds DEF TypeOK, Fresh, Holding, Publish
<1>2. recs[w][1] \in Records
    BY <1>1
<1>3. recs[w][1].key \in Keys
    BY <1>2 DEF Records
<1> QED
    BY <1>3 DEF Publish, Enters, Goto

(* What an RPC may do to Meta. *)
LEMMA RpcEffect ==
    ASSUME TypeOK, NEW m, NEW r, RpcOk(m, r) \/ RpcFails(m, r)
    PROVE  /\ meta' = meta \/ meta' = m
           /\ registered' = registered \/ registered' = r
           /\ up' \in BOOLEAN /\ outages' \in 0 .. MaxOutages
<1>1. outages \in 0 .. MaxOutages /\ up \in BOOLEAN /\ MaxOutages \in Nat
    BY MetaSyncAssumption DEF TypeOK
<1>2. CASE RpcOk(m, r)
    BY <1>1, <1>2 DEF RpcOk
<1>3. CASE RpcLost
    BY <1>1, <1>3 DEF RpcLost, server
<1>4. CASE RpcReplyLost(m, r)
  <2>1. meta' = m /\ registered' = r /\ up' = FALSE
      BY <1>4 DEF RpcReplyLost
  <2>2. outages' = outages + 1 /\ outages < MaxOutages
      BY <1>4 DEF RpcReplyLost
  <2>3. outages' \in 0 .. MaxOutages
      BY <1>1, <2>2
  <2> QED
      BY <2>1, <2>3
<1> QED
    BY <1>2, <1>3, <1>4 DEF RpcFails

LEMMA UpsertTyped ==
    ASSUME TypeOK, Fresh, NEW t \in Threads, pc[t] \in Pushing
    PROVE  Upsert(recs[t]) \in [Keys -> 0 .. puts]
<1>1. recs[t] \in Seq(Records) /\ meta \in [Keys -> 0 .. puts] /\ puts \in Nat
    BY DEF TypeOK
<1>2. ASSUME NEW k \in Keys PROVE Upsert(recs[t])[k] \in 0 .. puts
  <2>1. CASE Upsert(recs[t])[k] = meta[k]
      BY <1>1, <2>1
  <2>2. CASE \E r \in Records : In(recs[t], r) /\ r.key = k /\ Upsert(recs[t])[k] = r.ver
    <3>1. PICK r \in Records : In(recs[t], r) /\ Upsert(recs[t])[k] = r.ver
        BY <2>2
    <3>2. Under(r)
        BY <3>1 DEF Under
    <3>3. r.ver \in 1 .. puts
        BY <3>2 DEF Fresh
    <3> QED
        BY <1>1, <3>1, <3>3
  <2> QED
      BY <1>1, <2>1, <2>2, UpsertValue
<1>3. Upsert(recs[t]) = [k \in Keys |-> Upsert(recs[t])[k]]
    BY DEF Upsert
<1> QED
    BY <1>2, <1>3

LEMMA PcTypes ==
    ASSUME TypeOK, [Next]_vars
    PROVE  pc' \in [Threads -> Labels]
<1>0. pc \in [Threads -> Labels]
    BY DEF TypeOK
<1> USE <1>0 DEF Goto, Labels
<1>1. CASE UNCHANGED vars
    BY <1>1 DEF vars
<1>2. ASSUME NEW t \in Threads, CommitStep(t) PROVE pc' \in [Threads -> Labels]
    BY <1>2 DEF CommitStep, SyncCommit, CommitOk, CommitFails, RetryOk, RetryFails, Return
<1>3. ASSUME NEW w \in Workers, NEW k \in Keys, Begins(w, k)
      PROVE  pc' \in [Threads -> Labels]
    BY <1>3, BeginEffect
<1>4. ASSUME OutageBegins \/ OutageEnds \/ MetaRestarts PROVE pc' \in [Threads -> Labels]
    BY <1>4 DEF OutageBegins, OutageEnds, MetaRestarts
<1>5. ASSUME NEW w \in Workers,
             \/ Publish(w) \/ PutFails(w) \/ AsyncCommit(w) \/ SyncRemove(w)
             \/ RemoveOk(w) \/ RemoveFails(w) \/ Unindex(w)
      PROVE  pc' \in [Threads -> Labels]
    BY <1>5 DEF Publish, PutFails, AsyncCommit, SyncRemove, RemoveOk, RemoveFails, Unindex
<1>6. ASSUME Drain \/ TryConnect \/ RegisterSkipped \/ RegisterOk PROVE pc' \in [Threads -> Labels]
    BY <1>6 DEF Drain, TryConnect, RegisterSkipped, RegisterOk
<1>8. ASSUME Push PROVE pc' \in [Threads -> Labels]
  <2>1. pc' = [pc EXCEPT ![Reconnector] = "commit"]
      BY <1>8 DEF Push
  <2> QED
      BY <2>1
<1>7. ASSUME RegisterFails \/ Snapshot PROVE pc' \in [Threads -> Labels]
  <2>1. \E l \in {"idle", "register", "push"} : pc' = [pc EXCEPT ![Reconnector] = l]
      BY <1>7 DEF RegisterFails, Snapshot
  <2> QED
      BY <2>1
<1> QED
    BY <1>1, <1>2, <1>3, <1>4, <1>5, <1>6, <1>7, <1>8, StepCases DEF OtherStep

(* The type invariant but for pc, in two parts. *)
FlagTypes ==
    /\ registered \in BOOLEAN /\ up \in BOOLEAN
    /\ connected \in BOOLEAN /\ started \in BOOLEAN /\ overlooked \in BOOLEAN

StoreTypes ==
    /\ puts \in 0 .. MaxPuts
    /\ index \in [Keys -> 0 .. puts] /\ meta \in [Keys -> 0 .. puts]
    /\ outages \in 0 .. MaxOutages
    /\ attempt \in 0 .. MaxAttempts
    /\ FlagTypes

RecordTypes ==
    /\ queue \in Seq(Records) /\ recs \in [Threads -> Seq(Records)]
    /\ snap \subseteq Records /\ excused \subseteq Keys

LEMMA TypeParts == TypeOK <=> StoreTypes /\ RecordTypes /\ pc \in [Threads -> Labels]
    BY DEF TypeOK, StoreTypes, FlagTypes, RecordTypes

LEMMA StoreTypesStep ==
    ASSUME TypeOK, Fresh, [Next]_vars
    PROVE  StoreTypes'
<1>0. StoreTypes /\ MaxPuts \in Nat /\ MaxAttempts \in Nat /\ MaxAttempts > 0
    BY TypeParts, MetaSyncAssumption
<1>z. NoVersion \in 0 .. puts /\ 0 \in 0 .. MaxAttempts
    BY <1>0 DEF StoreTypes, NoVersion
<1> USE Kinds DEF store, server, link, resync, FlagTypes
<1>1. CASE UNCHANGED vars
    BY <1>0, <1>1 DEF vars, StoreTypes
<1>2. ASSUME NEW t \in Threads, CommitStep(t) PROVE StoreTypes'
  <2>1. CASE SyncCommit(t)
      BY <1>0, <2>1 DEF SyncCommit, Return, StoreTypes
  <2>2. CASE ~SyncCommit(t)
    <3>1. /\ RpcOk(Upsert(recs[t]), registered) \/ RpcFails(Upsert(recs[t]), registered)
          /\ pc[t] \in Pushing
        BY <1>2, <2>2 DEF CommitStep, CommitOk, CommitFails, RetryOk, RetryFails, Pushing
    <3>2. /\ UNCHANGED <<puts, index, attempt, started>>
          /\ connected' \in {connected, TRUE, FALSE} /\ overlooked' \in {overlooked, TRUE}
        BY <1>2, <2>2 DEF CommitStep, CommitOk, CommitFails, RetryOk, RetryFails, Return
    <3>3. Upsert(recs[t]) \in [Keys -> 0 .. puts]
        BY <3>1, UpsertTyped
    <3> QED
        BY <1>0, <3>1, <3>2, <3>3, RpcEffect DEF StoreTypes
  <2> QED
      BY <2>1, <2>2
<1>3. ASSUME NEW w \in Workers, Publish(w) PROVE StoreTypes'
  <2>0. PICK k \in Keys : Enters(w, k)
      BY <1>3, PublishEffect
  <2>1. /\ puts' = puts + 1 /\ puts < MaxPuts /\ index' = [index EXCEPT ![k] = puts']
        /\ UNCHANGED <<server, link, resync>>
      BY <2>0 DEF Enters
  <2>2. puts' \in 0 .. MaxPuts /\ 0 .. puts \subseteq 0 .. puts' /\ puts' \in 0 .. puts'
      BY <1>0, <2>1 DEF StoreTypes
  <2>3. index' \in [Keys -> 0 .. puts'] /\ meta \in [Keys -> 0 .. puts']
      BY <1>0, <2>1, <2>2 DEF StoreTypes
  <2> QED
      BY <1>0, <2>1, <2>2, <2>3 DEF StoreTypes
<1>4. ASSUME NEW w \in Workers, NEW k \in Keys, Begins(w, k) PROVE StoreTypes'
    BY <1>0, <1>4, BeginEffect DEF StoreTypes
<1>5. CASE OutageBegins \/ OutageEnds
  <2>1. UNCHANGED <<store, meta, registered, link, resync>> /\ up' \in BOOLEAN
      BY <1>5 DEF OutageBegins, OutageEnds
  <2>2. outages' \in 0 .. MaxOutages
      BY <1>0, <1>5, MetaSyncAssumption DEF OutageBegins, OutageEnds, StoreTypes
  <2> QED
      BY <1>0, <2>1, <2>2 DEF StoreTypes
<1>6. CASE MetaRestarts
    BY <1>0, <1>6, <1>z DEF MetaRestarts, StoreTypes, EmptyMeta
<1>7. ASSUME NEW w \in Workers, PutFails(w) \/ AsyncCommit(w) \/ SyncRemove(w)
      PROVE  StoreTypes'
    BY <1>0, <1>7 DEF PutFails, AsyncCommit, SyncRemove, StoreTypes
<1>8. ASSUME NEW w \in Workers, RemoveOk(w) \/ RemoveFails(w) PROVE StoreTypes'
  <2> DEFINE m == Erase(recs[w][1].key)
  <2>1. RpcOk(m, registered) \/ RpcFails(m, registered)
      BY <1>8 DEF RemoveOk, RemoveFails
  <2>2. m \in [Keys -> 0 .. puts]
      BY <1>0, <1>z DEF StoreTypes, Erase
  <2>3. UNCHANGED <<puts, index, attempt, started, overlooked>> /\ connected' \in {connected, FALSE}
      BY <1>8 DEF RemoveOk, RemoveFails
  <2> HIDE DEF m
  <2> QED
      BY <1>0, <2>1, <2>2, <2>3, RpcEffect DEF StoreTypes
<1>9. ASSUME NEW w \in Workers, Unindex(w) PROVE StoreTypes'
    BY <1>0, <1>9, <1>z DEF Unindex, StoreTypes
<1>10. CASE Drain \/ TryConnect \/ RegisterSkipped
    BY <1>0, <1>10, <1>z DEF Drain, TryConnect, RegisterSkipped, StoreTypes
<1>11. CASE RegisterOk \/ RegisterFails
  <2>1. RpcOk(meta, TRUE) \/ RpcFails(meta, TRUE)
      BY <1>11 DEF RegisterOk, RegisterFails
  <2>2. UNCHANGED <<puts, index, started, overlooked>> /\ connected' \in {connected, FALSE}
      BY <1>11 DEF RegisterOk, RegisterFails
  <2>3. attempt' \in 0 .. MaxAttempts
    <3>1. attempt' = attempt \/ attempt' = attempt + 1
        BY <1>11 DEF RegisterOk, RegisterFails
    <3>2. attempt < MaxAttempts /\ attempt \in 0 .. MaxAttempts
        BY <1>0, <1>11 DEF RegisterOk, RegisterFails, Fresh, StoreTypes
    <3> QED
        BY <1>0, <3>1, <3>2
  <2> QED
      BY <1>0, <2>1, <2>2, <2>3, RpcEffect DEF StoreTypes
<1>12. CASE Snapshot
    BY <1>0, <1>12 DEF Snapshot, StoreTypes
<1>13. CASE Push
    BY <1>0, <1>13 DEF Push, StoreTypes
<1> QED
    BY <1>1, <1>2, <1>3, <1>4, <1>5, <1>6, <1>7, <1>8, <1>9, <1>10, <1>11, <1>12, <1>13,
       StepCases DEF OtherStep

(* What Snapshot takes, and what Push sends of it. *)
LEMMA SnapshotTaken ==
    ASSUME TypeOK, Snapshot
    PROVE  /\ snap' \subseteq Records /\ IsFiniteSet(snap')
           /\ \A r \in snap' : r.ver = index[r.key] /\ r.ver # NoVersion
           /\ \A k \in Keys : index[k] # NoVersion =>
                 \E r \in snap' : r.key = k
<1> DEFINE D == {k \in Keys : index[k] # NoVersion}
           rec == [k \in D |-> [key |-> k, ver |-> index[k]]]
<1>1. snap' = {rec[k] : k \in D}
    BY DEF Snapshot
<1>2. \A k \in D : index[k] \in Versions
  <2>1. \A k \in Keys : index[k] \in 0 .. puts
      BY DEF TypeOK
  <2>2. puts \in 0 .. MaxPuts
      BY DEF TypeOK
  <2> QED
      BY <2>1, <2>2, MetaSyncAssumption DEF Versions, NoVersion
<1>3. snap' \subseteq Records
  <2>1. \A k \in D : rec[k] \in Records
      BY <1>2 DEF Records
  <2> QED
      BY <1>1, <2>1
<1>4. IsFiniteSet(D)
    BY MetaSyncAssumption, FS_Subset
<1>5. rec \in Surjection(D, snap')
    BY <1>1 DEF Surjection
<1>6. IsFiniteSet(snap')
  <2> HIDE DEF D, rec
  <2> QED
      BY <1>4, <1>5, FS_Surjection
<1>7. \A k \in D : rec[k].key = k /\ rec[k].ver = index[k] /\ index[k] # NoVersion
    OBVIOUS
<1>8. \A r \in snap' : r.ver = index[r.key] /\ r.ver # NoVersion
  <2> SUFFICES ASSUME NEW k \in D PROVE rec[k].ver = index[rec[k].key] /\ rec[k].ver # NoVersion
      BY ZenonT(60), <1>1
  <2> QED
      BY <1>7
<1>9. \A k \in Keys : index[k] # NoVersion => \E r \in snap' : r.key = k
    BY <1>1, <1>7
<1> QED
    BY <1>3, <1>6, <1>8, <1>9

LEMMA PushTaken ==
    ASSUME TypeOK, Fresh, Push
    PROVE  /\ recs' = [recs EXCEPT ![Reconnector] = recs'[Reconnector]]
           /\ recs'[Reconnector] \in Seq(Records)
           /\ snap' \subseteq snap /\ IsFiniteSet(snap')
           /\ \A r : In(recs'[Reconnector], r) => r \in snap
           /\ \A r \in snap : r \in snap' \/ In(recs'[Reconnector], r)
<1>1. PICK B \in SUBSET snap : \E order \in [1 .. Cardinality(B) -> B] :
         /\ \A r \in B : \E i \in DOMAIN order : order[i] = r
         /\ recs' = [recs EXCEPT ![Reconnector] = order]
         /\ snap' = snap \ B
    BY DEF Push
<1>2. PICK order \in [1 .. Cardinality(B) -> B] :
         /\ \A r \in B : \E i \in DOMAIN order : order[i] = r
         /\ recs' = [recs EXCEPT ![Reconnector] = order]
         /\ snap' = snap \ B
    BY <1>1
<1>3. snap \subseteq Records /\ recs \in [Threads -> Seq(Records)] /\ IsFiniteSet(snap)
    BY DEF TypeOK, Fresh
<1>4. Cardinality(B) \in Nat
    BY <1>3, FS_Subset, FS_CardinalityType
<1>5. order \in Seq(Records)
  <2>1. order \in [1 .. Cardinality(B) -> Records]
      BY <1>2, <1>3
  <2> QED
      BY <1>4, <2>1, SeqDef
<1>6. recs'[Reconnector] = order
    BY <1>2, <1>3, Kinds
<1>7. IsFiniteSet(snap')
    BY <1>2, <1>3, FS_Subset
<1> QED
    BY <1>2, <1>5, <1>6, <1>7 DEF In

LEMMA RecordTypesStep ==
    ASSUME TypeOK, Fresh, [Next]_vars
    PROVE  RecordTypes'
<1>0. RecordTypes
    BY TypeParts
<1>e. <<>> \in Seq(Records)
    OBVIOUS
<1> USE Kinds DEF store, server, link, resync
<1>1. CASE UNCHANGED vars
    BY <1>0, <1>1 DEF vars, RecordTypes
<1>2. ASSUME NEW t \in Threads, CommitStep(t) PROVE RecordTypes'
  <2>1. /\ UNCHANGED <<queue, excused>> /\ (snap' = snap \/ snap' = {})
        /\ recs' = recs \/ recs' = [recs EXCEPT ![t] = <<>>]
      BY <1>2 DEF CommitStep, SyncCommit, CommitOk, CommitFails, RetryOk, RetryFails, Return
  <2> QED
      BY <1>0, <1>e, <2>1 DEF RecordTypes
<1>3. ASSUME NEW w \in Workers, NEW k \in Keys, NEW v \in Versions \cup {NoVersion},
             recs' = [recs EXCEPT ![w] = <<[key |-> k, ver |-> v]>>],
             excused' \subseteq Keys, UNCHANGED <<queue, snap>>
      PROVE  RecordTypes'
  <2>1. [key |-> k, ver |-> v] \in Records
      BY DEF Records
  <2>2. <<[key |-> k, ver |-> v]>> \in Seq(Records)
      BY <2>1
  <2> QED
      BY <1>0, <1>3, <2>2 DEF RecordTypes
<1>4. ASSUME NEW w \in Workers, Publish(w) PROVE RecordTypes'
  <2>0. PICK k \in Keys : Enters(w, k)
      BY <1>4, PublishEffect
  <2>1. puts + 1 \in Versions
      BY <2>0, MetaSyncAssumption DEF Enters, Versions, TypeOK
  <2>2. /\ recs' = [recs EXCEPT ![w] = <<[key |-> k, ver |-> puts + 1]>>]
        /\ excused' \subseteq Keys /\ UNCHANGED <<queue, snap>>
      BY <1>0, <2>0 DEF Enters, RecordTypes
  <2> QED
      BY <1>3, <2>1, <2>2
<1>5. ASSUME NEW w \in Workers, NEW k \in Keys, Begins(w, k) PROVE RecordTypes'
  <2>1. index[k] \in Versions \cup {NoVersion}
    <3>1. puts \in 0 .. MaxPuts /\ index[k] \in 0 .. puts
        BY DEF TypeOK
    <3> QED
        BY <3>1, MetaSyncAssumption DEF Versions, NoVersion
  <2>2. /\ recs' = [recs EXCEPT ![w] = <<[key |-> k, ver |-> index[k]]>>]
        /\ UNCHANGED <<queue, excused, snap>>
      BY <1>5, BeginEffect
  <2>3. excused' \subseteq Keys
      BY <1>0, <2>2 DEF RecordTypes
  <2> QED
      BY <1>3, <2>1, <2>2, <2>3
<1>6. CASE OutageBegins \/ OutageEnds \/ MetaRestarts
    BY <1>0, <1>6 DEF OutageBegins, OutageEnds, MetaRestarts, RecordTypes
<1>7. ASSUME NEW w \in Workers, AsyncCommit(w) PROVE RecordTypes'
  <2>1. queue \o recs[w] \in Seq(Records)
      BY <1>0, ConcatProperties DEF RecordTypes
  <2> QED
      BY <1>0, <1>e, <1>7, <2>1 DEF AsyncCommit, RecordTypes
<1>8. ASSUME NEW w \in Workers, pc[w] \in Holding PROVE recs[w][1].key \in Keys
  <2>1. recs[w] \in Seq(Records) /\ Len(recs[w]) = 1
      BY <1>0, <1>8 DEF RecordTypes, Fresh
  <2>2. recs[w][1] \in Records
      BY <2>1
  <2> QED
      BY <2>2 DEF Records
<1>9. ASSUME NEW w \in Workers,
             PutFails(w) \/ SyncRemove(w) \/ RemoveOk(w) \/ RemoveFails(w) \/ Unindex(w)
      PROVE  RecordTypes'
  <2>1. pc[w] \in Holding
      BY <1>9 DEF PutFails, SyncRemove, RemoveOk, RemoveFails, Unindex, Holding
  <2>2. excused' \subseteq excused \cup {recs[w][1].key}
      BY <1>9 DEF PutFails, SyncRemove, RemoveOk, RemoveFails, Unindex
  <2>3. UNCHANGED <<queue, snap>> /\ (recs' = recs \/ recs' = [recs EXCEPT ![w] = <<>>])
      BY <1>9 DEF PutFails, SyncRemove, RemoveOk, RemoveFails, Unindex
  <2> QED
      BY <1>0, <1>e, <1>8, <2>1, <2>2, <2>3 DEF RecordTypes
<1>10. CASE Drain
    BY <1>0, <1>e, <1>10 DEF Drain, RecordTypes
<1>11. CASE TryConnect \/ RegisterSkipped \/ RegisterOk \/ RegisterFails
    BY <1>0, <1>11 DEF TryConnect, RegisterSkipped, RegisterOk, RegisterFails, RecordTypes
<1>12. CASE Snapshot
    BY <1>0, <1>12, SnapshotTaken DEF Snapshot, RecordTypes
<1>13. CASE Push
  <2>1. UNCHANGED <<queue, excused>>
      BY <1>13 DEF Push
  <2> QED
      BY <1>0, <1>13, <2>1, PushTaken DEF RecordTypes
<1> QED
    BY <1>1, <1>2, <1>4, <1>5, <1>6, <1>7, <1>9, <1>10, <1>11, <1>12, <1>13, StepCases
       DEF OtherStep

LEMMA TypeStep == ASSUME TypeOK, Fresh, [Next]_vars PROVE TypeOK'
<1>1. StoreTypes' /\ RecordTypes' /\ pc' \in [Threads -> Labels]
    BY StoreTypesStep, RecordTypesStep, PcTypes
<1>2. Records' = Records
    BY DEF Records, Versions, NoVersion
<1> QED
    BY <1>1, <1>2 DEF TypeOK, StoreTypes, FlagTypes, RecordTypes

----------------------------------------------------------------------------
(* Records on their way *)

(* Only thread t moves: what is on its way after the step was so before,   *)
(* if that holds of the queue, the snapshot and t.                         *)
LEMMA UnderFrame ==
    ASSUME NEW t \in Threads, NEW r,
           \A u \in Threads \ {t} : pc'[u] = pc[u] /\ recs'[u] = recs[u],
           In(queue', r) => Under(r),
           r \in snap' => Under(r),
           pc'[t] \in Pushing /\ In(recs'[t], r) => Under(r),
           Under(r)'
    PROVE  Under(r)
    BY DEF Under

LEMMA UnderStep ==
    ASSUME TypeOK, Fresh, [Next]_vars, NEW r \in Records, Under(r)'
    PROVE  \/ Under(r)
           \/ \E w \in Workers, k \in Keys : Enters(w, k) /\ r = [key |-> k, ver |-> puts + 1]
           \/ Snapshot /\ r \in snap'
<1> DEFINE Goal == \/ Under(r)
                   \/ \E w \in Workers, k \in Keys : Enters(w, k) /\ r = [key |-> k, ver |-> puts + 1]
                   \/ Snapshot /\ r \in snap'
<1>0. pc \in [Threads -> Labels] /\ recs \in [Threads -> Seq(Records)] /\ queue \in Seq(Records)
    BY DEF TypeOK
<1> USE <1>0, Kinds, InEmpty DEF Goto, store, server, link, resync, Pushing
<1>q. (In(queue, r) => Under(r)) /\ (r \in snap => Under(r))
    BY DEF Under
<1>t. \A t \in Threads : pc[t] \in Pushing /\ In(recs[t], r) => Under(r)
    BY DEF Under
<1>1. CASE UNCHANGED vars
    BY <1>1 DEF vars, Under
<1>2. ASSUME NEW t \in Threads, CommitStep(t) PROVE Under(r)
  <2>1. /\ queue' = queue /\ (snap' = snap \/ snap' = {}) /\ pc[t] \in Pushing
        /\ recs' = recs \/ recs' = [recs EXCEPT ![t] = <<>>]
        /\ \E l \in Labels : pc' = [pc EXCEPT ![t] = l]
      BY <1>2 DEF CommitStep, SyncCommit, CommitOk, CommitFails, RetryOk, RetryFails, Return,
         Labels
  <2>2. \A u \in Threads \ {t} : pc'[u] = pc[u] /\ recs'[u] = recs[u]
      BY <2>1
  <2>3. In(recs'[t], r) => Under(r)
      BY <1>t, <2>1
  <2> QED
      BY <1>q, <2>1, <2>2, <2>3, UnderFrame
<1>3. ASSUME NEW w \in Workers, Publish(w) PROVE Goal
  <2>0. PICK k \in Keys : Enters(w, k)
      BY <1>3, PublishEffect
  <2>1. /\ UNCHANGED <<queue, snap>> /\ recs' = [recs EXCEPT ![w] = <<[key |-> k, ver |-> puts + 1]>>]
        /\ \A u \in Threads \ {w} : pc'[u] = pc[u]
      BY <2>0 DEF Enters
  <2>2. CASE r = [key |-> k, ver |-> puts + 1]
      BY <2>0, <2>2
  <2>3. CASE r # [key |-> k, ver |-> puts + 1]
    <3>1. ~In(recs'[w], r)
        BY <2>1, <2>3, InOne
    <3>2. \A u \in Threads \ {w} : recs'[u] = recs[u]
        BY <2>1
    <3> QED
        BY <1>q, <2>1, <3>1, <3>2, UnderFrame
  <2> QED
      BY <2>2, <2>3
<1>4. ASSUME NEW w \in Workers, NEW k \in Keys, Begins(w, k) PROVE Under(r)
  <2>1. /\ UNCHANGED <<queue, snap>> /\ pc'[w] \in {"put", "batchput", "remove"}
        /\ \A u \in Threads \ {w} : pc'[u] = pc[u] /\ recs'[u] = recs[u]
      BY <1>4, BeginEffect
  <2> QED
      BY <1>q, <2>1, UnderFrame
<1>5. CASE OutageBegins \/ OutageEnds \/ MetaRestarts
    BY <1>5 DEF OutageBegins, OutageEnds, MetaRestarts, Under
<1>6. ASSUME NEW w \in Workers, AsyncCommit(w) PROVE Under(r)
  <2>1. /\ queue' = queue \o recs[w] /\ snap' = snap /\ pc'[w] = "idle" /\ pc[w] = "enqueue"
        /\ \A u \in Threads \ {w} : pc'[u] = pc[u] /\ recs'[u] = recs[u]
      BY <1>6 DEF AsyncCommit
  <2>2. In(queue', r) => Under(r)
      BY <1>q, <1>t, <2>1, InConcat
  <2> QED
      BY <1>q, <2>1, <2>2, UnderFrame
<1>7. ASSUME NEW w \in Workers,
             PutFails(w) \/ SyncRemove(w) \/ RemoveOk(w) \/ RemoveFails(w) \/ Unindex(w)
      PROVE  Under(r)
  <2>1. /\ UNCHANGED <<queue, snap>> /\ pc'[w] \notin Pushing
        /\ \A u \in Threads \ {w} : pc'[u] = pc[u] /\ recs'[u] = recs[u]
      BY <1>7 DEF PutFails, SyncRemove, RemoveOk, RemoveFails, Unindex
  <2> QED
      BY <1>q, <2>1, UnderFrame
<1>8. CASE Drain
  <2>1. /\ recs'[Committer] = queue /\ queue' = <<>> /\ snap' = snap
        /\ \A u \in Threads \ {Committer} : pc'[u] = pc[u] /\ recs'[u] = recs[u]
      BY <1>8 DEF Drain
  <2> QED
      BY <1>q, <2>1, UnderFrame
<1>9. CASE TryConnect \/ RegisterSkipped \/ RegisterOk \/ RegisterFails
  <2>1. /\ UNCHANGED <<queue, snap, recs>> /\ pc'[Reconnector] \notin Pushing
        /\ \A u \in Threads \ {Reconnector} : pc'[u] = pc[u]
      BY <1>9 DEF TryConnect, RegisterSkipped, RegisterOk, RegisterFails
  <2> QED
      BY <1>q, <2>1, UnderFrame
<1>10. CASE Snapshot
  <2>1. /\ UNCHANGED <<queue, recs>> /\ pc'[Reconnector] \notin Pushing
        /\ \A u \in Threads \ {Reconnector} : pc'[u] = pc[u]
      BY <1>10 DEF Snapshot
  <2> QED
      BY <1>q, <1>10, <2>1, UnderFrame
<1>11. CASE Push
  <2>1. queue' = queue /\ \A u \in Threads \ {Reconnector} : pc'[u] = pc[u]
      BY <1>11 DEF Push
  <2>2. \A u \in Threads \ {Reconnector} : recs'[u] = recs[u]
    <3>1. recs' = [recs EXCEPT ![Reconnector] = recs'[Reconnector]]
        BY <1>11, PushTaken
    <3> QED
        BY <3>1
  <2>3. (r \in snap' => Under(r)) /\ (In(recs'[Reconnector], r) => Under(r))
      BY <1>q, <1>11, PushTaken
  <2> QED
      BY <1>q, <2>1, <2>2, <2>3, UnderFrame
<1> QED
    BY <1>1, <1>2, <1>3, <1>4, <1>5, <1>6, <1>7, <1>8, <1>9, <1>10, <1>11, StepCases
       DEF OtherStep

LEMMA FreshStep ==
    ASSUME TypeOK, Fresh, [Next]_vars
    PROVE  Fresh'
<1>0. /\ pc \in [Threads -> Labels] /\ recs \in [Threads -> Seq(Records)]
      /\ puts \in Nat /\ \A k \in Keys : index[k] \in 0 .. puts
    BY DEF TypeOK
<1> USE Kinds DEF store, server, link, resync
<1>p. puts' = puts \/ puts' = puts + 1
  <2>1. ASSUME NEW w \in Workers, NEW k \in Keys, Begins(w, k) PROVE puts' = puts
      BY <2>1, BeginEffect
  <2>2. ASSUME NEW t \in Threads, CommitStep(t) PROVE puts' = puts
      BY <2>2 DEF CommitStep, SyncCommit, CommitOk, CommitFails, RetryOk, RetryFails
  <2> QED
      BY <2>1, <2>2, StepCases DEF OtherStep, OutageBegins, OutageEnds, MetaRestarts, Publish,
         PutFails, AsyncCommit, SyncRemove, RemoveOk, RemoveFails, Unindex, Drain, TryConnect, RegisterSkipped,
         RegisterOk, RegisterFails, Snapshot, Push, vars
<1>1. ASSUME NEW r \in Records, Under(r)' PROVE r.ver \in 1 .. puts'
  <2>1. CASE Under(r)
      BY <1>0, <1>p, <2>1 DEF Fresh
  <2>2. CASE Snapshot /\ r \in snap'
    <3>1. r.ver = index[r.key] /\ r.ver # NoVersion /\ r.key \in Keys
        BY <2>2, SnapshotTaken DEF Records
    <3> QED
        BY <1>0, <1>p, <3>1 DEF NoVersion
  <2>3. ASSUME NEW w \in Workers, NEW k \in Keys, Enters(w, k), r = [key |-> k, ver |-> puts + 1]
        PROVE  r.ver \in 1 .. puts'
    <3>1. puts' = puts + 1 /\ r.ver = puts + 1
        BY <2>3 DEF Enters
    <3> QED
        BY <1>0, <3>1
  <2> QED
      BY <1>1, <2>1, <2>2, <2>3, UnderStep
<1>2. ASSUME NEW w \in Workers, pc'[w] \in Holding
      PROVE  Len(recs'[w]) = 1 /\ recs'[w][1].ver \in 0 .. puts'
  <2>1. CASE pc[w] \in Holding /\ recs'[w] = recs[w]
      BY <1>0, <1>p, <2>1 DEF Fresh
  <2>2. CASE \E k \in Keys : Begins(w, k)
    <3>1. PICK k \in Keys : Begins(w, k)
        BY <2>2
    <3>2. recs'[w] = <<[key |-> k, ver |-> index[k]]>>
        BY <1>0, <3>1, BeginEffect
    <3> QED
        BY <1>0, <1>p, <3>2
  <2>3. ASSUME NEW t \in Threads, t # w,
               \A u \in Threads \ {t} : pc'[u] = pc[u] /\ recs'[u] = recs[u]
        PROVE  pc[w] \in Holding /\ recs'[w] = recs[w]
      BY <1>2, <2>3
  <2> USE <1>0 DEF Goto, Holding
  <2>4. ASSUME NEW t \in Threads, CommitStep(t) PROVE pc[w] \in Holding /\ recs'[w] = recs[w]
    <3>1. pc'[t] \notin Holding
        BY <2>4 DEF CommitStep, SyncCommit, CommitOk, CommitFails, RetryOk, RetryFails, Return
    <3>2. \A u \in Threads \ {t} : pc'[u] = pc[u] /\ recs'[u] = recs[u]
        BY <2>4 DEF CommitStep, SyncCommit, CommitOk, CommitFails, RetryOk, RetryFails, Return
    <3> QED
        BY <1>2, <2>3, <3>1, <3>2
  <2>5. ASSUME NEW v \in Workers, Publish(v) PROVE pc[w] \in Holding /\ recs'[w] = recs[w]
    <3>1. pc'[v] \notin Holding /\ \A u \in Threads \ {v} : pc'[u] = pc[u] /\ recs'[u] = recs[u]
        BY <2>5 DEF Publish
    <3> QED
        BY <1>2, <2>3, <3>1
  <2>6. ASSUME NEW v \in Workers, NEW k \in Keys, Begins(v, k), v # w
        PROVE  pc[w] \in Holding /\ recs'[w] = recs[w]
      BY <1>2, <2>6, BeginEffect
  <2>7. ASSUME NEW v \in Workers, \/ PutFails(v) \/ AsyncCommit(v) \/ SyncRemove(v)
                                  \/ RemoveOk(v) \/ RemoveFails(v) \/ Unindex(v)
        PROVE  pc[w] \in Holding /\ recs'[w] = recs[w]
      BY <1>2, <2>7 DEF PutFails, AsyncCommit, SyncRemove, RemoveOk, RemoveFails, Unindex
  <2>8. CASE OutageBegins \/ OutageEnds \/ MetaRestarts \/ UNCHANGED vars
      BY <1>2, <2>1, <2>8 DEF OutageBegins, OutageEnds, MetaRestarts, vars
  <2>9. ASSUME Drain \/ TryConnect \/ RegisterSkipped \/ RegisterOk \/ RegisterFails \/ Snapshot
        PROVE pc[w] \in Holding /\ recs'[w] = recs[w]
      BY <1>2, <2>9 DEF Drain, TryConnect, RegisterSkipped, RegisterOk, RegisterFails, Snapshot
  <2>10. ASSUME Push PROVE pc[w] \in Holding /\ recs'[w] = recs[w]
    <3>1. recs' = [recs EXCEPT ![Reconnector] = recs'[Reconnector]]
        BY <2>10, PushTaken
    <3>2. pc' = [pc EXCEPT ![Reconnector] = "commit"]
        BY <2>10 DEF Push
    <3> QED
        BY <1>2, <3>1, <3>2
  <2> QED
      BY <2>1, <2>2, <2>4, <2>5, <2>6, <2>7, <2>8, <2>9, <2>10, StepCases DEF OtherStep
<1>3. IsFiniteSet(snap')
  <2>1. CASE Snapshot
      BY <2>1, SnapshotTaken
  <2>2. CASE Push
      BY <2>2, PushTaken
  <2>3. CASE snap' = snap \/ snap' = {}
      BY <2>3, FS_EmptySet DEF Fresh
  <2>4. ASSUME NEW t \in Threads, CommitStep(t) PROVE snap' = snap \/ snap' = {}
      BY <2>4 DEF CommitStep, SyncCommit, CommitOk, CommitFails, RetryOk, RetryFails, Return
  <2>5. ASSUME NEW w \in Workers, NEW k \in Keys, Begins(w, k) PROVE snap' = snap
      BY <2>5, BeginEffect
  <2> QED
      BY <2>1, <2>2, <2>3, <2>4, <2>5, StepCases DEF OtherStep, OutageBegins, OutageEnds,
         MetaRestarts, Publish, PutFails, AsyncCommit, SyncRemove, RemoveOk, RemoveFails, Unindex,
         Drain, TryConnect, RegisterSkipped, RegisterOk, RegisterFails, vars
<1>4. pc'[Reconnector] = "register" => attempt' < MaxAttempts
  <2> SUFFICES ASSUME pc'[Reconnector] = "register" PROVE attempt' < MaxAttempts
      OBVIOUS
  <2>0. MaxAttempts \in Nat /\ MaxAttempts > 0 /\ attempt \in 0 .. MaxAttempts
      BY MetaSyncAssumption DEF TypeOK
  <2> USE <1>0 DEF Goto
  <2>1. CASE TryConnect
      BY <2>0, <2>1 DEF TryConnect
  <2>2. CASE RegisterFails
    <3>1. attempt' = attempt + 1 /\ attempt' # MaxAttempts /\ attempt < MaxAttempts
        BY <2>2 DEF RegisterFails, Fresh
    <3> QED
        BY <2>0, <3>1
  <2>3. CASE pc[Reconnector] = "register" /\ attempt' = attempt
      BY <2>3 DEF Fresh
  <2>4. ASSUME NEW t \in Threads, CommitStep(t)
        PROVE  pc[Reconnector] = "register" /\ attempt' = attempt
      BY <2>4 DEF CommitStep, SyncCommit, CommitOk, CommitFails, RetryOk, RetryFails, Return
  <2>5. ASSUME NEW w \in Workers, NEW k \in Keys, Begins(w, k)
        PROVE  pc[Reconnector] = "register" /\ attempt' = attempt
      BY <2>5, BeginEffect
  <2>6. ASSUME NEW w \in Workers, \/ Publish(w) \/ PutFails(w) \/ AsyncCommit(w) \/ SyncRemove(w)
                                  \/ RemoveOk(w) \/ RemoveFails(w) \/ Unindex(w)
        PROVE  pc[Reconnector] = "register" /\ attempt' = attempt
      BY <2>6 DEF Publish, PutFails, AsyncCommit, SyncRemove, RemoveOk, RemoveFails, Unindex
  <2>7. ASSUME OutageBegins \/ OutageEnds \/ MetaRestarts \/ Drain \/ UNCHANGED vars
        PROVE  pc[Reconnector] = "register" /\ attempt' = attempt
      BY <2>7 DEF OutageBegins, OutageEnds, MetaRestarts, Drain, vars
  <2>8. ~RegisterSkipped /\ ~RegisterOk /\ ~Snapshot /\ ~Push
      BY DEF RegisterSkipped, RegisterOk, Snapshot, Push
  <2> QED
      BY <2>1, <2>2, <2>3, <2>4, <2>5, <2>6, <2>7, <2>8, StepCases DEF OtherStep
<1>5. Records' = Records
    BY DEF Records, Versions, NoVersion
<1> QED
    BY <1>1, <1>2, <1>3, <1>4, <1>5 DEF Fresh

----------------------------------------------------------------------------
(* Nothing is forgotten *)

Covered(k) ==
    \/ \E r \in Records : Sure(r) /\ r.key = k
    \/ Resyncing
    \/ RemovalComing(k)

(* Thread t moves and gives up neither a removal nor a resync: k stays     *)
(* covered if the records of k that t holds, or may take, stay sure.       *)
LEMMA CoveredFrame ==
    ASSUME NEW t \in Threads, NEW k \in Keys,
           \A u \in Threads \ {t} : pc'[u] = pc[u] /\ recs'[u] = recs[u],
           pc[t] # "unindex",
           t = Reconnector => ~Resyncing,
           \A r \in Records :
              /\ r.key = k
              /\ \/ In(queue, r) \/ r \in snap
                 \/ pc[t] \in Pushing \ {"retry"} /\ In(recs[t], r)
              => Sure(r)',
           Covered(k)
    PROVE  Covered(k)'
<1>0. Records' = Records /\ Workers \subseteq Threads /\ Reconnector \in Threads
    BY Kinds DEF Records, Versions, NoVersion
<1>1. ASSUME NEW r \in Records, Sure(r), r.key = k PROVE Covered(k)'
  <2>1. Sure(r)'
    <3>1. CASE In(queue, r) \/ r \in snap
        BY <1>1, <3>1
    <3>2. ASSUME NEW u \in Threads, pc[u] \in Pushing \ {"retry"}, In(recs[u], r) PROVE Sure(r)'
      <4>1. CASE u = t
          BY <1>1, <3>2, <4>1
      <4>2. CASE u # t
          BY <3>2, <4>2 DEF Sure
      <4> QED
          BY <4>1, <4>2
    <3> QED
        BY <1>1, <3>1, <3>2 DEF Sure
  <2> QED
      BY <1>0, <1>1, <2>1 DEF Covered
<1>2. CASE Resyncing
    BY <1>0, <1>2 DEF Resyncing, Covered
<1>3. CASE RemovalComing(k)
    BY <1>0, <1>3 DEF RemovalComing, Covered
<1> QED
    BY <1>1, <1>2, <1>3 DEF Covered

(* A commit leaves Meta with a record of each key it names, and takes none *)
(* away.                                                                   *)
LEMMA CommitEffect ==
    ASSUME TypeOK, Fresh, NEW t \in Threads, pc[t] \in Pushing, NEW k \in Keys,
           Upsert(recs[t])[k] = NoVersion
    PROVE  meta[k] = NoVersion /\ \A r : In(recs[t], r) => r.key # k
<1>1. recs[t] \in Seq(Records)
    BY DEF TypeOK
<1>2. ASSUME NEW r \in Records, In(recs[t], r) PROVE r.ver # NoVersion
  <2>1. Under(r)
      BY <1>2 DEF Under
  <2>2. r.ver \in 1 .. puts /\ puts \in Nat
      BY <2>1 DEF Fresh, TypeOK
  <2> QED
      BY <2>2 DEF NoVersion
<1> QED
    BY <1>1, <1>2, UpsertValue

LEMMA ScheduledStep ==
    ASSUME TypeOK, Fresh, Scheduled, RetryNoticed, [Next]_vars
    PROVE  Scheduled'
<1> SUFFICES ASSUME ~overlooked', connected', NEW k \in Keys, index'[k] # NoVersion,
                    meta'[k] = NoVersion
             PROVE  Covered(k)'
    BY DEF Scheduled, Covered
<1>0. /\ pc \in [Threads -> Labels] /\ recs \in [Threads -> Seq(Records)] /\ queue \in Seq(Records)
      /\ index \in [Keys -> 0 .. puts] /\ meta \in [Keys -> 0 .. puts] /\ snap \subseteq Records
      /\ DOMAIN meta = Keys /\ Records' = Records
    BY DEF TypeOK, Records, Versions, NoVersion
<1>c. ~overlooked /\ connected /\ index[k] # NoVersion /\ meta[k] = NoVersion => Covered(k)
    BY DEF Scheduled, Covered
<1>k. \A w \in Workers : pc[w] \in Holding => recs[w][1].key \in Keys /\ DOMAIN recs[w] = {1}
  <2> SUFFICES ASSUME NEW w \in Workers, pc[w] \in Holding
               PROVE  recs[w][1].key \in Keys /\ DOMAIN recs[w] = {1}
      OBVIOUS
  <2>1. recs[w] \in Seq(Records) /\ Len(recs[w]) = 1
      BY <1>0, Kinds DEF Fresh
  <2>2. DOMAIN recs[w] = {1} /\ recs[w][1] \in Records
      BY <2>1
  <2> QED
      BY <2>2 DEF Records
<1>s. \A r : In(queue', r) \/ r \in snap' => Sure(r)'
    BY DEF Sure
<1>u. \A r : \A t \in Threads : pc'[t] \in Pushing \ {"retry"} /\ In(recs'[t], r) => Sure(r)'
    BY DEF Sure
<1> USE Kinds DEF Goto, store, server, link, resync, Pushing, Holding, Resyncing
<1>1. CASE UNCHANGED vars
  <2>1. Covered(k)
      BY <1>1, <1>c DEF vars
  <2> QED
      BY <1>0, <1>1, <2>1 DEF vars, Covered, Sure, RemovalComing
<1>2. ASSUME NEW t \in Threads, CommitStep(t) PROVE Covered(k)'
  <2>1. CASE SyncCommit(t)
    <3>1. /\ connected /\ pc' = [pc EXCEPT ![t] = "send"] /\ pc[t] = "commit"
          /\ UNCHANGED <<index, meta, overlooked, queue, snap, recs>>
        BY <2>1 DEF SyncCommit
    <3>2. Covered(k)
        BY <1>c, <3>1
    <3>3. pc'[t] = "send" /\ \A u \in Threads \ {t} : pc'[u] = pc[u] /\ recs'[u] = recs[u]
        BY <1>0, <3>1
    <3>4. \A r \in Records : In(queue, r) \/ r \in snap \/ In(recs[t], r) => Sure(r)'
        BY <1>s, <1>u, <3>1, <3>3
    <3> QED
        BY <3>1, <3>2, <3>3, <3>4, CoveredFrame
  <2>2. CASE CommitFails(t) \/ RetryOk(t)
      BY <2>2 DEF CommitFails, RetryOk
  <2>3. CASE CommitOk(t) \/ RetryFails(t)
    <3>1. /\ pc[t] \in {"send", "retry"} /\ UNCHANGED <<connected, overlooked, index, queue>>
          /\ meta' = meta \/ meta' = Upsert(recs[t])
          /\ pc[t] = "send" => meta' = Upsert(recs[t])
        BY <2>3 DEF CommitOk, RetryFails, RpcOk, RpcFails, RpcLost, RpcReplyLost
    <3>2. meta[k] = NoVersion
        BY <3>1, CommitEffect
    <3>3. pc[t] = "send" => \A r : In(recs[t], r) => r.key # k
        BY <3>1, CommitEffect
    <3>4. snap' = snap
        BY <2>3, <3>1 DEF CommitOk, RetryFails, Return, RetryNoticed
    <3>5. \A u \in Threads \ {t} : pc'[u] = pc[u] /\ recs'[u] = recs[u]
        BY <1>0, <2>3 DEF CommitOk, RetryFails, Return
    <3>6. Covered(k)
        BY <1>c, <3>1, <3>2
    <3>7. \A r \in Records : In(queue, r) \/ r \in snap => Sure(r)'
        BY <1>s, <3>1, <3>4
    <3> QED
        BY <3>1, <3>3, <3>5, <3>6, <3>7, CoveredFrame
  <2> QED
      BY <1>2, <2>1, <2>2, <2>3 DEF CommitStep
<1>3. ASSUME NEW w \in Workers, Publish(w) PROVE Covered(k)'
  <2>0. PICK kk \in Keys : Enters(w, kk)
      BY <1>3, PublishEffect
  <2>1. /\ UNCHANGED <<connected, overlooked, meta, queue, snap>> /\ pc[w] \in {"put", "batchput"}
        /\ index' = [index EXCEPT ![kk] = puts + 1]
        /\ recs' = [recs EXCEPT ![w] = <<[key |-> kk, ver |-> puts + 1]>>]
        /\ pc' = [pc EXCEPT ![w] = "commit"] \/ pc' = [pc EXCEPT ![w] = "enqueue"]
      BY <2>0 DEF Enters
  <2>2. CASE kk = k
    <3>1. puts + 1 \in Versions
      <4>1. puts < MaxPuts /\ puts \in 0 .. MaxPuts
          BY <2>0 DEF Enters, TypeOK
      <4> QED
          BY <4>1, MetaSyncAssumption DEF Versions
    <3>2. PICK rec : rec = [key |-> k, ver |-> puts + 1]
        OBVIOUS
    <3>3. rec \in Records /\ rec.key = k
        BY <3>1, <3>2 DEF Records
    <3>4. pc'[w] \in Pushing \ {"retry"} /\ recs'[w] = <<rec>>
        BY <1>0, <2>1, <2>2, <3>2
    <3>5. Sure(rec)'
        BY <1>u, <3>4, InOne
    <3> QED
        BY <1>0, <3>3, <3>5 DEF Covered
  <2>3. CASE kk # k
    <3>1. Covered(k)
        BY <1>0, <1>c, <2>1, <2>3
    <3>2. \A u \in Threads \ {w} : pc'[u] = pc[u] /\ recs'[u] = recs[u]
        BY <1>0, <2>1
    <3> QED
        BY <1>s, <2>1, <3>1, <3>2, CoveredFrame
  <2> QED
      BY <2>2, <2>3
<1>4. ASSUME NEW w \in Workers, NEW kk \in Keys, Begins(w, kk) PROVE Covered(k)'
  <2>1. /\ UNCHANGED <<connected, overlooked, index, meta, queue, snap>> /\ pc[w] = "idle"
        /\ \A u \in Threads \ {w} : pc'[u] = pc[u] /\ recs'[u] = recs[u]
      BY <1>0, <1>4, BeginEffect
  <2>2. Covered(k)
      BY <1>c, <2>1
  <2> QED
      BY <1>s, <2>1, <2>2, CoveredFrame
<1>5. CASE OutageBegins \/ OutageEnds
  <2>1. UNCHANGED <<connected, overlooked, index, meta, queue, snap, pc, recs>>
      BY <1>5 DEF OutageBegins, OutageEnds
  <2>2. Covered(k)
      BY <1>c, <2>1
  <2> QED
      BY <1>0, <2>1, <2>2 DEF Covered, Sure, RemovalComing
<1>6. ~MetaRestarts /\ ~RegisterFails /\ \A w \in Workers : ~RemoveFails(w)
    BY DEF MetaRestarts, RegisterFails, RemoveFails
<1>7. ASSUME NEW w \in Workers, AsyncCommit(w) PROVE Covered(k)'
  <2>1. /\ UNCHANGED <<connected, overlooked, index, meta, snap>> /\ pc[w] = "enqueue"
        /\ queue' = queue \o recs[w]
        /\ \A u \in Threads \ {w} : pc'[u] = pc[u] /\ recs'[u] = recs[u]
      BY <1>0, <1>7 DEF AsyncCommit
  <2>2. Covered(k)
      BY <1>c, <2>1
  <2>3. \A r : In(queue, r) \/ In(recs[w], r) => In(queue', r)
      BY <1>0, <2>1, InConcat
  <2> QED
      BY <1>s, <2>1, <2>2, <2>3, CoveredFrame
<1>8. ASSUME NEW w \in Workers, PutFails(w) \/ SyncRemove(w) PROVE Covered(k)'
  <2>1. /\ UNCHANGED <<connected, overlooked, index, meta, queue, snap>>
        /\ pc[w] \in {"put", "batchput", "remove"}
        /\ \A u \in Threads \ {w} : pc'[u] = pc[u] /\ recs'[u] = recs[u]
      BY <1>0, <1>8 DEF PutFails, SyncRemove
  <2>2. Covered(k)
      BY <1>c, <2>1
  <2> QED
      BY <1>s, <2>1, <2>2, CoveredFrame
<1>9. ASSUME NEW w \in Workers, RemoveOk(w) PROVE Covered(k)'
  <2>1. /\ UNCHANGED <<connected, overlooked, index, queue, snap, recs>> /\ pc[w] = "sendremove"
        /\ meta' = [meta EXCEPT ![recs[w][1].key] = NoVersion]
        /\ pc' = [pc EXCEPT ![w] = "unindex"]
      BY <1>9 DEF RemoveOk, RpcOk, Erase
  <2>2. CASE recs[w][1].key = k
    <3>1. Names(recs'[w], k) /\ pc'[w] = "unindex"
        BY <1>0, <1>k, <2>1, <2>2 DEF Names
    <3> QED
        BY <3>1 DEF Covered, RemovalComing
  <2>3. CASE recs[w][1].key # k
    <3>1. Covered(k)
        BY <1>0, <1>c, <2>1, <2>3
    <3>2. \A u \in Threads \ {w} : pc'[u] = pc[u] /\ recs'[u] = recs[u]
        BY <1>0, <2>1
    <3> QED
        BY <1>s, <2>1, <3>1, <3>2, CoveredFrame
  <2> QED
      BY <2>2, <2>3
<1>10. ASSUME NEW w \in Workers, Unindex(w) PROVE Covered(k)'
  <2>1. /\ UNCHANGED <<connected, overlooked, meta, queue, snap>> /\ pc[w] = "unindex"
        /\ index' = [index EXCEPT ![recs[w][1].key] = NoVersion]
        /\ \A u \in Threads \ {w} : pc'[u] = pc[u] /\ recs'[u] = recs[u]
      BY <1>0, <1>10 DEF Unindex
  <2>2. recs[w][1].key # k /\ index[k] # NoVersion
      BY <1>0, <1>k, <2>1
  <2>3. Covered(k)
      BY <1>c, <2>1, <2>2
  <2>4. ASSUME NEW r \in Records, Sure(r), r.key = k PROVE Covered(k)'
    <3>1. Sure(r)'
        BY <2>1, <2>4 DEF Sure
    <3> QED
        BY <1>0, <2>4, <3>1 DEF Covered
  <2>5. CASE Resyncing
      BY <2>1, <2>5 DEF Covered
  <2>6. CASE RemovalComing(k)
    <3>1. PICK v \in Workers : pc[v] = "unindex" /\ Names(recs[v], k)
        BY <2>6 DEF RemovalComing
    <3>2. v # w
        BY <1>k, <2>2, <3>1 DEF Names
    <3>3. pc'[v] = "unindex" /\ Names(recs'[v], k)
        BY <2>1, <3>1, <3>2
    <3> QED
        BY <3>3 DEF Covered, RemovalComing
  <2> QED
      BY <2>3, <2>4, <2>5, <2>6 DEF Covered
<1>11. CASE Drain
  <2>1. /\ UNCHANGED <<connected, overlooked, index, meta, snap>> /\ pc[Committer] = "idle"
        /\ recs'[Committer] = queue /\ pc'[Committer] = "commit"
        /\ \A u \in Threads \ {Committer} : pc'[u] = pc[u] /\ recs'[u] = recs[u]
      BY <1>0, <1>11 DEF Drain
  <2>2. Covered(k)
      BY <1>c, <2>1
  <2>3. \A r : In(queue, r) \/ r \in snap => Sure(r)'
      BY <1>s, <1>u, <2>1
  <2> QED
      BY <2>1, <2>2, <2>3, CoveredFrame
<1>12. CASE TryConnect \/ RegisterSkipped \/ RegisterOk
    BY <1>0, <1>12 DEF TryConnect, RegisterSkipped, RegisterOk, Covered
<1>13. CASE Snapshot
  <2>1. index' = index
      BY <1>13 DEF Snapshot
  <2>2. PICK r \in snap' : r.key = k
      BY <1>13, <2>1, SnapshotTaken
  <2>3. Sure(r)' /\ r \in Records
      BY <1>13, <1>s, <2>2, SnapshotTaken
  <2> QED
      BY <1>0, <2>2, <2>3 DEF Covered
<1>14. CASE Push
  <2>1. /\ UNCHANGED <<connected, overlooked, index, meta, queue>> /\ pc[Reconnector] = "push"
        /\ pc'[Reconnector] = "commit"
        /\ \A u \in Threads \ {Reconnector} : pc'[u] = pc[u]
      BY <1>0, <1>14 DEF Push
  <2>2. \A u \in Threads \ {Reconnector} : recs'[u] = recs[u]
    <3>1. recs' = [recs EXCEPT ![Reconnector] = recs'[Reconnector]]
        BY <1>14, PushTaken
    <3> QED
        BY <1>0, <3>1
  <2>3. Covered(k)
      BY <1>c, <2>1
  <2>4. \A r \in snap : r \in snap' \/ In(recs'[Reconnector], r)
      BY <1>14, PushTaken
  <2>5. \A r : In(queue, r) \/ r \in snap => Sure(r)'
      BY <1>s, <1>u, <2>1, <2>4
  <2> QED
      BY <2>1, <2>2, <2>3, <2>5, CoveredFrame
<1> QED
    BY <1>1, <1>2, <1>3, <1>4, <1>5, <1>6, <1>7, <1>8, <1>9, <1>10, <1>11, <1>12, <1>13, <1>14,
       StepCases DEF OtherStep

LEMMA LinkStep ==
    ASSUME TypeOK, RetryNoticed, RegistrationKept, [Next]_vars
    PROVE  RetryNoticed' /\ RegistrationKept'
<1>0. pc \in [Threads -> Labels] /\ FlagTypes
    BY DEF TypeOK, FlagTypes
<1> USE <1>0, Kinds DEF Goto, store, server, link, resync, RetryNoticed, RegistrationKept, FlagTypes
<1>1. CASE UNCHANGED vars
    BY <1>1 DEF vars
<1>2. ASSUME NEW t \in Threads, CommitStep(t) PROVE RetryNoticed' /\ RegistrationKept'
  <2>1. CASE SyncCommit(t)
      BY <2>1 DEF SyncCommit, Return
  <2>2. CASE CommitOk(t)
      BY <2>2 DEF CommitOk, Return, RpcOk
  <2>3. CASE CommitFails(t)
      BY <2>3 DEF CommitFails
  <2>4. CASE RetryOk(t)
      BY <2>4 DEF RetryOk
  <2>5. CASE RetryFails(t)
    <3>1. registered' = registered
        BY <2>5 DEF RetryFails, RpcFails, RpcLost, RpcReplyLost
    <3> QED
        BY <2>5, <3>1 DEF RetryFails, Return
  <2> QED
      BY <1>2, <2>1, <2>2, <2>3, <2>4, <2>5 DEF CommitStep
<1>3. ASSUME NEW w \in Workers, NEW k \in Keys, Begins(w, k)
      PROVE  RetryNoticed' /\ RegistrationKept'
    BY <1>3, BeginEffect
<1>4. CASE OutageBegins \/ OutageEnds \/ MetaRestarts
    BY <1>4 DEF OutageBegins, OutageEnds, MetaRestarts
<1>5. ASSUME NEW w \in Workers, \/ Publish(w) \/ PutFails(w) \/ AsyncCommit(w)
                                \/ SyncRemove(w) \/ RemoveOk(w) \/ Unindex(w)
      PROVE  RetryNoticed' /\ RegistrationKept'
    BY <1>5 DEF Publish, PutFails, AsyncCommit, SyncRemove, RemoveOk, RpcOk, Unindex
<1>6. ASSUME NEW w \in Workers, RemoveFails(w) PROVE RetryNoticed' /\ RegistrationKept'
    BY <1>6 DEF RemoveFails
<1>7. CASE Drain \/ TryConnect \/ RegisterSkipped
    BY <1>7 DEF Drain, TryConnect, RegisterSkipped
<1>8. CASE RegisterOk \/ RegisterFails
    BY <1>8 DEF RegisterOk, RegisterFails, RpcOk
<1>9. CASE Snapshot \/ Push
    BY <1>9 DEF Snapshot, Push
<1> QED
    BY <1>1, <1>2, <1>3, <1>4, <1>5, <1>6, <1>7, <1>8, <1>9, StepCases DEF OtherStep

----------------------------------------------------------------------------
(* Ghosts *)

LEMMA RecordsFixed == Records' = Records /\ \A r \in Records : r.key \in Keys
    BY DEF Records, Versions, NoVersion

(* Of the keys that are not excused, the records under way are those of    *)
(* the index, Meta has no other, and a removal Meta has confirmed is final.*)
GhostInv == PendingExact /\ ConfirmedGone /\ GhostsExplained

(* A step that leaves the index alone, starts no push, takes what it       *)
(* writes to Meta from the records under way and excuses the removals it   *)
(* sends past Meta.                                                        *)
LEMMA GhostFrame ==
    ASSUME TypeOK, Fresh, GhostInv,
           index' = index,
           excused \subseteq excused',
           \A r \in Records : Under(r)' => Under(r),
           \A k \in Keys : \/ meta'[k] = meta[k] \/ meta'[k] = NoVersion
                           \/ \E r \in Records : Under(r) /\ r.key = k /\ meta'[k] = r.ver,
           \A w \in Workers : pc'[w] = "unindex" =>
              \/ pc[w] = "unindex" /\ recs'[w] = recs[w]
              \/ recs'[w][1].key \in excused'
    PROVE  GhostInv'
<1>0. Records' = Records /\ \A r \in Records : r.key \in Keys
    BY DEF Records, Versions, NoVersion
<1>1. PendingExact'
    BY <1>0 DEF GhostInv, PendingExact
<1>2. GhostsExplained'
  <2> SUFFICES ASSUME NEW k \in Keys, k \notin excused'
               PROVE  meta'[k] \in {NoVersion, index[k]}
      BY DEF GhostsExplained
  <2>1. k \notin excused /\ meta[k] \in {NoVersion, index[k]}
      BY DEF GhostInv, GhostsExplained
  <2>2. ASSUME NEW r \in Records, Under(r), r.key = k PROVE r.ver = index[k]
      BY <2>1, <2>2 DEF GhostInv, PendingExact
  <2> QED
      BY <2>1, <2>2
<1>3. ConfirmedGone'
  <2> SUFFICES ASSUME NEW w \in Workers, NEW x, x = recs'[w][1], pc'[w] = "unindex",
                      x.key \notin excused', x.ver = index[x.key]
               PROVE  meta'[x.key] = NoVersion /\ \A r \in Records : Under(r)' => r.key # x.key
      BY <1>0 DEF ConfirmedGone
  <2>1. pc[w] = "unindex" /\ recs[w][1] = x /\ x.key \notin excused
      OBVIOUS
  <2>2. meta[x.key] = NoVersion /\ \A r \in Records : Under(r) => r.key # x.key
      BY <2>1 DEF GhostInv, ConfirmedGone
  <2>3. x.key \in Keys
    <3>1. recs[w] \in Seq(Records) /\ Len(recs[w]) = 1
        BY <2>1, Kinds DEF Fresh, TypeOK, Holding
    <3>2. x \in Records
        BY <2>1, <3>1
    <3> QED
        BY <1>0, <3>2
  <2> QED
      BY <2>2, <2>3
<1> QED
    BY <1>1, <1>2, <1>3 DEF GhostInv

(* The four steps GhostFrame does not cover. *)
LEMMA GhostPublish ==
    ASSUME TypeOK, Fresh, GhostInv, [Next]_vars, NEW w \in Workers, NEW k \in Keys, Enters(w, k)
    PROVE  GhostInv'
<1>0. /\ Records' = Records /\ \A r \in Records : r.key \in Keys
      /\ pc \in [Threads -> Labels] /\ recs \in [Threads -> Seq(Records)]
      /\ index \in [Keys -> 0 .. puts] /\ puts \in Nat
    BY RecordsFixed DEF TypeOK
<1>1. /\ index' = [index EXCEPT ![k] = puts + 1]
      /\ meta' = meta /\ excused \subseteq excused' /\ excused' \subseteq excused \cup {k}
      /\ k \notin excused' => index[k] = NoVersion
      /\ \A v \in Workers : pc'[v] = "unindex" => pc[v] = "unindex" /\ recs'[v] = recs[v]
    BY <1>0, Kinds DEF Enters, server
<1>2. \A kk \in Keys : kk # k => index'[kk] = index[kk]
    BY <1>0, <1>1
<1>3. index'[k] = puts + 1
    BY <1>0, <1>1
<1>4. \A r \in Records : Under(r) /\ r.key = k => k \in excused'
  <2> SUFFICES ASSUME NEW r \in Records, Under(r), r.key = k, k \notin excused' PROVE FALSE
      OBVIOUS
  <2>1. r.ver = NoVersion
      BY <1>1 DEF GhostInv, PendingExact
  <2>2. r.ver \in 1 .. puts
      BY DEF Fresh
  <2> QED
      BY <1>0, <2>1, <2>2 DEF NoVersion
<1>5. \A r \in Records : Under(r)' => Under(r) \/ (r.key = k /\ r.ver = puts + 1)
  <2> SUFFICES ASSUME NEW r \in Records, Under(r)', ~Under(r)
               PROVE  r.key = k /\ r.ver = puts + 1
      OBVIOUS
  <2>0. puts + 1 # puts /\ \A kk \in Keys : index[kk] # puts + 1
      BY <1>0
  <2>1. ~Snapshot
      BY <2>0 DEF Enters, Snapshot
  <2>2. PICK v \in Workers, kk \in Keys : Enters(v, kk) /\ r = [key |-> kk, ver |-> puts + 1]
      BY <2>1, UnderStep
  <2>3. index' = [index EXCEPT ![kk] = puts + 1]
      BY <2>2 DEF Enters
  <2>4. kk = k
      BY <1>0, <1>2, <2>0, <2>3
  <2> QED
      BY <2>2, <2>4
<1>6. PendingExact'
  <2> SUFFICES ASSUME NEW r \in Records, Under(r)', r.key \notin excused' PROVE r.ver = index'[r.key]
      BY <1>0 DEF PendingExact
  <2>1. CASE Under(r)
      BY <1>0, <1>1, <1>2, <1>4, <2>1 DEF GhostInv, PendingExact
  <2> QED
      BY <1>3, <1>5, <2>1
<1>7. GhostsExplained'
    BY <1>1, <1>2 DEF GhostInv, GhostsExplained
<1>8. ConfirmedGone'
  <2> SUFFICES ASSUME NEW v \in Workers, NEW x, x = recs'[v][1], pc'[v] = "unindex",
                      x.key \notin excused', x.ver = index'[x.key]
               PROVE  meta[x.key] = NoVersion /\ \A r \in Records : Under(r)' => r.key # x.key
      BY <1>0, <1>1 DEF ConfirmedGone
  <2>1. pc[v] = "unindex" /\ recs[v][1] = x /\ x.key \notin excused
      BY <1>1
  <2>2. recs[v] \in Seq(Records) /\ Len(recs[v]) = 1 /\ recs[v][1].ver \in 0 .. puts
      BY <1>0, <2>1, Kinds DEF Fresh, Holding
  <2>3. x \in Records /\ x.ver \in 0 .. puts
      BY <2>1, <2>2
  <2>4. x.key # k
      BY <1>0, <1>3, <2>3
  <2>5. x.ver = index[x.key]
      BY <1>0, <1>2, <2>3, <2>4
  <2>6. meta[x.key] = NoVersion /\ \A r \in Records : Under(r) => r.key # x.key
      BY <2>1, <2>5 DEF GhostInv, ConfirmedGone
  <2> QED
      BY <1>5, <2>4, <2>6
<1> QED
    BY <1>6, <1>7, <1>8 DEF GhostInv

(* The records under way after a step that neither publishes nor takes a   *)
(* snapshot.                                                               *)
LEMMA UnderKept ==
    ASSUME TypeOK, Fresh, [Next]_vars, puts' = puts, ~Snapshot
    PROVE  \A r \in Records : Under(r)' => Under(r)
<1>1. \A w \in Workers, k \in Keys : ~Enters(w, k)
    BY DEF Enters, TypeOK
<1> QED
    BY <1>1, UnderStep

LEMMA GhostUnindex ==
    ASSUME TypeOK, Fresh, GhostInv, [Next]_vars, NEW w \in Workers, Unindex(w)
    PROVE  GhostInv'
<1> DEFINE x == recs[w][1]
<1>0. /\ Records' = Records /\ \A r \in Records : r.key \in Keys
      /\ pc \in [Threads -> Labels] /\ recs \in [Threads -> Seq(Records)]
      /\ index \in [Keys -> 0 .. puts] /\ puts \in Nat
    BY RecordsFixed DEF TypeOK
<1>1. /\ pc[w] = "unindex" /\ UNCHANGED <<meta, puts, queue, snap>>
      /\ index' = [index EXCEPT ![x.key] = NoVersion]
      /\ pc' = [pc EXCEPT ![w] = "idle"] /\ recs' = [recs EXCEPT ![w] = <<>>]
    BY DEF Unindex, Goto, server, resync
<1>2. /\ excused \subseteq excused'
      /\ x.key \notin excused' => index[x.key] = NoVersion \/ index[x.key] = x.ver
    BY DEF Unindex
<1>3. x \in Records
  <2>1. recs[w] \in Seq(Records) /\ Len(recs[w]) = 1
      BY <1>0, <1>1, Kinds DEF Fresh, Holding
  <2> QED
      BY <2>1
<1>4. index'[x.key] = NoVersion /\ \A k \in Keys : k # x.key => index'[k] = index[k]
    BY <1>0, <1>1, <1>3
<1>5. x.key \notin excused' =>
         meta[x.key] = NoVersion /\ \A r \in Records : Under(r) => r.key # x.key
  <2> SUFFICES ASSUME x.key \notin excused'
               PROVE  meta[x.key] = NoVersion /\ \A r \in Records : Under(r) => r.key # x.key
      OBVIOUS
  <2>1. CASE index[x.key] = x.ver
      BY <1>1, <1>2, <2>1 DEF GhostInv, ConfirmedGone
  <2>2. CASE index[x.key] = NoVersion
    <3>1. meta[x.key] = NoVersion
        BY <1>0, <1>2, <1>3, <2>2 DEF GhostInv, GhostsExplained
    <3>2. ASSUME NEW r \in Records, Under(r), r.key = x.key PROVE FALSE
      <4>1. r.ver = NoVersion
          BY <1>2, <2>2, <3>2 DEF GhostInv, PendingExact
      <4>2. r.ver \in 1 .. puts
          BY <3>2 DEF Fresh
      <4> QED
          BY <1>0, <4>1, <4>2 DEF NoVersion
    <3> QED
        BY <3>1, <3>2
  <2> QED
      BY <1>2, <2>1, <2>2
<1>6. \A r \in Records : Under(r)' => Under(r)
  <2>1. ~Snapshot
      BY <1>0, <1>1, Kinds DEF Snapshot, Goto
  <2> QED
      BY <1>1, <2>1, UnderKept
<1> HIDE DEF x
<1>7. PendingExact'
    BY <1>0, <1>2, <1>4, <1>5, <1>6 DEF GhostInv, PendingExact
<1>8. GhostsExplained'
    BY <1>1, <1>2, <1>4, <1>5 DEF GhostInv, GhostsExplained
<1>9. ConfirmedGone'
  <2> SUFFICES ASSUME NEW v \in Workers, NEW y, y = recs'[v][1], pc'[v] = "unindex",
                      y.key \notin excused', y.ver = index'[y.key]
               PROVE  meta[y.key] = NoVersion /\ \A r \in Records : Under(r)' => r.key # y.key
      BY <1>0, <1>1 DEF ConfirmedGone
  <2>1. v # w /\ pc[v] = "unindex" /\ recs[v][1] = y
      BY <1>0, <1>1, Kinds
  <2>2. y \in Records
    <3>1. recs[v] \in Seq(Records) /\ Len(recs[v]) = 1
        BY <1>0, <2>1, Kinds DEF Fresh, Holding
    <3> QED
        BY <2>1, <3>1
  <2>3. CASE y.key = x.key
      BY <1>5, <1>6, <2>3
  <2>4. CASE y.key # x.key
    <3>1. y.ver = index[y.key] /\ y.key \notin excused
        BY <1>0, <1>2, <1>4, <2>2, <2>4
    <3>2. meta[y.key] = NoVersion /\ \A r \in Records : Under(r) => r.key # y.key
        BY <2>1, <3>1 DEF GhostInv, ConfirmedGone
    <3> QED
        BY <1>6, <3>2
  <2> QED
      BY <2>3, <2>4
<1> QED
    BY <1>7, <1>8, <1>9 DEF GhostInv

LEMMA GhostRemoveOk ==
    ASSUME TypeOK, Fresh, GhostInv, [Next]_vars, NEW w \in Workers, RemoveOk(w)
    PROVE  GhostInv'
<1> DEFINE x == recs[w][1]
<1>0. /\ Records' = Records /\ \A r \in Records : r.key \in Keys
      /\ pc \in [Threads -> Labels] /\ recs \in [Threads -> Seq(Records)]
      /\ meta \in [Keys -> 0 .. puts] /\ snap \subseteq Records /\ queue \in Seq(Records)
    BY RecordsFixed DEF TypeOK
<1>1. /\ pc[w] = "sendremove" /\ UNCHANGED <<index, puts, queue, snap, recs>>
      /\ meta' = [meta EXCEPT ![x.key] = NoVersion]
      /\ pc' = [pc EXCEPT ![w] = "unindex"]
    BY DEF RemoveOk, RpcOk, Erase, Goto, resync
<1>2. /\ PushComing(x.key) => excused' = excused \cup {x.key}
      /\ ~PushComing(x.key) => excused' = excused \ {x.key}
    BY DEF RemoveOk
<1>3. x \in Records
  <2>1. recs[w] \in Seq(Records) /\ Len(recs[w]) = 1
      BY <1>0, <1>1, Kinds DEF Fresh, Holding
  <2> QED
      BY <2>1
<1>4. meta'[x.key] = NoVersion /\ \A k \in Keys : k # x.key => meta'[k] = meta[k]
    BY <1>0, <1>1, <1>3
<1>5. x.key \notin excused' => \A r \in Records : Under(r) => r.key # x.key
  <2> SUFFICES ASSUME NEW r \in Records, Under(r), r.key = x.key PROVE PushComing(x.key)
      BY <1>2
  <2> HIDE DEF x
  <2>1. CASE In(queue, r) \/ r \in snap
      BY <2>1 DEF PushComing, Names, In
  <2>2. CASE \E t \in Threads : pc[t] \in Pushing /\ In(recs[t], r)
      BY <2>2 DEF PushComing, Names, In, Pushing
  <2> QED
      BY <2>1, <2>2 DEF Under
<1>6. \A r \in Records : Under(r)' => Under(r)
  <2>1. ~Snapshot
      BY <1>0, <1>1, Kinds DEF Snapshot, Goto
  <2> QED
      BY <1>1, <2>1, UnderKept
<1>7. \A k : k \notin excused' /\ k # x.key => k \notin excused
    BY <1>2
<1>8. PendingExact'
    BY <1>0, <1>1, <1>5, <1>6, <1>7 DEF GhostInv, PendingExact
<1>9. GhostsExplained'
    BY <1>1, <1>4, <1>7 DEF GhostInv, GhostsExplained
<1>10. ConfirmedGone'
  <2> HIDE DEF x
  <2> SUFFICES ASSUME NEW v \in Workers, NEW y, y = recs[v][1], pc'[v] = "unindex",
                      y.key \notin excused', y.ver = index[y.key]
               PROVE  meta'[y.key] = NoVersion /\ \A r \in Records : Under(r)' => r.key # y.key
      BY <1>0, <1>1 DEF ConfirmedGone
  <2>1. CASE y.key = x.key
      BY <1>4, <1>5, <1>6, <2>1
  <2>2. CASE y.key # x.key
    <3>1. v # w
        BY <2>2 DEF x
    <3>2. pc[v] = "unindex" /\ y.key \notin excused
        BY <1>0, <1>1, <1>7, <2>2, <3>1, Kinds
    <3>3. meta[y.key] = NoVersion /\ \A r \in Records : Under(r) => r.key # y.key
        BY <3>2 DEF GhostInv, ConfirmedGone
    <3>4. y \in Records
      <4>1. recs[v] \in Seq(Records) /\ Len(recs[v]) = 1
          BY <1>0, <3>2, Kinds DEF Fresh, Holding
      <4> QED
          BY <4>1
    <3> QED
        BY <1>0, <1>4, <1>6, <2>2, <3>3, <3>4
  <2> QED
      BY <2>1, <2>2
<1> QED
    BY <1>8, <1>9, <1>10 DEF GhostInv

LEMMA GhostSnapshot ==
    ASSUME TypeOK, Fresh, GhostInv, [Next]_vars, Snapshot
    PROVE  GhostInv'
<1>0. /\ Records' = Records /\ \A r \in Records : r.key \in Keys
      /\ pc \in [Threads -> Labels] /\ recs \in [Threads -> Seq(Records)]
    BY RecordsFixed DEF TypeOK
<1>1. /\ UNCHANGED <<index, puts, meta, recs>>
      /\ excused' = excused \cup {k \in Keys : RemovalComing(k)}
      /\ \A w \in Workers : pc'[w] = pc[w]
    BY <1>0, Kinds DEF Snapshot, Goto, server
<1>2. \A r \in Records : Under(r)' => Under(r) \/ r.ver = index[r.key]
  <2> SUFFICES ASSUME NEW r \in Records, Under(r)', ~Under(r) PROVE r.ver = index[r.key]
      OBVIOUS
  <2>1. \A w \in Workers, k \in Keys : ~Enters(w, k)
      BY <1>1 DEF Enters, TypeOK
  <2>2. r \in snap'
      BY <2>1, UnderStep
  <2> QED
      BY <2>2, SnapshotTaken
<1>3. PendingExact'
    BY <1>0, <1>1, <1>2 DEF GhostInv, PendingExact
<1>4. GhostsExplained'
    BY <1>1 DEF GhostInv, GhostsExplained
<1>5. ConfirmedGone'
  <2> SUFFICES ASSUME NEW w \in Workers, pc'[w] = "unindex" PROVE recs'[w][1].key \in excused'
      BY DEF ConfirmedGone
  <2>1. recs[w] \in Seq(Records) /\ Len(recs[w]) = 1 /\ pc[w] = "unindex"
      BY <1>0, <1>1, Kinds DEF Fresh, Holding
  <2>2. recs[w][1] \in Records /\ 1 \in DOMAIN recs[w]
      BY <2>1
  <2>3. RemovalComing(recs[w][1].key)
      BY <2>1, <2>2 DEF RemovalComing, Names
  <2> QED
      BY <1>0, <1>1, <2>2, <2>3
<1> QED
    BY <1>3, <1>4, <1>5 DEF GhostInv


LEMMA GhostStep ==
    ASSUME TypeOK, Fresh, GhostInv, [Next]_vars
    PROVE  GhostInv'
<1>1. CASE Snapshot
    BY <1>1, GhostSnapshot
<1>2. CASE \E w \in Workers : Publish(w)
    BY <1>2, PublishEffect, GhostPublish
<1>3. CASE \E w \in Workers : Unindex(w)
    BY <1>3, GhostUnindex
<1>4. CASE \E w \in Workers : RemoveOk(w)
    BY <1>4, GhostRemoveOk
<1>5. CASE /\ ~Snapshot
           /\ ~\E w \in Workers : Publish(w)
           /\ ~\E w \in Workers : Unindex(w)
           /\ ~\E w \in Workers : RemoveOk(w)
  <2>0. puts' = puts
    <3>1. ASSUME NEW w \in Workers, NEW k \in Keys, Begins(w, k) PROVE puts' = puts
        BY <3>1, BeginEffect DEF store
    <3>2. ASSUME NEW t \in Threads, CommitStep(t) PROVE puts' = puts
        BY <3>2 DEF CommitStep, SyncCommit, CommitOk, CommitFails, RetryOk, RetryFails, store
    <3> QED
        BY <1>5, <3>1, <3>2, StepCases DEF OtherStep, OutageBegins, OutageEnds, MetaRestarts,
           PutFails, AsyncCommit, SyncRemove, RemoveFails, Drain, TryConnect,
           RegisterSkipped, RegisterOk, RegisterFails, Push, vars, store
  <2> DEFINE Written(m) ==
                \A k \in Keys : \/ m[k] = meta[k] \/ m[k] = NoVersion
                                \/ \E r \in Records : Under(r) /\ r.key = k /\ m[k] = r.ver
             Sent == \A w \in Workers : pc'[w] = "unindex" =>
                        \/ pc[w] = "unindex" /\ recs'[w] = recs[w]
                        \/ recs'[w][1].key \in excused'
             Goal == index' = index /\ excused \subseteq excused' /\ Written(meta') /\ Sent
  <2>1. \A r \in Records : Under(r)' => Under(r)
      BY <1>5, <2>0, UnderKept
  <2>2. /\ pc \in [Threads -> Labels] /\ recs \in [Threads -> Seq(Records)]
        /\ meta \in [Keys -> 0 .. puts]
      BY DEF TypeOK
  <2>3. Written(meta)
      OBVIOUS
  <2>4. ASSUME NEW t \in Threads, pc[t] \in Pushing PROVE Written(Upsert(recs[t]))
    <3> SUFFICES ASSUME NEW k \in Keys
                 PROVE  \/ Upsert(recs[t])[k] = meta[k]
                        \/ \E r \in Records : Under(r) /\ r.key = k /\ Upsert(recs[t])[k] = r.ver
        OBVIOUS
    <3>1. \A r : In(recs[t], r) => Under(r)
        BY <2>4 DEF Under
    <3> QED
        BY <2>2, <3>1, UpsertValue
  <2>5. ASSUME NEW kk \in Keys PROVE Written(Erase(kk))
      BY <2>2 DEF Erase
  <2> USE <2>2, Kinds DEF Goto, store, server, link, resync
  <2>6. ASSUME UNCHANGED vars PROVE Goal
      BY <2>3, <2>6 DEF vars
  <2>7. ASSUME NEW t \in Threads, CommitStep(t) PROVE Goal
    <3>1. index' = index /\ excused' = excused
        BY <2>7 DEF CommitStep, SyncCommit, CommitOk, CommitFails, RetryOk, RetryFails
    <3>2. Sent
        BY <2>7 DEF CommitStep, SyncCommit, CommitOk, CommitFails, RetryOk, RetryFails, Return
    <3>3. pc[t] \in Pushing /\ (meta' = meta \/ meta' = Upsert(recs[t]))
        BY <2>7 DEF CommitStep, SyncCommit, CommitOk, CommitFails, RetryOk, RetryFails, Pushing,
           RpcOk, RpcFails, RpcLost, RpcReplyLost
    <3>4. Written(meta')
      <4> HIDE DEF Written
      <4> QED
          BY <2>3, <2>4, <3>3
    <3> QED
        BY <3>1, <3>2, <3>4
  <2>8. ASSUME NEW w \in Workers, NEW k \in Keys, Begins(w, k) PROVE Goal
      BY <2>3, <2>8, BeginEffect
  <2>9. ASSUME OutageBegins \/ OutageEnds \/ MetaRestarts PROVE Goal
      BY <2>9 DEF OutageBegins, OutageEnds, MetaRestarts, EmptyMeta
  <2>10. ASSUME NEW w \in Workers, PutFails(w) \/ AsyncCommit(w) \/ SyncRemove(w) PROVE Goal
      BY <2>3, <2>10 DEF PutFails, AsyncCommit, SyncRemove
  <2>11. ASSUME NEW w \in Workers, RemoveFails(w) PROVE Goal
    <3>1. index' = index /\ excused' = excused /\ Sent
        BY <2>11 DEF RemoveFails
    <3>2. meta' = meta \/ meta' = Erase(recs[w][1].key)
        BY <2>11 DEF RemoveFails, RpcFails, RpcLost, RpcReplyLost
    <3>3. \A k \in Keys : meta'[k] = meta[k] \/ meta'[k] = NoVersion
        BY <3>2 DEF Erase
    <3> QED
        BY <3>1, <3>3
  <2>12. ASSUME Drain \/ TryConnect \/ RegisterSkipped PROVE Goal
      BY <2>3, <2>12 DEF Drain, TryConnect, RegisterSkipped
  <2>13. ASSUME RegisterOk \/ RegisterFails PROVE Goal
    <3>1. meta' = meta
        BY <2>13 DEF RegisterOk, RegisterFails, RpcOk, RpcFails, RpcLost, RpcReplyLost
    <3> QED
        BY <2>3, <2>13, <3>1 DEF RegisterOk, RegisterFails
  <2>14. ASSUME Push PROVE Goal
    <3>1. recs' = [recs EXCEPT ![Reconnector] = recs'[Reconnector]]
        BY <2>14, PushTaken
    <3>2. pc' = [pc EXCEPT ![Reconnector] = "commit"] /\ UNCHANGED <<index, excused, meta>>
        BY <2>14 DEF Push
    <3> QED
        BY <2>3, <3>1, <3>2
  <2>15. Goal
    <3> HIDE DEF Goal
    <3> QED
        BY <1>5, <2>6, <2>7, <2>8, <2>9, <2>10, <2>11, <2>12, <2>13, <2>14, StepCases DEF OtherStep
  <2> QED
      BY <2>1, <2>15, GhostFrame
<1> QED
    BY <1>1, <1>2, <1>3, <1>4, <1>5

----------------------------------------------------------------------------
(* The invariant, and what it says *)

LEMMA InvInit == Init => Inv
<1> SUFFICES ASSUME Init PROVE Inv
    OBVIOUS
<1>1. /\ index = EmptyMeta /\ meta = EmptyMeta /\ puts = 0 /\ outages = 0 /\ queue = <<>>
      /\ pc = [t \in Threads |-> "idle"] /\ recs = [t \in Threads |-> <<>>]
      /\ snap = {} /\ attempt = 0 /\ excused = {} /\ overlooked = FALSE
    BY DEF Init
<1>2. FlagTypes /\ connected = registered
    BY MetaSyncAssumption DEF Init, FlagTypes
<1>3. 0 .. 0 = {0} /\ MaxPuts \in Nat /\ MaxOutages \in Nat /\ MaxAttempts \in Nat
    BY MetaSyncAssumption
<1>4. index \in [Keys -> 0 .. puts] /\ meta \in [Keys -> 0 .. puts]
    BY <1>1, <1>3 DEF EmptyMeta, NoVersion
<1>5. StoreTypes
  <2>1. puts \in 0 .. MaxPuts /\ outages \in 0 .. MaxOutages /\ attempt \in 0 .. MaxAttempts
      BY <1>1, <1>3
  <2> QED
      BY <1>2, <1>4, <2>1 DEF StoreTypes
<1>6. RecordTypes /\ pc \in [Threads -> Labels]
    BY <1>1 DEF RecordTypes, Labels
<1>7. TypeOK
    BY <1>5, <1>6, TypeParts
<1>8. \A r : ~Under(r)
    BY <1>1, InEmpty DEF Under, Pushing
<1>9. \A k \in Keys : index[k] = NoVersion /\ meta[k] = NoVersion
    BY <1>1 DEF EmptyMeta
<1>10. Fresh
    BY <1>1, <1>8, Kinds, FS_EmptySet DEF Fresh, Holding
<1>11. Scheduled /\ RetryNoticed /\ RegistrationKept
    BY <1>1, <1>2, <1>9, Kinds DEF Scheduled, RetryNoticed, RegistrationKept
<1>12. PendingExact /\ ConfirmedGone /\ GhostsExplained
    BY <1>1, <1>8, <1>9, Kinds DEF PendingExact, ConfirmedGone, GhostsExplained
<1> QED
    BY <1>7, <1>10, <1>11, <1>12 DEF Inv

LEMMA InvStep == Inv /\ [Next]_vars => Inv'
<1> SUFFICES ASSUME Inv, [Next]_vars PROVE Inv'
    OBVIOUS
<1> QED
    BY TypeStep, FreshStep, ScheduledStep, LinkStep, GhostStep DEF Inv, GhostInv

LEMMA Invariance == Spec => []Inv
    BY InvInit, InvStep, PTL DEF Spec

(* Every variable keeps its type: versions never exceed the number of puts *)
(* and FullResync gives up after MaxAttempts attempts at RegisterStore.    *)
THEOREM TypeCorrect == Spec => []TypeOK
<1>1. Inv => TypeOK
    BY DEF Inv
<1> QED
    BY <1>1, Invariance, PTL

(* MetaSyncClient forgets no key: one the store has and Meta lacks is on   *)
(* its way, or leaving, or covered by the resync a cleared connected_      *)
(* announces, unless an outage was overlooked.                             *)
THEOREM NothingForgottenHolds == Spec => []NothingForgotten
<1>1. Inv => NothingForgotten
  <2> SUFFICES ASSUME Inv, ~overlooked, connected
               PROVE  /\ \A k \in Keys : index[k] # NoVersion /\ meta[k] = NoVersion =>
                                            PushComing(k) \/ RemovalComing(k)
                      /\ registered \/ pc[Reconnector] = "register"
      BY DEF NothingForgotten
  <2>1. registered \/ pc[Reconnector] = "register"
      BY DEF Inv, RegistrationKept
  <2>2. ASSUME NEW k \in Keys, index[k] # NoVersion, meta[k] = NoVersion
        PROVE  PushComing(k) \/ RemovalComing(k)
    <3>1. CASE \E r \in Records : Sure(r) /\ r.key = k
        BY <3>1 DEF Sure, PushComing, Names, In, Pushing
    <3>2. CASE Resyncing
        BY <3>2 DEF Resyncing, PushComing
    <3> QED
        BY <2>2, <3>1, <3>2 DEF Inv, Scheduled
  <2> QED
      BY <2>1, <2>2
<1> QED
    BY <1>1, Invariance, PTL

(* MetaManager keeps no record of this store that its index does not have, *)
(* but of the keys the four races of a removal leave behind, and of those  *)
(* two overlapping puts of which entered the index one over the other.     *)
THEOREM GhostsExplainedHolds == Spec => []GhostsExplained
<1>1. Inv => GhostsExplained
    BY DEF Inv
<1> QED
    BY <1>1, Invariance, PTL
=============================================================================
