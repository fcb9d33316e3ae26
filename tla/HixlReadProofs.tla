--------------------------- MODULE HixlReadProofs ---------------------------
(***************************************************************************)
(* Proofs about HixlRead for any set of threads, any batches and any bound *)
(* on reads, retries and faults.                                           *)
(*                                                                         *)
(* None of the four safety properties is inductive.  What they rest on:    *)
(*   TokensFresh     tokens of one incarnation of the store are not given  *)
(*                   twice, so a release or a deregistration never takes   *)
(*                   what another read of the same incarnation holds;      *)
(*   LeaseHeld       TransferCovered from the reply of Prepare until the   *)
(*                   release, not only during the transfer;                *)
(*   HandlesTracked  the registrations of a read are those of its batch up *)
(*                   to the segment it is at, and at the release they are  *)
(*                   gone unless an empty segment follows them;            *)
(*   EngineSettled   without a race one thread at a time makes an engine,  *)
(*                   and only before hixl_initialized_ is set.             *)
(***************************************************************************)
EXTENDS HixlRead, TLAPS

Preparing == {"ensure", "create", "initialize", "prepare"}
Moving == {"segment", "connect", "transfer"}

(* What a thread's place in BatchRead says of its locals. *)
Placed(r) ==
    /\ since[r] <= epoch
    /\ pc[r] \in Preparing => i[r] = 1 /\ sizes[r] \in Batches
    /\ pc[r] \in Moving => sizes[r] \in Batches
    /\ pc[r] = "segment" => i[r] \in DOMAIN sizes[r]
    /\ pc[r] \in Holding => token[r] \in Nat
    /\ pc[r] \notin Holding \cup {"return"} => token[r] = None

(* The type invariant, with what else the proofs need to know of the       *)
(* values of the variables.                                                *)
ThreadTypes ==
    /\ engines \in Nat /\ engine \in 0 .. engines
    /\ initialized \in BOOLEAN /\ raced \in BOOLEAN
    /\ nextToken \in Nat
    /\ epoch \in Nat /\ faults \in 0 .. MaxFaults /\ epoch <= faults
    /\ pc \in [Readers -> Labels]
    /\ sizes \in [Readers -> Batches \cup {<<>>}]
    /\ i \in [Readers -> Nat]
    /\ token \in [Readers -> Nat \cup {None}]
    /\ since \in [Readers -> Nat]
    /\ outcome \in [Readers -> BOOLEAN \cup {None}]
    /\ tries \in [Readers -> 0 .. MaxRetry]
    /\ \A r \in Readers : Placed(r)

Leases == [token : Nat, reader : Readers, epoch : 0 .. epoch]

LeaseTypes ==
    /\ leases \subseteq Leases /\ lost \subseteq Leases /\ clashes \subseteq Leases
    /\ \A l \in leases : l.token < nextToken /\ l.epoch = epoch

HandleTypes ==
    handles \subseteq [reader : Readers, token : Nat, epoch : Nat, segment : Nat,
                       batch : Batches, engine : Nat]

Types == ThreadTypes /\ LeaseTypes /\ HandleTypes

(* The reads that hold a token of the store's present incarnation. *)
Current(r) == pc[r] \in Holding /\ since[r] = epoch

(* Their tokens are below the counter and differ from each other, and no   *)
(* registration was made under a token still to be given.                  *)
TokensBelow == \A r \in Readers : Current(r) => token[r] < nextToken

TokensDistinct ==
    \A p, q \in Readers : Current(p) /\ Current(q) /\ p # q => token[p] # token[q]

HandlesOld ==
    \A h \in handles :
       \/ h.epoch < epoch
       \/ h.epoch = epoch /\ h.token < nextToken

TokensFresh == TokensBelow /\ TokensDistinct /\ HandlesOld

LeaseHeld ==
    \A r \in Readers :
       pc[r] \in Holding =>
          \/ since[r] # epoch
          \/ \E l \in leases \cup clashes : l.reader = r /\ l.token = token[r] /\ l.epoch = since[r]

(* The registration was followed by an empty segment. *)
Abandoned(h) == \E j \in DOMAIN h.batch : j > h.segment /\ h.batch[j] = 0

HandlesTracked ==
    \A r \in Readers : \A h \in HandlesOf(r) :
       /\ pc[r] \in Moving => h.batch = sizes[r] /\ h.segment < i[r]
       /\ pc[r] = "release" => Abandoned(h)

EngineSettled ==
    ~raced =>
       /\ \A r, q \in Ensuring : r = q
       /\ Ensuring # {} => ~initialized
       /\ initialized => engine # 0
       /\ \A r \in Readers : /\ pc[r] = "initialize" => engine # 0
                             /\ pc[r] \in {"prepare"} \cup Moving => initialized
                             /\ pc[r] \in Moving => \A h \in HandlesOf(r) : h.engine = engine

Inv ==
    /\ Types /\ TokensFresh /\ LeasesAccounted /\ LeaseHeld
    /\ HandlesTracked /\ HandlesReleased /\ EngineSettled

----------------------------------------------------------------------------
(* Every step keeps the variables of the threads in their types.           *)
LEMMA ThreadTypesStep ==
    ASSUME ThreadTypes, [Next]_vars
    PROVE  ThreadTypes'
<1>1. \A b \in Batches : b \in Seq(Nat) /\ DOMAIN b = 1 .. Len(b) /\ 1 \in DOMAIN b
    BY HixlAssumption
<1> USE <1>1, HixlAssumption DEF ThreadTypes, Placed, Labels, Preparing, Moving,
       Holding, Goto, clientEngine, service, bounds, ghost, vars, thread
<1>2. CASE UNCHANGED vars
    BY <1>2
<1>3. CASE StoreRestarts
    BY <1>3 DEF StoreRestarts, Fault
<1>4. ASSUME NEW r \in Readers, ReaderStep(r) PROVE ThreadTypes'
  <2>1. ASSUME NEW b \in Batches, BatchRead(r, b) PROVE ThreadTypes'
      BY SMTT(60), <2>1 DEF BatchRead
  <2>2. CASE EnsureHixlInitialized(r)
      BY <2>2 DEF EnsureHixlInitialized
  <2>3. CASE CreateEngine(r)
      BY SMTT(60), <2>3 DEF CreateEngine
  <2>4. CASE InitializeOk(r)
      BY <2>4 DEF InitializeOk
  <2>5. CASE InitializeFails(r)
      BY SMTT(60), <2>5 DEF InitializeFails, GiveUp, Fault
  <2>6. CASE NoRpcClient(r)
      BY SMTT(60), <2>6 DEF NoRpcClient, Fault
  <2>7. CASE PrepareOk(r)
    <3>1. /\ pc' \in [Readers -> Labels] /\ i' \in [Readers -> Nat]
          /\ token' \in [Readers -> Nat \cup {None}] /\ since' \in [Readers -> Nat]
        BY <2>7 DEF PrepareOk, Stage
    <3>2. Placed(r)'
      <4>1. i[r] = 1 /\ sizes[r] \in Batches /\ 1 \in DOMAIN sizes[r]
          BY <2>7 DEF PrepareOk
      <4> QED
          BY <2>7, <4>1 DEF PrepareOk, Stage
    <3>3. \A q \in Readers : q # r => Placed(q)'
        BY <2>7 DEF PrepareOk, Stage
    <3> QED
        BY SMTT(60), <2>7, <3>1, <3>2, <3>3 DEF PrepareOk, Stage
  <2>8. CASE PrepareFails(r)
      BY SMTT(60), <2>8 DEF PrepareFails, GiveUp, Fault
  <2>9. CASE PrepareReplyLost(r)
    <3>1. /\ pc' \in [Readers -> Labels] /\ i' \in [Readers -> Nat]
          /\ token' \in [Readers -> Nat \cup {None}] /\ since' \in [Readers -> Nat]
        BY <2>9 DEF PrepareReplyLost, Stage, GiveUp, Fault
    <3>2. Placed(r)'
        BY SMTT(60), <2>9 DEF PrepareReplyLost, Stage, GiveUp, Fault
    <3>3. \A q \in Readers : q # r => Placed(q)'
        BY <2>9 DEF PrepareReplyLost, Stage, GiveUp, Fault
    <3>4. faults' \in 0 .. MaxFaults /\ epoch' <= faults'
        BY SMTT(60), <2>9 DEF PrepareReplyLost, Stage, Fault
    <3>5. tries' \in [Readers -> 0 .. MaxRetry]
      <4>1. tries[r] < MaxRetry => tries[r] + 1 \in 0 .. MaxRetry
          OBVIOUS
      <4> QED
          BY <2>9, <4>1 DEF PrepareReplyLost
    <3> QED
        BY SMTT(60), <2>9, <3>1, <3>2, <3>3, <3>4, <3>5 DEF PrepareReplyLost, Stage, GiveUp,
           Fault
  <2>10. CASE EmptySegment(r)
      BY <2>10 DEF EmptySegment
  <2>11. CASE RegisterOk(r)
    <3>1. /\ pc' \in [Readers -> Labels] /\ i' \in [Readers -> Nat]
          /\ token' \in [Readers -> Nat \cup {None}] /\ since' \in [Readers -> Nat]
      <4>1. i[r] + 1 \in Nat
          BY DEF ThreadTypes
      <4>2. i' \in [Readers -> Nat]
          BY <2>11, <4>1 DEF RegisterOk
      <4>3. pc' \in [Readers -> Labels]
          BY <2>11 DEF RegisterOk
      <4> QED
          BY <2>11, <4>2, <4>3 DEF RegisterOk
    <3>2. Placed(r)'
      <4>1. sizes[r] \in Seq(Nat) /\ i[r] \in 1 .. Len(sizes[r])
          BY SMTT(60), <2>11 DEF RegisterOk
      <4>2. /\ i'[r] = i[r] + 1 /\ sizes'[r] = sizes[r] /\ token'[r] = token[r]
            /\ since'[r] = since[r] /\ epoch' = epoch
            /\ pc'[r] = (IF i[r] = Len(sizes[r]) THEN "connect" ELSE "segment")
          BY <2>11 DEF RegisterOk
      <4>3. pc'[r] = "segment" => i'[r] \in DOMAIN sizes[r]
          BY SMTT(60), <4>1, <4>2
      <4>4. sizes[r] \in Batches /\ token[r] \in Nat
          BY <2>11 DEF RegisterOk
      <4> QED
          BY <4>2, <4>3, <4>4
    <3>3. \A q \in Readers : q # r => Placed(q)'
        BY <2>11 DEF RegisterOk
    <3> QED
        BY <2>11, <3>1, <3>2, <3>3 DEF RegisterOk
  <2>12. CASE RegisterFails(r)
    <3>1. /\ pc' \in [Readers -> Labels] /\ i' \in [Readers -> Nat]
          /\ token' \in [Readers -> Nat \cup {None}] /\ since' \in [Readers -> Nat]
        BY <2>12 DEF RegisterFails, Fault
    <3>2. Placed(r)'
        BY <2>12 DEF RegisterFails, Fault
    <3>3. \A q \in Readers : q # r => Placed(q)'
        BY <2>12 DEF RegisterFails, Fault
    <3>4. faults' \in 0 .. MaxFaults /\ epoch' <= faults'
        BY <2>12 DEF RegisterFails, Fault
    <3> QED
        BY <2>12, <3>1, <3>2, <3>3, <3>4 DEF RegisterFails, Fault
  <2>13. CASE Connect(r)
      BY <2>13 DEF Connect
  <2>14. ASSUME NEW ok \in BOOLEAN, TransferEnds(r, ok) PROVE ThreadTypes'
    <3>1. /\ pc' \in [Readers -> Labels] /\ i' \in [Readers -> Nat]
          /\ token' \in [Readers -> Nat \cup {None}] /\ since' \in [Readers -> Nat]
        BY <2>14 DEF TransferEnds, Fault
    <3>2. Placed(r)'
        BY <2>14 DEF TransferEnds, Fault
    <3>3. \A q \in Readers : q # r => Placed(q)'
        BY <2>14 DEF TransferEnds, Fault
    <3>4. /\ outcome' \in [Readers -> BOOLEAN \cup {None}]
          /\ faults' \in 0 .. MaxFaults /\ epoch <= faults'
        BY SMTT(60), <2>14 DEF TransferEnds, Fault
    <3> QED
        BY <2>14, <3>1, <3>2, <3>3, <3>4 DEF TransferEnds, Fault
  <2>15. ASSUME NEW ok \in BOOLEAN, BrpcRead(r, ok) PROVE ThreadTypes'
      BY SMTT(60), <2>15 DEF BrpcRead, Fault
  <2>16. CASE ReleaseOk(r)
      BY <2>16 DEF ReleaseOk, Released
  <2>17. CASE ReleaseLost(r)
      BY <2>17 DEF ReleaseLost, Released, Fault
  <2>18. CASE Return(r)
      BY <2>18 DEF Return
  <2> QED
      BY <1>4, <2>1, <2>2, <2>3, <2>4, <2>5, <2>6, <2>7, <2>8, <2>9, <2>10, <2>11,
         <2>12, <2>13, <2>14, <2>15, <2>16, <2>17, <2>18 DEF ReaderStep
<1> QED
    BY <1>2, <1>3, <1>4 DEF Next

(* Leases are what the store has given out.                                *)
LEMMA LeaseTypesStep ==
    ASSUME ThreadTypes, LeaseTypes, [Next]_vars
    PROVE  LeaseTypes'
<1>1. epoch \in Nat /\ nextToken \in Nat
    BY DEF ThreadTypes, Placed
<1> USE <1>1 DEF LeaseTypes, Leases, Goto, clientEngine, service, bounds, ghost, vars,
       thread
<1>2. CASE UNCHANGED vars
    BY <1>2
<1>3. CASE StoreRestarts
    BY <1>3 DEF StoreRestarts, Fault
<1>4. ASSUME NEW r \in Readers, ReaderStep(r) PROVE LeaseTypes'
  <2>1. ASSUME NEW b \in Batches, BatchRead(r, b) PROVE LeaseTypes'
      BY <2>1 DEF BatchRead
  <2>2. CASE EnsureHixlInitialized(r)
      BY <2>2 DEF EnsureHixlInitialized
  <2>3. CASE CreateEngine(r)
      BY <2>3 DEF CreateEngine
  <2>4. CASE InitializeOk(r)
      BY <2>4 DEF InitializeOk
  <2>5. CASE InitializeFails(r)
      BY <2>5 DEF InitializeFails, GiveUp, Fault
  <2>6. CASE NoRpcClient(r)
      BY <2>6 DEF NoRpcClient, Fault
  <2>7. CASE PrepareOk(r)
      BY <2>7 DEF PrepareOk, Stage, Lease
  <2>8. CASE PrepareFails(r)
      BY <2>8 DEF PrepareFails, GiveUp, Fault
  <2>9. CASE PrepareReplyLost(r)
      BY <2>9 DEF PrepareReplyLost, Stage, Lease, GiveUp, Fault
  <2>10. CASE EmptySegment(r)
      BY <2>10 DEF EmptySegment
  <2>11. CASE RegisterOk(r)
      BY <2>11 DEF RegisterOk
  <2>12. CASE RegisterFails(r)
      BY <2>12 DEF RegisterFails, Fault
  <2>13. CASE Connect(r)
      BY <2>13 DEF Connect
  <2>14. ASSUME NEW ok \in BOOLEAN, TransferEnds(r, ok) PROVE LeaseTypes'
      BY <2>14 DEF TransferEnds, Fault
  <2>15. ASSUME NEW ok \in BOOLEAN, BrpcRead(r, ok) PROVE LeaseTypes'
      BY <2>15 DEF BrpcRead, Fault
  <2>16. CASE ReleaseOk(r)
      BY <2>16 DEF ReleaseOk, Released
  <2>17. CASE ReleaseLost(r)
      BY <2>17 DEF ReleaseLost, Released, Fault
  <2>18. CASE Return(r)
      BY <2>18 DEF Return
  <2> QED
      BY <1>4, <2>1, <2>2, <2>3, <2>4, <2>5, <2>6, <2>7, <2>8, <2>9, <2>10, <2>11,
         <2>12, <2>13, <2>14, <2>15, <2>16, <2>17, <2>18 DEF ReaderStep
<1> QED
    BY <1>2, <1>3, <1>4 DEF Next

(* Registrations are made for the segments of a batch.                     *)
LEMMA HandleTypesStep ==
    ASSUME ThreadTypes, HandleTypes, [Next]_vars
    PROVE  HandleTypes'
<1>1. /\ since \in [Readers -> Nat] /\ i \in [Readers -> Nat] /\ engine \in Nat
      /\ \A r \in Readers : pc[r] = "segment" => sizes[r] \in Batches /\ token[r] \in Nat
    BY DEF ThreadTypes, Placed, Moving, Holding
<1> USE <1>1 DEF HandleTypes, Goto, clientEngine, service, bounds, ghost, vars, thread
<1>2. CASE UNCHANGED vars
    BY <1>2
<1>3. CASE StoreRestarts
    BY <1>3 DEF StoreRestarts, Fault
<1>4. ASSUME NEW r \in Readers, ReaderStep(r) PROVE HandleTypes'
  <2>1. ASSUME NEW b \in Batches, BatchRead(r, b) PROVE HandleTypes'
      BY <2>1 DEF BatchRead
  <2>2. CASE EnsureHixlInitialized(r)
      BY <2>2 DEF EnsureHixlInitialized
  <2>3. CASE CreateEngine(r)
      BY <2>3 DEF CreateEngine
  <2>4. CASE InitializeOk(r)
      BY <2>4 DEF InitializeOk
  <2>5. CASE InitializeFails(r)
      BY <2>5 DEF InitializeFails, GiveUp, Fault
  <2>6. CASE NoRpcClient(r)
      BY <2>6 DEF NoRpcClient, Fault
  <2>7. CASE PrepareOk(r)
      BY <2>7 DEF PrepareOk, Stage, Lease
  <2>8. CASE PrepareFails(r)
      BY <2>8 DEF PrepareFails, GiveUp, Fault
  <2>9. CASE PrepareReplyLost(r)
      BY <2>9 DEF PrepareReplyLost, Stage, Lease, GiveUp, Fault
  <2>10. CASE EmptySegment(r)
      BY <2>10 DEF EmptySegment
  <2>11. CASE RegisterOk(r)
      BY <2>11 DEF RegisterOk
  <2>12. CASE RegisterFails(r)
      BY <2>12 DEF RegisterFails, Fault
  <2>13. CASE Connect(r)
      BY <2>13 DEF Connect
  <2>14. ASSUME NEW ok \in BOOLEAN, TransferEnds(r, ok) PROVE HandleTypes'
      BY <2>14 DEF TransferEnds, Fault
  <2>15. ASSUME NEW ok \in BOOLEAN, BrpcRead(r, ok) PROVE HandleTypes'
      BY <2>15 DEF BrpcRead, Fault
  <2>16. CASE ReleaseOk(r)
      BY <2>16 DEF ReleaseOk, Released
  <2>17. CASE ReleaseLost(r)
      BY <2>17 DEF ReleaseLost, Released, Fault
  <2>18. CASE Return(r)
      BY <2>18 DEF Return
  <2> QED
      BY <1>4, <2>1, <2>2, <2>3, <2>4, <2>5, <2>6, <2>7, <2>8, <2>9, <2>10, <2>11,
         <2>12, <2>13, <2>14, <2>15, <2>16, <2>17, <2>18 DEF ReaderStep
<1> QED
    BY <1>2, <1>3, <1>4 DEF Next

(* Only PrepareOk gives a token to a read, and takes it off the counter; a *)
(* restart, after which the counter begins again, makes all tokens old.    *)
LEMMA TokensBelowStep ==
    ASSUME ThreadTypes, TokensBelow, [Next]_vars
    PROVE  TokensBelow'
<1> SUFFICES ASSUME NEW q \in Readers
             PROVE  Current(q)' => token'[q] < nextToken'
    BY DEF TokensBelow
<1> DEFINE Goal == Current(q)' => token'[q] < nextToken'
<1>1. /\ epoch \in Nat /\ nextToken \in Nat
      /\ pc \in [Readers -> Labels] /\ token \in [Readers -> Nat \cup {None}]
      /\ since \in [Readers -> Nat]
      /\ \A r \in Readers : since[r] <= epoch /\ (pc[r] \in Holding => token[r] \in Nat)
    BY DEF ThreadTypes, Placed
<1> USE <1>1 DEF TokensBelow, Current, Holding, Goto, clientEngine, service, bounds,
       ghost, vars, thread
<1>2. CASE UNCHANGED vars
    BY <1>2
<1>3. CASE StoreRestarts
    BY <1>3 DEF StoreRestarts, Fault
<1>4. ASSUME NEW r \in Readers, ReaderStep(r) PROVE Goal
  <2>1. ASSUME NEW b \in Batches, BatchRead(r, b) PROVE Goal
      BY <2>1 DEF BatchRead
  <2>2. CASE EnsureHixlInitialized(r)
      BY <2>2 DEF EnsureHixlInitialized
  <2>3. CASE CreateEngine(r)
      BY <2>3 DEF CreateEngine
  <2>4. CASE InitializeOk(r)
      BY <2>4 DEF InitializeOk
  <2>5. CASE InitializeFails(r)
      BY <2>5 DEF InitializeFails, GiveUp, Fault
  <2>6. CASE NoRpcClient(r)
      BY <2>6 DEF NoRpcClient, Fault
  <2>7. CASE PrepareOk(r)
      BY <2>7 DEF PrepareOk, Stage, Lease
  <2>8. CASE PrepareFails(r)
      BY <2>8 DEF PrepareFails, GiveUp, Fault
  <2>9. CASE PrepareReplyLost(r)
      BY <2>9 DEF PrepareReplyLost, Stage, Lease, GiveUp, Fault
  <2>10. CASE EmptySegment(r)
      BY <2>10 DEF EmptySegment
  <2>11. CASE RegisterOk(r)
      BY <2>11 DEF RegisterOk
  <2>12. CASE RegisterFails(r)
      BY <2>12 DEF RegisterFails, Fault
  <2>13. CASE Connect(r)
      BY <2>13 DEF Connect
  <2>14. ASSUME NEW ok \in BOOLEAN, TransferEnds(r, ok) PROVE Goal
      BY <2>14 DEF TransferEnds, Fault
  <2>15. ASSUME NEW ok \in BOOLEAN, BrpcRead(r, ok) PROVE Goal
      BY <2>15 DEF BrpcRead, Fault
  <2>16. CASE ReleaseOk(r)
      BY <2>16 DEF ReleaseOk, Released
  <2>17. CASE ReleaseLost(r)
      BY <2>17 DEF ReleaseLost, Released, Fault
  <2>18. CASE Return(r)
      BY <2>18 DEF Return
  <2> QED
      BY <1>4, <2>1, <2>2, <2>3, <2>4, <2>5, <2>6, <2>7, <2>8, <2>9, <2>10, <2>11,
         <2>12, <2>13, <2>14, <2>15, <2>16, <2>17, <2>18 DEF ReaderStep
<1> QED
    BY <1>2, <1>3, <1>4 DEF Next

(* The token PrepareOk gives is above those that reads hold.               *)
LEMMA TokensDistinctStep ==
    ASSUME ThreadTypes, TokensBelow, TokensDistinct, [Next]_vars
    PROVE  TokensDistinct'
<1> SUFFICES ASSUME NEW p \in Readers, NEW q \in Readers, p # q
             PROVE  Current(p)' /\ Current(q)' => token'[p] # token'[q]
    BY DEF TokensDistinct
<1> DEFINE Goal == Current(p)' /\ Current(q)' => token'[p] # token'[q]
<1>1. /\ epoch \in Nat /\ nextToken \in Nat
      /\ pc \in [Readers -> Labels] /\ token \in [Readers -> Nat \cup {None}]
      /\ since \in [Readers -> Nat]
      /\ \A r \in Readers : since[r] <= epoch /\ (pc[r] \in Holding => token[r] \in Nat)
    BY DEF ThreadTypes, Placed
<1> USE <1>1 DEF TokensBelow, TokensDistinct, Current, Holding, Goto, clientEngine,
       service, bounds, ghost, vars, thread
<1>2. CASE UNCHANGED vars
    BY <1>2
<1>3. CASE StoreRestarts
    BY <1>3 DEF StoreRestarts, Fault
<1>4. ASSUME NEW r \in Readers, ReaderStep(r) PROVE Goal
  <2>1. ASSUME NEW b \in Batches, BatchRead(r, b) PROVE Goal
      BY <2>1 DEF BatchRead
  <2>2. CASE EnsureHixlInitialized(r)
      BY <2>2 DEF EnsureHixlInitialized
  <2>3. CASE CreateEngine(r)
      BY <2>3 DEF CreateEngine
  <2>4. CASE InitializeOk(r)
      BY <2>4 DEF InitializeOk
  <2>5. CASE InitializeFails(r)
      BY <2>5 DEF InitializeFails, GiveUp, Fault
  <2>6. CASE NoRpcClient(r)
      BY <2>6 DEF NoRpcClient, Fault
  <2>7. CASE PrepareOk(r)
      BY <2>7 DEF PrepareOk, Stage, Lease
  <2>8. CASE PrepareFails(r)
      BY <2>8 DEF PrepareFails, GiveUp, Fault
  <2>9. CASE PrepareReplyLost(r)
      BY <2>9 DEF PrepareReplyLost, Stage, Lease, GiveUp, Fault
  <2>10. CASE EmptySegment(r)
      BY <2>10 DEF EmptySegment
  <2>11. CASE RegisterOk(r)
      BY <2>11 DEF RegisterOk
  <2>12. CASE RegisterFails(r)
      BY <2>12 DEF RegisterFails, Fault
  <2>13. CASE Connect(r)
      BY <2>13 DEF Connect
  <2>14. ASSUME NEW ok \in BOOLEAN, TransferEnds(r, ok) PROVE Goal
      BY <2>14 DEF TransferEnds, Fault
  <2>15. ASSUME NEW ok \in BOOLEAN, BrpcRead(r, ok) PROVE Goal
      BY <2>15 DEF BrpcRead, Fault
  <2>16. CASE ReleaseOk(r)
      BY <2>16 DEF ReleaseOk, Released
  <2>17. CASE ReleaseLost(r)
      BY <2>17 DEF ReleaseLost, Released, Fault
  <2>18. CASE Return(r)
      BY <2>18 DEF Return
  <2> QED
      BY <1>4, <2>1, <2>2, <2>3, <2>4, <2>5, <2>6, <2>7, <2>8, <2>9, <2>10, <2>11,
         <2>12, <2>13, <2>14, <2>15, <2>16, <2>17, <2>18 DEF ReaderStep
<1> QED
    BY <1>2, <1>3, <1>4 DEF Next

(* Registrations are made under tokens that were given.                    *)
LEMMA HandlesOldStep ==
    ASSUME ThreadTypes, HandleTypes, TokensBelow, HandlesOld, [Next]_vars
    PROVE  HandlesOld'
<1> SUFFICES ASSUME NEW h \in handles'
             PROVE  \/ h.epoch < epoch'
                    \/ h.epoch = epoch' /\ h.token < nextToken'
    BY DEF HandlesOld
<1> DEFINE Goal == \/ h.epoch < epoch'
                   \/ h.epoch = epoch' /\ h.token < nextToken'
<1>1. /\ epoch \in Nat /\ nextToken \in Nat
      /\ pc \in [Readers -> Labels] /\ token \in [Readers -> Nat \cup {None}]
      /\ since \in [Readers -> Nat]
      /\ \A r \in Readers : since[r] <= epoch /\ (pc[r] \in Holding => token[r] \in Nat)
      /\ \A k \in handles : k.epoch \in Nat /\ k.token \in Nat
    BY DEF ThreadTypes, Placed, HandleTypes
<1> USE <1>1 DEF TokensBelow, HandlesOld, Current, Holding, Goto, clientEngine, service,
       bounds, ghost, vars, thread
<1>2. CASE UNCHANGED vars
    BY <1>2
<1>3. CASE StoreRestarts
  <2>1. h \in handles /\ epoch' = epoch + 1
      BY <1>3 DEF StoreRestarts
  <2>2. h.epoch \in Nat /\ h.epoch <= epoch
      BY <2>1
  <2> QED
      BY <2>1, <2>2
<1>4. ASSUME NEW r \in Readers, ReaderStep(r) PROVE Goal
  <2>1. ASSUME NEW b \in Batches, BatchRead(r, b) PROVE Goal
      BY <2>1 DEF BatchRead
  <2>2. CASE EnsureHixlInitialized(r)
      BY <2>2 DEF EnsureHixlInitialized
  <2>3. CASE CreateEngine(r)
      BY <2>3 DEF CreateEngine
  <2>4. CASE InitializeOk(r)
      BY <2>4 DEF InitializeOk
  <2>5. CASE InitializeFails(r)
      BY <2>5 DEF InitializeFails, GiveUp, Fault
  <2>6. CASE NoRpcClient(r)
      BY <2>6 DEF NoRpcClient, Fault
  <2>7. CASE PrepareOk(r)
      BY <2>7 DEF PrepareOk, Stage, Lease
  <2>8. CASE PrepareFails(r)
      BY <2>8 DEF PrepareFails, GiveUp, Fault
  <2>9. CASE PrepareReplyLost(r)
      BY <2>9 DEF PrepareReplyLost, Stage, Lease, GiveUp, Fault
  <2>10. CASE EmptySegment(r)
      BY <2>10 DEF EmptySegment
  <2>11. CASE RegisterOk(r)
    <3>1. epoch' = epoch /\ nextToken' = nextToken
        BY <2>11 DEF RegisterOk
    <3>2. CASE h \in handles
        BY <3>1, <3>2
    <3>3. CASE h \notin handles
      <4>1. h.token = token[r] /\ h.epoch = since[r]
          BY <2>11, <3>3 DEF RegisterOk
      <4>2. pc[r] \in Holding
          BY <2>11 DEF RegisterOk
      <4> QED
          BY <3>1, <4>1, <4>2
    <3> QED
        BY <3>2, <3>3
  <2>12. CASE RegisterFails(r)
      BY <2>12 DEF RegisterFails, Fault
  <2>13. CASE Connect(r)
      BY <2>13 DEF Connect
  <2>14. ASSUME NEW ok \in BOOLEAN, TransferEnds(r, ok) PROVE Goal
      BY <2>14 DEF TransferEnds, Fault
  <2>15. ASSUME NEW ok \in BOOLEAN, BrpcRead(r, ok) PROVE Goal
      BY <2>15 DEF BrpcRead, Fault
  <2>16. CASE ReleaseOk(r)
      BY <2>16 DEF ReleaseOk, Released
  <2>17. CASE ReleaseLost(r)
      BY <2>17 DEF ReleaseLost, Released, Fault
  <2>18. CASE Return(r)
      BY <2>18 DEF Return
  <2> QED
      BY <1>4, <2>1, <2>2, <2>3, <2>4, <2>5, <2>6, <2>7, <2>8, <2>9, <2>10, <2>11,
         <2>12, <2>13, <2>14, <2>15, <2>16, <2>17, <2>18 DEF ReaderStep
<1> QED
    BY <1>2, <1>3, <1>4 DEF Next

(* A lease that is not lost belongs to a read on its way to the release.   *)
LEMMA LeasesStep ==
    ASSUME ThreadTypes, LeaseTypes, LeasesAccounted, [Next]_vars
    PROVE  LeasesAccounted'
<1>1. /\ pc \in [Readers -> Labels] /\ token \in [Readers -> Nat \cup {None}]
      /\ since \in [Readers -> Nat]
      /\ \A l \in leases : l.reader \in Readers
    BY DEF ThreadTypes, LeaseTypes, Leases
<1> USE <1>1 DEF LeasesAccounted, Holding, Goto, clientEngine, service, bounds, ghost,
       vars, thread
<1>2. CASE UNCHANGED vars
    BY <1>2
<1>3. CASE StoreRestarts
    BY <1>3 DEF StoreRestarts, Fault
<1>4. ASSUME NEW r \in Readers, ReaderStep(r) PROVE LeasesAccounted'
  <2>1. ASSUME NEW b \in Batches, BatchRead(r, b) PROVE LeasesAccounted'
      BY <2>1 DEF BatchRead
  <2>2. CASE EnsureHixlInitialized(r)
      BY <2>2 DEF EnsureHixlInitialized
  <2>3. CASE CreateEngine(r)
      BY <2>3 DEF CreateEngine
  <2>4. CASE InitializeOk(r)
      BY <2>4 DEF InitializeOk
  <2>5. CASE InitializeFails(r)
      BY <2>5 DEF InitializeFails, GiveUp, Fault
  <2>6. CASE NoRpcClient(r)
      BY <2>6 DEF NoRpcClient, Fault
  <2>7. CASE PrepareOk(r)
      BY <2>7 DEF PrepareOk, Stage, Lease
  <2>8. CASE PrepareFails(r)
      BY <2>8 DEF PrepareFails, GiveUp, Fault
  <2>9. CASE PrepareReplyLost(r)
      BY <2>9 DEF PrepareReplyLost, Stage, Lease, GiveUp, Fault
  <2>10. CASE EmptySegment(r)
      BY <2>10 DEF EmptySegment
  <2>11. CASE RegisterOk(r)
      BY <2>11 DEF RegisterOk
  <2>12. CASE RegisterFails(r)
      BY <2>12 DEF RegisterFails, Fault
  <2>13. CASE Connect(r)
      BY <2>13 DEF Connect
  <2>14. ASSUME NEW ok \in BOOLEAN, TransferEnds(r, ok) PROVE LeasesAccounted'
      BY <2>14 DEF TransferEnds, Fault
  <2>15. ASSUME NEW ok \in BOOLEAN, BrpcRead(r, ok) PROVE LeasesAccounted'
      BY <2>15 DEF BrpcRead, Fault
  <2>16. CASE ReleaseOk(r)
      BY <2>16 DEF ReleaseOk, Released
  <2>17. CASE ReleaseLost(r)
      BY <2>17 DEF ReleaseLost, Released, Fault
  <2>18. CASE Return(r)
      BY <2>18 DEF Return
  <2> QED
      BY <1>4, <2>1, <2>2, <2>3, <2>4, <2>5, <2>6, <2>7, <2>8, <2>9, <2>10, <2>11,
         <2>12, <2>13, <2>14, <2>15, <2>16, <2>17, <2>18 DEF ReaderStep
<1> QED
    BY <1>2, <1>3, <1>4 DEF Next

(* A release takes the lease of another read only when the releasing read  *)
(* dates from an earlier incarnation, and then it is a clash.              *)
LEMMA LeaseHeldStep ==
    ASSUME ThreadTypes, TokensDistinct, LeaseHeld, [Next]_vars
    PROVE  LeaseHeld'
<1> SUFFICES ASSUME NEW q \in Readers, Current(q)'
             PROVE  \E l \in leases' \cup clashes' :
                       l.reader = q /\ l.token = token'[q] /\ l.epoch = since'[q]
    BY DEF LeaseHeld, Current
<1> DEFINE Goal == \E l \in leases' \cup clashes' :
                      l.reader = q /\ l.token = token'[q] /\ l.epoch = since'[q]
<1>1. /\ epoch \in Nat /\ nextToken \in Nat
      /\ pc \in [Readers -> Labels] /\ token \in [Readers -> Nat \cup {None}]
      /\ since \in [Readers -> Nat]
      /\ \A r \in Readers : since[r] <= epoch /\ (pc[r] \in Holding => token[r] \in Nat)
    BY DEF ThreadTypes, Placed
<1> USE <1>1 DEF LeaseHeld, Current, Holding, Goto, clientEngine, service, bounds,
       ghost, vars, thread
<1>2. CASE UNCHANGED vars
    BY <1>2
<1>3. CASE StoreRestarts
    BY <1>3 DEF StoreRestarts, Fault
<1>4. ASSUME NEW r \in Readers, ReaderStep(r) PROVE Goal
  <2>1. ASSUME NEW b \in Batches, BatchRead(r, b) PROVE Goal
      BY <2>1 DEF BatchRead
  <2>2. CASE EnsureHixlInitialized(r)
      BY <2>2 DEF EnsureHixlInitialized
  <2>3. CASE CreateEngine(r)
      BY <2>3 DEF CreateEngine
  <2>4. CASE InitializeOk(r)
      BY <2>4 DEF InitializeOk
  <2>5. CASE InitializeFails(r)
      BY <2>5 DEF InitializeFails, GiveUp, Fault
  <2>6. CASE NoRpcClient(r)
      BY <2>6 DEF NoRpcClient, Fault
  <2>7. CASE PrepareOk(r)
    <3>1. CASE q = r
      <4>1. Lease(r) \in leases'
          BY <2>7 DEF PrepareOk, Stage
      <4>2. /\ Lease(r).reader = q /\ Lease(r).token = nextToken /\ Lease(r).epoch = epoch
            /\ token'[q] = nextToken /\ since'[q] = epoch
          BY <2>7, <3>1 DEF PrepareOk, Lease
      <4> QED
          BY <4>1, <4>2
    <3>2. CASE q # r
        BY <2>7, <3>2 DEF PrepareOk, Stage
    <3> QED
        BY <3>1, <3>2
  <2>8. CASE PrepareFails(r)
      BY <2>8 DEF PrepareFails, GiveUp, Fault
  <2>9. CASE PrepareReplyLost(r)
      BY <2>9 DEF PrepareReplyLost, Stage, Lease, GiveUp, Fault
  <2>10. CASE EmptySegment(r)
      BY <2>10 DEF EmptySegment
  <2>11. CASE RegisterOk(r)
      BY <2>11 DEF RegisterOk
  <2>12. CASE RegisterFails(r)
      BY <2>12 DEF RegisterFails, Fault
  <2>13. CASE Connect(r)
      BY <2>13 DEF Connect
  <2>14. ASSUME NEW ok \in BOOLEAN, TransferEnds(r, ok) PROVE Goal
      BY <2>14 DEF TransferEnds, Fault
  <2>15. ASSUME NEW ok \in BOOLEAN, BrpcRead(r, ok) PROVE Goal
      BY <2>15 DEF BrpcRead, Fault
  <2>16. CASE ReleaseOk(r)
    <3>1. /\ q # r /\ pc[q] \in Holding /\ since[q] = epoch
          /\ since'[q] = since[q] /\ token'[q] = token[q]
        BY <2>16 DEF ReleaseOk
    <3>2. PICK l \in leases \cup clashes :
             l.reader = q /\ l.token = token[q] /\ l.epoch = since[q]
        BY <3>1
    <3>3. l \in leases' \cup clashes'
      <4>1. CASE l \notin Released(r)
          BY <2>16, <3>2, <4>1 DEF ReleaseOk
      <4>2. CASE l \in Released(r)
        <5>1. token[q] = token[r]
            BY <3>2, <4>2 DEF Released
        <5>2. since[r] # epoch
            BY <2>16, <3>1, <5>1 DEF ReleaseOk, TokensDistinct
        <5> QED
            BY <2>16, <3>1, <3>2, <4>2, <5>2 DEF ReleaseOk
      <4> QED
          BY <4>1, <4>2
    <3> QED
        BY <3>1, <3>2, <3>3
  <2>17. CASE ReleaseLost(r)
      BY <2>17 DEF ReleaseLost, Released, Fault
  <2>18. CASE Return(r)
      BY <2>18 DEF Return
  <2> QED
      BY <1>4, <2>1, <2>2, <2>3, <2>4, <2>5, <2>6, <2>7, <2>8, <2>9, <2>10, <2>11,
         <2>12, <2>13, <2>14, <2>15, <2>16, <2>17, <2>18 DEF ReaderStep
<1> QED
    BY <1>2, <1>3, <1>4 DEF Next

(* Registrations follow the segments of the batch.                         *)
LEMMA TrackedStep ==
    ASSUME ThreadTypes, HandleTypes, HandlesOld, HandlesTracked, [Next]_vars
    PROVE  HandlesTracked'
<1> SUFFICES ASSUME NEW q \in Readers, NEW h \in HandlesOf(q)'
             PROVE  /\ pc'[q] \in Moving => h.batch = sizes'[q] /\ h.segment < i'[q]
                    /\ pc'[q] = "release" => Abandoned(h)
    BY DEF HandlesTracked
<1> DEFINE Goal == /\ pc'[q] \in Moving => h.batch = sizes'[q] /\ h.segment < i'[q]
                   /\ pc'[q] = "release" => Abandoned(h)
<1>1. /\ epoch \in Nat /\ nextToken \in Nat
      /\ pc \in [Readers -> Labels] /\ token \in [Readers -> Nat \cup {None}]
      /\ since \in [Readers -> Nat]
      /\ \A r \in Readers : since[r] <= epoch /\ (pc[r] \in Holding => token[r] \in Nat)
      /\ sizes \in [Readers -> Batches \cup {<<>>}] /\ i \in [Readers -> Nat]
      /\ \A k \in handles : k.epoch \in Nat /\ k.token \in Nat /\ k.segment \in Nat
    BY DEF ThreadTypes, Placed, HandleTypes
<1> USE <1>1 DEF HandlesTracked, HandlesOf, Moving, Holding, Goto, clientEngine,
       service, bounds, ghost, vars, thread
<1>2. CASE UNCHANGED vars
    BY <1>2
<1>3. CASE StoreRestarts
    BY <1>3 DEF StoreRestarts, Fault
<1>4. ASSUME NEW r \in Readers, ReaderStep(r) PROVE Goal
  <2>1. ASSUME NEW b \in Batches, BatchRead(r, b) PROVE Goal
      BY <2>1 DEF BatchRead
  <2>2. CASE EnsureHixlInitialized(r)
      BY <2>2 DEF EnsureHixlInitialized
  <2>3. CASE CreateEngine(r)
      BY <2>3 DEF CreateEngine
  <2>4. CASE InitializeOk(r)
      BY <2>4 DEF InitializeOk
  <2>5. CASE InitializeFails(r)
      BY <2>5 DEF InitializeFails, GiveUp, Fault
  <2>6. CASE NoRpcClient(r)
      BY <2>6 DEF NoRpcClient, Fault
  <2>7. CASE PrepareOk(r)
    <3>1. CASE q = r
      <4>1. h \in handles /\ h.token = nextToken /\ h.epoch = epoch
          BY <2>7, <3>1 DEF PrepareOk
      <4>2. h.epoch < epoch \/ h.token < nextToken
          BY <4>1 DEF HandlesOld
      <4> QED
          BY <4>1, <4>2
    <3>2. CASE q # r
        BY <2>7, <3>2 DEF PrepareOk, Stage
    <3> QED
        BY <3>1, <3>2
  <2>8. CASE PrepareFails(r)
      BY <2>8 DEF PrepareFails, GiveUp, Fault
  <2>9. CASE PrepareReplyLost(r)
      BY <2>9 DEF PrepareReplyLost, Stage, Lease, GiveUp, Fault
  <2>10. CASE EmptySegment(r)
    <3>1. CASE q = r
      <4>1. h.batch = sizes[r] /\ h.segment < i[r]
          BY <2>10, <3>1 DEF EmptySegment
      <4>2. i[r] \in DOMAIN sizes[r] /\ sizes[r][i[r]] = 0
          BY <2>10 DEF EmptySegment, ThreadTypes, Placed
      <4>3. Abandoned(h)
          BY <4>1, <4>2 DEF Abandoned
      <4> QED
          BY <2>10, <3>1, <4>3 DEF EmptySegment
    <3>2. CASE q # r
        BY <2>10, <3>2 DEF EmptySegment
    <3> QED
        BY <3>1, <3>2
  <2>11. CASE RegisterOk(r)
    <3>1. CASE q = r
      <4>1. CASE h \in handles
          BY <2>11, <3>1, <4>1 DEF RegisterOk
      <4>2. CASE h \notin handles
        <5>1. h.batch = sizes[r] /\ h.segment = i[r]
            BY <2>11, <4>2 DEF RegisterOk
        <5>2. i'[r] = i[r] + 1 /\ sizes'[r] = sizes[r] /\ pc'[r] # "release"
            BY <2>11 DEF RegisterOk
        <5> QED
            BY <3>1, <5>1, <5>2
      <4> QED
          BY <4>1, <4>2
    <3>2. CASE q # r
        BY <2>11, <3>2 DEF RegisterOk
    <3> QED
        BY <3>1, <3>2
  <2>12. CASE RegisterFails(r)
      BY <2>12 DEF RegisterFails, Fault
  <2>13. CASE Connect(r)
      BY <2>13 DEF Connect
  <2>14. ASSUME NEW ok \in BOOLEAN, TransferEnds(r, ok) PROVE Goal
      BY <2>14 DEF TransferEnds, Fault
  <2>15. ASSUME NEW ok \in BOOLEAN, BrpcRead(r, ok) PROVE Goal
      BY <2>15 DEF BrpcRead, Fault
  <2>16. CASE ReleaseOk(r)
      BY <2>16 DEF ReleaseOk, Released
  <2>17. CASE ReleaseLost(r)
      BY <2>17 DEF ReleaseLost, Released, Fault
  <2>18. CASE Return(r)
      BY <2>18 DEF Return
  <2> QED
      BY <1>4, <2>1, <2>2, <2>3, <2>4, <2>5, <2>6, <2>7, <2>8, <2>9, <2>10, <2>11,
         <2>12, <2>13, <2>14, <2>15, <2>16, <2>17, <2>18 DEF ReaderStep
<1> QED
    BY <1>2, <1>3, <1>4 DEF Next

(* A read gives up its registrations before it stops holding its lease.    *)
LEMMA ReleasedStep ==
    ASSUME ThreadTypes, HandleTypes, HandlesTracked, HandlesReleased, [Next]_vars
    PROVE  HandlesReleased'
<1> SUFFICES ASSUME NEW h \in handles'
             PROVE  \/ /\ pc'[h.reader] \in Holding
                       /\ token'[h.reader] = h.token /\ since'[h.reader] = h.epoch
                    \/ Abandoned(h)
    BY DEF HandlesReleased, Abandoned
<1> DEFINE Goal == \/ /\ pc'[h.reader] \in Holding
                      /\ token'[h.reader] = h.token /\ since'[h.reader] = h.epoch
                   \/ Abandoned(h)
<1>1. /\ pc \in [Readers -> Labels] /\ token \in [Readers -> Nat \cup {None}]
      /\ since \in [Readers -> Nat]
      /\ \A k \in handles : k.reader \in Readers
    BY DEF ThreadTypes, Placed, HandleTypes
<1> USE <1>1 DEF HandlesTracked, HandlesReleased, HandlesOf, Abandoned, Holding, Goto,
       clientEngine, service, bounds, ghost, vars, thread
<1>2. CASE UNCHANGED vars
    BY <1>2
<1>3. CASE StoreRestarts
    BY <1>3 DEF StoreRestarts, Fault
<1>4. ASSUME NEW r \in Readers, ReaderStep(r) PROVE Goal
  <2>1. ASSUME NEW b \in Batches, BatchRead(r, b) PROVE Goal
      BY <2>1 DEF BatchRead
  <2>2. CASE EnsureHixlInitialized(r)
      BY <2>2 DEF EnsureHixlInitialized
  <2>3. CASE CreateEngine(r)
      BY <2>3 DEF CreateEngine
  <2>4. CASE InitializeOk(r)
      BY <2>4 DEF InitializeOk
  <2>5. CASE InitializeFails(r)
      BY <2>5 DEF InitializeFails, GiveUp, Fault
  <2>6. CASE NoRpcClient(r)
      BY <2>6 DEF NoRpcClient, Fault
  <2>7. CASE PrepareOk(r)
      BY <2>7 DEF PrepareOk, Stage, Lease
  <2>8. CASE PrepareFails(r)
      BY <2>8 DEF PrepareFails, GiveUp, Fault
  <2>9. CASE PrepareReplyLost(r)
      BY <2>9 DEF PrepareReplyLost, Stage, Lease, GiveUp, Fault
  <2>10. CASE EmptySegment(r)
      BY <2>10 DEF EmptySegment
  <2>11. CASE RegisterOk(r)
    <3>1. CASE h \in handles
        BY <2>11, <3>1 DEF RegisterOk
    <3>2. CASE h \notin handles
      <4>1. h.reader = r /\ h.token = token[r] /\ h.epoch = since[r]
          BY <2>11, <3>2 DEF RegisterOk
      <4>2. pc'[r] \in Holding /\ token' = token /\ since' = since
          BY <2>11 DEF RegisterOk
      <4> QED
          BY <4>1, <4>2
    <3> QED
        BY <3>1, <3>2
  <2>12. CASE RegisterFails(r)
      BY <2>12 DEF RegisterFails, Fault
  <2>13. CASE Connect(r)
      BY <2>13 DEF Connect
  <2>14. ASSUME NEW ok \in BOOLEAN, TransferEnds(r, ok) PROVE Goal
      BY <2>14 DEF TransferEnds, Fault
  <2>15. ASSUME NEW ok \in BOOLEAN, BrpcRead(r, ok) PROVE Goal
      BY <2>15 DEF BrpcRead, Fault
  <2>16. CASE ReleaseOk(r)
      BY <2>16 DEF ReleaseOk, Released
  <2>17. CASE ReleaseLost(r)
      BY <2>17 DEF ReleaseLost, Released, Fault
  <2>18. CASE Return(r)
      BY <2>18 DEF Return
  <2> QED
      BY <1>4, <2>1, <2>2, <2>3, <2>4, <2>5, <2>6, <2>7, <2>8, <2>9, <2>10, <2>11,
         <2>12, <2>13, <2>14, <2>15, <2>16, <2>17, <2>18 DEF ReaderStep
<1> QED
    BY <1>2, <1>3, <1>4 DEF Next

(* Without a race the engine changes only while no read uses it.           *)
LEMMA EngineStep ==
    ASSUME ThreadTypes, HandleTypes, HandlesOld, EngineSettled, [Next]_vars
    PROVE  EngineSettled'
<1>1. /\ epoch \in Nat /\ nextToken \in Nat
      /\ engines \in Nat /\ engine \in 0 .. engines
      /\ pc \in [Readers -> Labels] /\ token \in [Readers -> Nat \cup {None}]
      /\ since \in [Readers -> Nat]
      /\ \A r \in Readers : since[r] <= epoch /\ (pc[r] \in Holding => token[r] \in Nat)
      /\ \A k \in handles : k.epoch \in Nat /\ k.token \in Nat
    BY DEF ThreadTypes, Placed, HandleTypes
<1> USE <1>1 DEF EngineSettled, Ensuring, HandlesOf, Moving, Goto, clientEngine,
       service, bounds, ghost, vars, thread
<1>2. CASE UNCHANGED vars
    BY <1>2
<1>3. CASE StoreRestarts
    BY <1>3 DEF StoreRestarts, Fault
<1>4. ASSUME NEW r \in Readers, ReaderStep(r) PROVE EngineSettled'
  <2>1. ASSUME NEW b \in Batches, BatchRead(r, b) PROVE EngineSettled'
      BY <2>1 DEF BatchRead
  <2>2. CASE EnsureHixlInitialized(r)
      BY ZenonT(60), <2>2 DEF EnsureHixlInitialized
  <2>3. CASE CreateEngine(r)
      BY <2>3 DEF CreateEngine
  <2>4. CASE InitializeOk(r)
      BY <2>4 DEF InitializeOk
  <2>5. CASE InitializeFails(r)
      BY <2>5 DEF InitializeFails, GiveUp, Fault
  <2>6. CASE NoRpcClient(r)
      BY <2>6 DEF NoRpcClient, Fault
  <2>7. CASE PrepareOk(r)
    <3>1. \A h \in handles : ~(h.token = nextToken /\ h.epoch = epoch)
        BY DEF HandlesOld
    <3> QED
        BY <2>7, <3>1 DEF PrepareOk, Stage
  <2>8. CASE PrepareFails(r)
      BY <2>8 DEF PrepareFails, GiveUp, Fault
  <2>9. CASE PrepareReplyLost(r)
      BY <2>9 DEF PrepareReplyLost, Stage, Lease, GiveUp, Fault
  <2>10. CASE EmptySegment(r)
      BY <2>10 DEF EmptySegment
  <2>11. CASE RegisterOk(r)
      BY <2>11 DEF RegisterOk
  <2>12. CASE RegisterFails(r)
      BY <2>12 DEF RegisterFails, Fault
  <2>13. CASE Connect(r)
      BY <2>13 DEF Connect
  <2>14. ASSUME NEW ok \in BOOLEAN, TransferEnds(r, ok) PROVE EngineSettled'
      BY <2>14 DEF TransferEnds, Fault
  <2>15. ASSUME NEW ok \in BOOLEAN, BrpcRead(r, ok) PROVE EngineSettled'
      BY <2>15 DEF BrpcRead, Fault
  <2>16. CASE ReleaseOk(r)
      BY <2>16 DEF ReleaseOk, Released
  <2>17. CASE ReleaseLost(r)
      BY <2>17 DEF ReleaseLost, Released, Fault
  <2>18. CASE Return(r)
      BY <2>18 DEF Return
  <2> QED
      BY <1>4, <2>1, <2>2, <2>3, <2>4, <2>5, <2>6, <2>7, <2>8, <2>9, <2>10, <2>11,
         <2>12, <2>13, <2>14, <2>15, <2>16, <2>17, <2>18 DEF ReaderStep
<1> QED
    BY <1>2, <1>3, <1>4 DEF Next

----------------------------------------------------------------------------
(* The parts together, in the initial state and over a step. *)
LEMMA InvInit == Init => Inv
<1> SUFFICES ASSUME Init PROVE Inv
    OBVIOUS
<1>1. ThreadTypes
  <2>1. \A r \in Readers : Placed(r)
      BY DEF Init, Placed, Preparing, Moving, Holding
  <2>2. pc \in [Readers -> Labels] /\ outcome \in [Readers -> BOOLEAN \cup {None}]
      BY DEF Init, Labels
  <2>3. MaxFaults \in Nat /\ tries \in [Readers -> 0 .. MaxRetry]
      BY HixlAssumption DEF Init
  <2>4. /\ sizes \in [Readers -> Batches \cup {<<>>}] /\ i \in [Readers -> Nat]
        /\ token \in [Readers -> Nat \cup {None}] /\ since \in [Readers -> Nat]
      BY DEF Init
  <2>5. engines \in Nat /\ engine \in 0 .. engines /\ nextToken \in Nat
      BY DEF Init
  <2>6. initialized \in BOOLEAN /\ raced \in BOOLEAN
      BY DEF Init
  <2>7. epoch \in Nat /\ faults \in 0 .. MaxFaults /\ epoch <= faults
      BY <2>3 DEF Init
  <2> QED
      BY <2>1, <2>2, <2>3, <2>4, <2>5, <2>6, <2>7 DEF ThreadTypes
<1>2. LeaseTypes /\ HandleTypes
    BY DEF Init, LeaseTypes, HandleTypes
<1>3. TokensBelow /\ TokensDistinct /\ HandlesOld
    BY DEF Init, TokensBelow, TokensDistinct, HandlesOld, Current, Holding
<1>4. LeasesAccounted /\ LeaseHeld
    BY DEF Init, LeasesAccounted, LeaseHeld, Holding
<1>5. HandlesTracked /\ HandlesReleased
    BY DEF Init, HandlesTracked, HandlesReleased, HandlesOf
<1>6. EngineSettled
    BY DEF Init, EngineSettled, Ensuring, Moving, HandlesOf
<1> QED
    BY <1>1, <1>2, <1>3, <1>4, <1>5, <1>6 DEF Inv, Types, TokensFresh

LEMMA InvStep == Inv /\ [Next]_vars => Inv'
    BY ThreadTypesStep, LeaseTypesStep, HandleTypesStep, TokensBelowStep, TokensDistinctStep,
       HandlesOldStep, LeasesStep, LeaseHeldStep, TrackedStep, ReleasedStep, EngineStep
       DEF Inv, Types, TokensFresh

LEMMA Invariance == Spec => []Inv
    BY InvInit, InvStep, PTL DEF Spec

(* The variables keep their types; in particular a retried prepare never   *)
(* exceeds brpc's retries, and a read is never past its last segment.      *)
THEOREM TypeCorrect == Spec => []TypeOK
<1>1. Inv => TypeOK
  <2> SUFFICES ASSUME Inv PROVE TypeOK
      OBVIOUS
  <2>1. epoch \in 0 .. MaxFaults
      BY HixlAssumption DEF Inv, Types, ThreadTypes
  <2>2. since \in [Readers -> 0 .. epoch]
      BY DEF Inv, Types, ThreadTypes, Placed
  <2>3. leases \cup lost \cup clashes \subseteq [token : Nat, reader : Readers, epoch : 0 .. epoch]
      BY DEF Inv, Types, LeaseTypes, Leases
  <2>4. \A l \in leases : l.token < nextToken /\ l.epoch = epoch
      BY DEF Inv, Types, LeaseTypes
  <2>5. \A r \in Readers : pc[r] = "segment" => i[r] \in DOMAIN sizes[r]
      BY DEF Inv, Types, ThreadTypes, Placed
  <2> QED
      BY <2>1, <2>2, <2>3, <2>4, <2>5 DEF Inv, Types, ThreadTypes, TypeOK
<1> QED
    BY <1>1, Invariance, PTL

(* Every lease in hixl_leases_ belongs to a read that goes on to release   *)
(* it, or its token or its release was lost: no failure path of BatchRead  *)
(* forgets one, for any number of threads, retries and restarts.           *)
THEOREM LeasesAccountedHolds == Spec => []LeasesAccounted
<1>1. Inv => LeasesAccounted
    BY DEF Inv
<1> QED
    BY <1>1, Invariance, PTL

(* The staging memory of a transfer stays until the transfer is over,      *)
(* unless the store restarted or a token of an earlier incarnation clashed.*)
THEOREM TransferCoveredHolds == Spec => []TransferCovered
<1>1. Inv => TransferCovered
    BY DEF Inv, LeaseHeld, TransferCovered, Holding
<1> QED
    BY <1>1, Invariance, PTL

(* Every registration belongs to a read in progress, or an empty segment   *)
(* followed it.                                                            *)
THEOREM HandlesReleasedHolds == Spec => []HandlesReleased
<1>1. Inv => HandlesReleased
    BY DEF Inv
<1> QED
    BY <1>1, Invariance, PTL

(* Unless two threads were in EnsureHixlInitialized together, a read's     *)
(* registrations are with the engine the client still has.                 *)
THEOREM EngineAliveHolds == Spec => []EngineAlive
<1>1. Inv => EngineAlive
  <2> SUFFICES ASSUME Inv, ~raced, NEW r \in Readers,
                      pc[r] \in {"prepare", "segment", "connect", "transfer"}
               PROVE  engine # 0 /\ \A h \in HandlesOf(r) : h.engine = engine
      BY DEF EngineAlive
  <2>1. initialized /\ engine # 0
      BY DEF Inv, EngineSettled, Moving
  <2>2. CASE pc[r] \in Moving
      BY <2>1, <2>2 DEF Inv, EngineSettled
  <2>3. CASE pc[r] = "prepare"
    <3>1. token[r] = None
        BY <2>3 DEF Inv, Types, ThreadTypes, Placed, Holding
    <3>2. \A h \in handles : h.token # None
        BY HixlAssumption DEF Inv, Types, HandleTypes
    <3> QED
        BY <2>1, <3>1, <3>2 DEF HandlesOf
  <2> QED
      BY <2>2, <2>3 DEF Moving
<1> QED
    BY <1>1, Invariance, PTL
=============================================================================
