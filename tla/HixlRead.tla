------------------------------ MODULE HixlRead ------------------------------
(***************************************************************************)
(* Remote reads over HIXL: threads of one client (HixlRemoteReadBackend)   *)
(* ask a store to stage the bytes in registered memory under a lease       *)
(* (PrepareHixlBatchRead), fetch them with a one-sided transfer, and give  *)
(* the lease back (ReleaseHixlRead).  RPCs are lost before or after they   *)
(* ran, the transport fails, and the store's process restarts.             *)
(*                                                                         *)
(* What is in the bytes is ClientRead's subject; here it is who owns the   *)
(* staging memory, the registrations and the client's engine.  The handler *)
(* of an RPC takes the store's hixl_mutex_ for all it does to leases, so   *)
(* it is one step; EnsureHixlInitialized of the client has no lock.        *)
(***************************************************************************)
EXTENDS Integers, Sequences, FiniteSets

CONSTANTS Readers,    \* threads of the client
          Batches,    \* segment sizes a reader may ask for; BatchGet asks a store
                      \* only when it has a segment for it
          Fallback,   \* hixl_fallback_to_brpc
          MaxRetry,   \* brpc's max_retry (1)
          MaxReads, MaxFaults,  \* bounds
          None

ASSUME HixlAssumption ==
    /\ Batches \subseteq Seq(Nat) \ {<<>>}
    /\ Fallback \in BOOLEAN
    /\ None \notin Nat
    /\ {MaxRetry, MaxReads, MaxFaults} \subseteq Nat

VARIABLES
    engine,      \* the client's hixl_engine_: a serial number, 0 is null
    engines,     \* engines made so far
    initialized, \* hixl_initialized_
    leases,      \* hixl_leases_ of the store
    nextToken,   \* hixl_next_token_
    epoch,       \* incarnations of the store before this one
    pc, sizes, i, token, since, outcome, tries,
    handles,     \* the client's registrations
    reads, faults,
    lost,        \* ghost: leases whose token, or whose release, got lost
    raced,       \* ghost: two threads were in EnsureHixlInitialized together
    clashes      \* ghost: leases released under a token of an earlier incarnation

clientEngine == <<engine, engines, initialized>>
service == <<leases, nextToken, epoch>>
thread == <<pc, sizes, i, token, since, outcome, tries>>
bounds == <<reads, faults>>
ghost == <<lost, raced, clashes>>
vars == <<clientEngine, service, thread, handles, bounds, ghost>>

Goto(r, l) == pc' = [pc EXCEPT ![r] = l]
Fault == faults < MaxFaults /\ faults' = faults + 1

Init ==
    /\ engine = 0 /\ engines = 0 /\ initialized = FALSE
    /\ leases = {} /\ nextToken = 1 /\ epoch = 0
    /\ pc = [r \in Readers |-> "idle"]
    /\ sizes = [r \in Readers |-> <<>>]
    /\ i = [r \in Readers |-> 1]
    /\ token = [r \in Readers |-> None]
    /\ since = [r \in Readers |-> 0]
    /\ outcome = [r \in Readers |-> None]
    /\ tries = [r \in Readers |-> 0]
    /\ handles = {}
    /\ reads = 0 /\ faults = 0
    /\ lost = {} /\ raced = FALSE /\ clashes = {}

----------------------------------------------------------------------------
(* EnsureHixlInitialized of the client *)

BatchRead(r, b) ==
    /\ pc[r] = "idle"
    /\ reads < MaxReads
    /\ reads' = reads + 1
    /\ sizes' = [sizes EXCEPT ![r] = b]
    /\ i' = [i EXCEPT ![r] = 1]
    /\ outcome' = [outcome EXCEPT ![r] = None]
    /\ tries' = [tries EXCEPT ![r] = 0]
    /\ Goto(r, "ensure")
    /\ UNCHANGED <<clientEngine, service, token, since, handles, faults, ghost>>

Ensuring == {r \in Readers : pc[r] \in {"create", "initialize"}}

EnsureHixlInitialized(r) ==
    /\ pc[r] = "ensure"
    /\ Goto(r, IF initialized THEN "prepare" ELSE "create")
    /\ raced' = (raced \/ (~initialized /\ Ensuring # {}))
    /\ UNCHANGED <<clientEngine, service, sizes, i, token, since, outcome, tries, handles,
                   bounds, lost, clashes>>

(* Mutant of CreateEngine: the flag is set before Initialize has answered. *)
CreateEngineFlagged(r) ==
    /\ pc[r] = "create"
    /\ engines' = engines + 1
    /\ engine' = engines'
    /\ initialized' = TRUE
    /\ Goto(r, "initialize")
    /\ UNCHANGED <<service, sizes, i, token, since, outcome, tries, handles, bounds, ghost>>

(* A new engine takes the place of the one that may be there, ... *)
CreateEngine(r) ==
    /\ pc[r] = "create"
    /\ engines' = engines + 1
    /\ engine' = engines'
    /\ Goto(r, "initialize")
    /\ UNCHANGED <<initialized, service, sizes, i, token, since, outcome, tries, handles,
                   bounds, ghost>>

InitializeOk(r) ==
    /\ pc[r] = "initialize"
    /\ initialized' = TRUE
    /\ Goto(r, "prepare")
    /\ UNCHANGED <<engine, engines, service, sizes, i, token, since, outcome, tries, handles,
                   bounds, ghost>>

(* Without HIXL the read goes over brpc, if the configuration allows it.   *)
GiveUp(r) == Goto(r, IF Fallback THEN "brpc" ELSE "return")

(* ... and is taken away again when it does not initialize. *)
InitializeFails(r) ==
    /\ pc[r] = "initialize"
    /\ Fault
    /\ engine' = 0
    /\ GiveUp(r)
    /\ UNCHANGED <<engines, initialized, service, sizes, i, token, since, outcome, tries,
                   handles, reads, ghost>>

----------------------------------------------------------------------------
(* PrepareHixlBatchRead *)

Lease(r) == [token |-> nextToken, reader |-> r, epoch |-> epoch]

(* Mutant of Stage: the token counter does not move. *)
StageSameToken(r) ==
    /\ leases' = leases \cup {Lease(r)}
    /\ UNCHANGED <<nextToken, epoch>>

(* The store stages the segments and hands out the next token. *)
Stage(r) ==
    /\ leases' = leases \cup {Lease(r)}
    /\ nextToken' = nextToken + 1
    /\ UNCHANGED epoch

PrepareOk(r) ==
    /\ pc[r] = "prepare"
    /\ Stage(r)
    /\ token' = [token EXCEPT ![r] = nextToken]
    /\ since' = [since EXCEPT ![r] = epoch]
    /\ Goto(r, "segment")
    /\ UNCHANGED <<clientEngine, sizes, i, outcome, tries, handles, bounds, ghost>>

(* GetOrCreate has no RPC client for the store: there is no falling back.  *)
NoRpcClient(r) ==
    /\ pc[r] = "prepare"
    /\ tries[r] = 0
    /\ Fault
    /\ Goto(r, "return")
    /\ UNCHANGED <<clientEngine, service, sizes, i, token, since, outcome, tries, handles,
                   reads, ghost>>

(* The store cannot allocate, read or register: it frees what it had; or   *)
(* the request never arrived.                                              *)
PrepareFails(r) ==
    /\ pc[r] = "prepare"
    /\ Fault
    /\ GiveUp(r)
    /\ UNCHANGED <<clientEngine, service, sizes, i, token, since, outcome, tries, handles,
                   reads, ghost>>

(* Mutant of PrepareReplyLost: one retry too many. *)
PrepareReplyLostOnceMore(r) ==
    /\ pc[r] = "prepare"
    /\ Fault
    /\ Stage(r)
    /\ lost' = lost \cup {Lease(r)}
    /\ IF tries[r] <= MaxRetry
       THEN tries' = [tries EXCEPT ![r] = @ + 1] /\ UNCHANGED pc
       ELSE GiveUp(r) /\ UNCHANGED tries
    /\ UNCHANGED <<clientEngine, sizes, i, token, since, outcome, handles, reads, raced, clashes>>

(* The connection breaks after the store has staged: brpc tries once more, *)
(* and nobody knows the token.                                             *)
PrepareReplyLost(r) ==
    /\ pc[r] = "prepare"
    /\ Fault
    /\ Stage(r)
    /\ lost' = lost \cup {Lease(r)}
    /\ IF tries[r] < MaxRetry
       THEN tries' = [tries EXCEPT ![r] = @ + 1] /\ UNCHANGED pc
       ELSE GiveUp(r) /\ UNCHANGED tries
    /\ UNCHANGED <<clientEngine, sizes, i, token, since, outcome, handles, reads, raced, clashes>>

----------------------------------------------------------------------------
(* Local registrations, transfer, release *)

(* An invalid (empty) segment ends the read: the lease goes back, the      *)
(* registrations made so far do not.                                       *)
EmptySegment(r) ==
    /\ pc[r] = "segment"
    /\ sizes[r][i[r]] = 0
    /\ Goto(r, "release")
    /\ UNCHANGED <<clientEngine, service, sizes, i, token, since, outcome, tries, handles,
                   bounds, ghost>>

HandlesOf(r) == {h \in handles : h.reader = r /\ h.token = token[r] /\ h.epoch = since[r]}

RegisterOk(r) ==
    /\ pc[r] = "segment"
    /\ sizes[r][i[r]] # 0
    /\ handles' = handles \cup {[reader |-> r, token |-> token[r], epoch |-> since[r],
                                 segment |-> i[r], batch |-> sizes[r], engine |-> engine]}
    /\ i' = [i EXCEPT ![r] = @ + 1]
    /\ Goto(r, IF i[r] = Len(sizes[r]) THEN "connect" ELSE "segment")
    /\ UNCHANGED <<clientEngine, service, sizes, token, since, outcome, tries, bounds, ghost>>

(* Mutant of RegisterFails: the early return forgets the lease. *)
RegisterFailsUnreleased(r) ==
    /\ pc[r] \in {"segment", "connect"}
    /\ pc[r] = "segment" => sizes[r][i[r]] # 0
    /\ Fault
    /\ handles' = handles \ HandlesOf(r)
    /\ Goto(r, "return")
    /\ UNCHANGED <<clientEngine, service, sizes, i, token, since, outcome, tries, reads, ghost>>

(* RegisterMem or Connect fails: everything is undone. *)
RegisterFails(r) ==
    /\ pc[r] \in {"segment", "connect"}
    /\ pc[r] = "segment" => sizes[r][i[r]] # 0
    /\ Fault
    /\ handles' = handles \ HandlesOf(r)
    /\ Goto(r, "release")
    /\ UNCHANGED <<clientEngine, service, sizes, i, token, since, outcome, tries, reads, ghost>>

Connect(r) ==
    /\ pc[r] = "connect"
    /\ Goto(r, "transfer")
    /\ UNCHANGED <<clientEngine, service, sizes, i, token, since, outcome, tries, handles,
                   bounds, ghost>>

(* Mutant of TransferEnds: a transfer that failed keeps its registrations. *)
TransferEndsEarly(r, ok) ==
    /\ pc[r] = "transfer"
    /\ ok \/ Fault
    /\ ok => UNCHANGED faults
    /\ handles' = IF ok THEN handles \ HandlesOf(r) ELSE handles
    /\ outcome' = [outcome EXCEPT ![r] = ok]
    /\ Goto(r, "release")
    /\ UNCHANGED <<clientEngine, service, sizes, i, token, since, tries, reads, ghost>>

TransferEnds(r, ok) ==
    /\ pc[r] = "transfer"
    /\ ok \/ Fault
    /\ ok => UNCHANGED faults
    /\ handles' = handles \ HandlesOf(r)
    /\ outcome' = [outcome EXCEPT ![r] = ok]
    /\ Goto(r, "release")
    /\ UNCHANGED <<clientEngine, service, sizes, i, token, since, tries, reads, ghost>>

Released(r) == {l \in leases : l.token = token[r]}

(* ReleaseHixlRead finds the lease by its token alone. *)
ReleaseOk(r) ==
    /\ pc[r] = "release"
    /\ leases' = leases \ Released(r)
    /\ clashes' = clashes \cup {l \in Released(r) : l.epoch # since[r]}
    /\ Goto(r, "return")
    /\ UNCHANGED <<clientEngine, nextToken, epoch, sizes, i, token, since, outcome, tries,
                   handles, bounds, lost, raced>>

(* A lost release is only logged. *)
ReleaseLost(r) ==
    /\ pc[r] = "release"
    /\ Fault
    /\ lost' = lost \cup {l \in Released(r) : l.reader = r}
    /\ Goto(r, "return")
    /\ UNCHANGED <<clientEngine, service, sizes, i, token, since, outcome, tries, handles, reads,
                   raced, clashes>>

(* BrpcRemoteReadBackend::BatchRead: all segments, or none. *)
BrpcRead(r, ok) ==
    /\ pc[r] = "brpc"
    /\ ok \/ Fault
    /\ ok => UNCHANGED faults
    /\ outcome' = [outcome EXCEPT ![r] = ok]
    /\ Goto(r, "return")
    /\ UNCHANGED <<clientEngine, service, sizes, i, token, since, tries, handles, reads, ghost>>

Return(r) ==
    /\ pc[r] = "return"
    /\ token' = [token EXCEPT ![r] = None]
    /\ Goto(r, "idle")
    /\ UNCHANGED <<clientEngine, service, sizes, i, since, outcome, tries, handles, bounds, ghost>>

----------------------------------------------------------------------------
(* The store's process ends, which frees every lease, and starts again:    *)
(* tokens count from 1.                                                    *)
StoreRestarts ==
    /\ Fault
    /\ leases' = {} /\ nextToken' = 1 /\ epoch' = epoch + 1
    /\ UNCHANGED <<clientEngine, thread, handles, reads, ghost>>

ReaderStep(r) ==
    \/ \E b \in Batches : BatchRead(r, b)
    \/ EnsureHixlInitialized(r) \/ CreateEngine(r) \/ InitializeOk(r) \/ InitializeFails(r)
    \/ NoRpcClient(r) \/ PrepareOk(r) \/ PrepareFails(r) \/ PrepareReplyLost(r)
    \/ EmptySegment(r) \/ RegisterOk(r) \/ RegisterFails(r) \/ Connect(r)
    \/ \E ok \in BOOLEAN : TransferEnds(r, ok) \/ BrpcRead(r, ok)
    \/ ReleaseOk(r) \/ ReleaseLost(r) \/ Return(r)

Next == StoreRestarts \/ \E r \in Readers : ReaderStep(r)

Spec == Init /\ [][Next]_vars

----------------------------------------------------------------------------
Labels == {"idle", "ensure", "create", "initialize", "prepare", "segment", "connect", "transfer",
           "release", "brpc", "return"}

TypeOK ==
    /\ engines \in Nat /\ engine \in 0 .. engines
    /\ initialized \in BOOLEAN
    /\ leases \cup lost \cup clashes \subseteq [token : Nat, reader : Readers, epoch : 0 .. epoch]
    /\ epoch \in 0 .. MaxFaults
    /\ \A l \in leases : l.token < nextToken /\ l.epoch = epoch
    /\ pc \in [Readers -> Labels]
    /\ sizes \in [Readers -> Batches \cup {<<>>}]
    /\ \A r \in Readers : pc[r] = "segment" => i[r] \in DOMAIN sizes[r]
    /\ since \in [Readers -> 0 .. epoch]
    /\ outcome \in [Readers -> BOOLEAN \cup {None}]
    /\ tries \in [Readers -> 0 .. MaxRetry]
    /\ raced \in BOOLEAN

Holding == {"segment", "connect", "transfer", "release"}

(* Every lease the store keeps belongs to a read that is still going on    *)
(* and will release it, whichever way the read fails; only a lost message  *)
(* leaves one behind (for as long as the store lives).                     *)
LeasesAccounted ==
    \A l \in leases \ lost :
       pc[l.reader] \in Holding /\ token[l.reader] = l.token /\ since[l.reader] = l.epoch

(* The staging memory of a transfer is there until the transfer is over:   *)
(* it is released by its own reader, afterwards.  The exceptions are a     *)
(* store that restarted meanwhile, and a token that an earlier incarnation *)
(* gave to a read whose release comes late.                                *)
TransferCovered ==
    \A r \in Readers :
       pc[r] = "transfer" =>
          \/ since[r] # epoch
          \/ \E l \in leases \cup clashes : l.reader = r /\ l.token = token[r] /\ l.epoch = since[r]

(* No read leaves a registration of the caller's buffer behind, except one *)
(* that met an empty segment after others: such a read returns without     *)
(* DeregisterMem.                                                          *)
HandlesReleased ==
    \A h \in handles :
       \/ pc[h.reader] \in Holding /\ token[h.reader] = h.token /\ since[h.reader] = h.epoch
       \/ \E j \in DOMAIN h.batch : j > h.segment /\ h.batch[j] = 0

(* As long as the first reads do not overlap in EnsureHixlInitialized, the *)
(* engine a read registered its buffers with is still the client's engine  *)
(* when the read uses it.                                                  *)
EngineAlive ==
    ~raced =>
       \A r \in Readers :
          pc[r] \in {"prepare", "segment", "connect", "transfer"} =>
             engine # 0 /\ \A h \in HandlesOf(r) : h.engine = engine
=============================================================================
