----------------------------- MODULE ClientRead -----------------------------
(***************************************************************************)
(* The read path: threads of one client (FalconKVClientImpl with its       *)
(* KeyDescCache, MetaRpcClient, NodeLocalAccessor and remote backend) that *)
(* look keys up, keep descriptions of where they are, and read by them     *)
(* later, while the stores put, evict, reclaim, restart and talk to Meta.  *)
(*                                                                         *)
(* A store's write path is the abstraction of FalconKVStore (slots, index, *)
(* pending queue), its talk with Meta that of MetaSync: of an eviction,    *)
(* one candidate at a time.  The bytes of a key are the key itself, and    *)
(* all values have one size.  A description is never invalidated: whether  *)
(* its bytes are still there is the question.                              *)
(***************************************************************************)
EXTENDS Integers, FiniteSets, SequencesExt

CONSTANTS Threads,   \* threads of the client, or of a store's RPC server
          Keys,
          Stores,
          Evictors,  \* threads of each store that evict: EvictLoop, and puts in ForceEvict
          SlotsOf,   \* the slots of each store
          Home,      \* local_store_ of the client
          OnNode,    \* stores on the client's node
          Capacity,  \* of KeyDescCache
          Requests,  \* sequences of keys a caller may ask for
          MaxPuts, MaxEvictions, MaxCalls, MaxFaults,  \* bounds
          None

ASSUME ClientAssumption ==
    /\ Home \in OnNode /\ OnNode \subseteq Stores
    /\ SlotsOf \in [Stores -> SUBSET Nat]
    /\ Capacity \in Nat
    /\ Requests \subseteq Seq(Keys)
    /\ {MaxPuts, MaxEvictions, MaxCalls, MaxFaults} \subseteq Nat
    /\ None \notin Nat \cup [key : Keys, store : Stores, slot : Nat] \cup [store : Stores, key : Keys]

VARIABLES
    index,      \* per store: the slot of each committed key
    free,       \* per store: free slots
    pending,    \* per store: how often each slot waits in the pending queue
    bytes,      \* per store and slot: whose bytes are on the SSD
    writing,    \* writes in progress
    committing, \* commits on their way to Meta
    retrying,   \* commits that failed once
    evicting,   \* candidates of evictions, copied from the index: Meta not yet told
    removing,   \* ... or told (or the call skipped), not yet removed from the index
    meta,       \* MetaManager: where each key is
    registered, \* MetaManager: stores it has the StoreInfo of
    unsynced,   \* stores whose MetaSyncClient has connected_ unset: they will resync
    cache,      \* KeyDescCache, least recently used first
    addrs,      \* stores in store_addr_map_
    files,      \* stores in NodeLocalAccessor's store_files_
    connected,  \* of MetaRpcClient
    pc, asked, reply, found, done,
    held,       \* descriptions the last BatchExist gave to its caller
    serving,    \* the GetByKey a thread serves
    puts, evictions, calls, faults,
    lapsed,     \* ghost: places whose slot was reclaimed, or whose store restarted
    twice,      \* ghost: slots queued by an eviction whose record had gone before
    foreign,    \* ghost: keys one store removed from Meta while another had them
    overlooked  \* ghost: stores that have not resynced since Meta restarted, or since
                \* a retry set connected_ again

store == <<index, free, pending, bytes, writing>>
commits == <<committing, retrying>>
removals == <<evicting, removing>>
server == <<meta, registered>>
master == <<commits, removals, server, unsynced>>
client == <<cache, addrs, files, connected, held>>
thread == <<pc, asked, reply, found, done>>
budget == <<puts, evictions, calls, faults>>
ghost == <<lapsed, twice, foreign, overlooked>>
vars == <<store, master, client, thread, serving, budget, ghost>>

Blank == "blank"
Torn == "torn"
Failed == "failed"
Place(k, s, l) == [key |-> k, store |-> s, slot |-> l]
Places == {p \in [key : Keys, store : Stores, slot : UNION {SlotsOf[s] : s \in Stores}] :
              p.slot \in SlotsOf[p.store]}
Descs == [place : Places, type : {"local", "node", "remote"}, addr : BOOLEAN]
Desc(p, type, addr) == [place |-> p, type |-> type, addr |-> addr]
KeyOf(d) == d.place.key

Init ==
    /\ index = [s \in Stores |-> [k \in Keys |-> None]]
    /\ free = SlotsOf
    /\ pending = [s \in Stores |-> [l \in SlotsOf[s] |-> 0]]
    /\ bytes = [s \in Stores |-> [l \in SlotsOf[s] |-> Blank]]
    /\ writing = {} /\ committing = {} /\ retrying = {}
    /\ evicting = {} /\ removing = {}
    /\ meta = [k \in Keys |-> None]
    /\ registered = Stores /\ unsynced = {}
    /\ cache = <<>> /\ addrs = {} /\ files = {}
    /\ connected = TRUE
    /\ pc = [t \in Threads |-> "idle"]
    /\ asked = [t \in Threads |-> <<>>] /\ reply = [t \in Threads |-> <<>>]
    /\ found = [t \in Threads |-> {}] /\ done = [t \in Threads |-> {}]
    /\ held = {}
    /\ serving = [t \in Threads |-> None]
    /\ puts = 0 /\ evictions = 0 /\ calls = 0 /\ faults = 0
    /\ lapsed = {} /\ twice = {} /\ foreign = {} /\ overlooked = {}

Fault == faults < MaxFaults /\ faults' = faults + 1
Goto(t, l) == pc' = [pc EXCEPT ![t] = l]

----------------------------------------------------------------------------
(* KeyDescCache *)

Cached(c, k) == \E i \in DOMAIN c : KeyOf(c[i]) = k
Position(c, k) == CHOOSE i \in DOMAIN c : KeyOf(c[i]) = k
Entry(c, k) == c[Position(c, k)]
Without(c, k) == RemoveAt(c, Position(c, k))

(* Mutant of EvictIfNeeded: it makes no room for the entry to come. *)
EvictIfOver(c) ==
    IF Len(c) > Capacity THEN SubSeq(c, Len(c) - Capacity + 1, Len(c)) ELSE c

(* The front goes until there is room, or until the cache is empty. *)
EvictIfNeeded(c) ==
    LET keep == IF Capacity = 0 THEN 0 ELSE Capacity - 1
    IN  IF Len(c) > keep THEN SubSeq(c, Len(c) - keep + 1, Len(c)) ELSE c

Insert(c, d) ==
    IF Cached(c, KeyOf(d)) THEN Append(Without(c, KeyOf(d)), d)
    ELSE Append(EvictIfNeeded(c), d)

InsertAll(c, ds) ==
    LET after[i \in 0 .. Len(ds)] == IF i = 0 THEN c ELSE Insert(after[i - 1], ds[i])
    IN  after[Len(ds)]

Lookup(c, k) == IF Cached(c, k) THEN Append(Without(c, k), Entry(c, k)) ELSE c

BatchLookup(c, ks) ==
    LET after[i \in 0 .. Len(ks)] == IF i = 0 THEN c ELSE Lookup(after[i - 1], ks[i])
    IN  after[Len(ks)]

----------------------------------------------------------------------------
(* Stores, as far as readers can tell *)

(* Mutant of StartWrite: the key enters the index before it is written. *)
StartWriteIndexed(s, k, by) ==
    /\ puts < MaxPuts
    /\ index[s][k] = None
    /\ \E l \in free[s] :
          /\ writing' = writing \cup {[place |-> Place(k, s, l), by |-> by]}
          /\ free' = [free EXCEPT ![s] = @ \ {l}]
          /\ bytes' = [bytes EXCEPT ![s][l] = Torn]
          /\ index' = [index EXCEPT ![s][k] = l]
    /\ puts' = puts + 1
    /\ UNCHANGED pending

(* A put that finds no committed record takes a slot and starts to write.  *)
StartWrite(s, k, by) ==
    /\ puts < MaxPuts
    /\ index[s][k] = None
    /\ \E l \in free[s] :
          /\ writing' = writing \cup {[place |-> Place(k, s, l), by |-> by]}
          /\ free' = [free EXCEPT ![s] = @ \ {l}]
          /\ bytes' = [bytes EXCEPT ![s][l] = Torn]
    /\ puts' = puts + 1
    /\ UNCHANGED <<index, pending>>

Publish(w) ==
    LET p == w.place
    IN  /\ writing' = writing \ {w}
        /\ bytes' = [bytes EXCEPT ![p.store][p.slot] = p.key]
        /\ index' = [index EXCEPT ![p.store][p.key] = p.slot]
        /\ committing' = committing \cup {p}
        /\ UNCHANGED <<free, pending, retrying, removals, server, unsynced>>

PutElsewhere(s, k) ==
    /\ s # Home
    /\ StartWrite(s, k, None)
    /\ UNCHANGED <<master, client, thread, serving, evictions, calls, faults, ghost>>

PublishElsewhere(w) ==
    /\ w.by = None
    /\ Publish(w)
    /\ UNCHANGED <<client, thread, serving, budget, ghost>>

(* An evictor copies a record from the index: others may have the same     *)
(* candidate, and the key may be gone, or put again, when it goes on.      *)
GetLRUCandidates(s, k, e) ==
    /\ evictions < MaxEvictions /\ evictions' = evictions + 1
    /\ index[s][k] # None
    /\ \A c \in evicting \cup removing : c.by = e => c.place.store # s \/ c.place.key # k
    /\ evicting' = evicting \cup {[place |-> Place(k, s, index[s][k]), by |-> e]}
    /\ UNCHANGED <<store, commits, removing, server, unsynced, client, thread, serving,
                   puts, calls, faults, ghost>>

(* Removal: Meta first, by key, whoever the record there belongs to.       *)
Erase(s, k) ==
    /\ meta' = [meta EXCEPT ![k] = None]
    /\ foreign' = IF \E o \in Stores \ {s} : index[o][k] # None
                  THEN foreign \cup {k} ELSE foreign

SyncRemove(c) ==
    /\ c \in evicting
    /\ c.place.store \notin unsynced
    /\ Erase(c.place.store, c.place.key)
    /\ evicting' = evicting \ {c}
    /\ removing' = removing \cup {c}
    /\ UNCHANGED <<store, commits, registered, unsynced, client, thread, serving, budget,
                   lapsed, twice, overlooked>>

(* ... without a connection it is skipped and reported as done ... *)
SyncRemoveSkipped(c) ==
    /\ c \in evicting
    /\ c.place.store \in unsynced
    /\ evicting' = evicting \ {c}
    /\ removing' = removing \cup {c}
    /\ UNCHANGED <<store, commits, server, unsynced, client, thread, serving, budget, ghost>>

(* Mutant of SyncRemoveFails: the failure leaves connected_ set. *)
SyncRemoveFailsUnnoticed(c) ==
    /\ c \in evicting
    /\ c.place.store \notin unsynced
    /\ Fault
    /\ Erase(c.place.store, c.place.key) \/ UNCHANGED <<meta, foreign>>
    /\ evicting' = evicting \ {c}
    /\ UNCHANGED <<store, commits, removing, registered, unsynced, client, thread, serving,
                   puts, evictions, calls, lapsed, twice, overlooked>>

(* ... and when it fails the key stays, even if Meta has executed it.      *)
SyncRemoveFails(c) ==
    /\ c \in evicting
    /\ c.place.store \notin unsynced
    /\ Fault
    /\ Erase(c.place.store, c.place.key) \/ UNCHANGED <<meta, foreign>>
    /\ evicting' = evicting \ {c}
    /\ unsynced' = unsynced \cup {c.place.store}
    /\ UNCHANGED <<store, commits, removing, registered, client, thread, serving,
                   puts, evictions, calls, lapsed, twice, overlooked>>

(* The key leaves the index, wherever it is now, and the slot that was     *)
(* copied is queued, whether or not that record was still there.           *)
Unindex(c) ==
    LET k == c.place.key  s == c.place.store  l == c.place.slot
    IN  /\ c \in removing
        /\ removing' = removing \ {c}
        /\ index' = [index EXCEPT ![s][k] = None]
        /\ pending' = [pending EXCEPT ![s][l] = @ + 1]
        /\ twice' = IF index[s][k] = l THEN twice ELSE twice \cup {<<s, l>>}
        /\ UNCHANGED <<free, bytes, writing, commits, evicting, server, unsynced,
                       client, thread, serving, budget, lapsed, foreign, overlooked>>

(* Free, which refuses a slot that is free already. *)
Reclaim(s, l) ==
    /\ pending[s][l] > 0
    /\ pending' = [pending EXCEPT ![s][l] = @ - 1]
    /\ free' = [free EXCEPT ![s] = @ \cup {l}]
    /\ lapsed' = lapsed \cup {p \in Places : p.store = s /\ p.slot = l /\ p.key = bytes[s][l]}
    /\ UNCHANGED <<index, bytes, writing, master, client, thread, serving, budget,
                   twice, foreign, overlooked>>

(* Commits: skipped without a connection, ... *)
CommitSkipped(p) ==
    /\ p \in committing
    /\ p.store \in unsynced
    /\ committing' = committing \ {p}
    /\ UNCHANGED <<store, retrying, removals, server, unsynced, client, thread, serving,
                   budget, ghost>>

CommitOk(p) ==
    /\ p \in committing
    /\ p.store \notin unsynced
    /\ committing' = committing \ {p}
    /\ meta' = [meta EXCEPT ![p.key] = p]
    /\ UNCHANGED <<store, retrying, removals, registered, unsynced, client, thread, serving,
                   budget, ghost>>

(* ... and tried once more when the call fails, executed or not, ... *)
CommitFails(p) ==
    /\ p \in committing
    /\ p.store \notin unsynced
    /\ Fault
    /\ committing' = committing \ {p}
    /\ retrying' = retrying \cup {p}
    /\ meta' \in {meta, [meta EXCEPT ![p.key] = p]}
    /\ unsynced' = unsynced \cup {p.store}
    /\ UNCHANGED <<store, removals, registered, client, thread, serving, puts, evictions, calls, ghost>>

(* ... which sets connected_ again, so that no resync follows, or fails.   *)
RetryOk(p) ==
    /\ p \in retrying
    /\ retrying' = retrying \ {p}
    /\ meta' = [meta EXCEPT ![p.key] = p]
    /\ unsynced' = unsynced \ {p.store}
    /\ overlooked' = overlooked \cup {p.store}
    /\ UNCHANGED <<store, committing, removals, registered, client, thread, serving, budget,
                   lapsed, twice, foreign>>

RetryFails(p) ==
    /\ p \in retrying
    /\ retrying' = retrying \ {p}
    /\ meta' \in {meta, [meta EXCEPT ![p.key] = p]}
    /\ UNCHANGED <<store, committing, removals, registered, unsynced, client, thread, serving,
                   budget, ghost>>

(* The reconnect loop of a store without connection: RegisterStore, then   *)
(* every committed entry again.                                            *)
FullResync(s) ==
    /\ s \in unsynced
    /\ unsynced' = unsynced \ {s}
    /\ registered' = registered \cup {s}
    /\ committing' = committing \cup {Place(k, s, index[s][k]) : k \in {x \in Keys : index[s][x] # None}}
    /\ overlooked' = overlooked \ {s}
    /\ UNCHANGED <<store, retrying, removals, meta, client, thread, serving, budget,
                   lapsed, twice, foreign>>

(* No store is told: one that has no call fail does not resync.            *)
MetaRestarts ==
    /\ Fault
    /\ meta' = [k \in Keys |-> None]
    /\ registered' = {}
    /\ overlooked' = Stores
    /\ UNCHANGED <<store, commits, removals, unsynced, client, thread, serving, puts, evictions, calls,
                   lapsed, twice, foreign>>

(* Another store's process restarts: its index is gone, its file and its   *)
(* records in Meta are not.  It registers, or resyncs later if it cannot.  *)
StoreRestarts(s) ==
    /\ s # Home
    /\ Fault
    /\ index' = [index EXCEPT ![s] = [k \in Keys |-> None]]
    /\ free' = [free EXCEPT ![s] = SlotsOf[s]]
    /\ pending' = [pending EXCEPT ![s] = [l \in SlotsOf[s] |-> 0]]
    /\ writing' = {w \in writing : w.place.store # s}
    /\ committing' = {p \in committing : p.store # s}
    /\ retrying' = {p \in retrying : p.store # s}
    /\ evicting' = {c \in evicting : c.place.store # s}
    /\ removing' = {c \in removing : c.place.store # s}
    /\ unsynced' \in {unsynced \ {s}, unsynced \cup {s}}
    /\ registered' = registered \cup ({s} \ unsynced')
    /\ lapsed' = lapsed \cup {p \in Places : p.store = s}
    /\ twice' = {x \in twice : x[1] # s}
    /\ overlooked' = overlooked \ {s}
    /\ UNCHANGED <<bytes, meta, client, thread, serving, puts, evictions, calls, foreign>>

----------------------------------------------------------------------------
(* Lookups of the client *)

(* The keys of a request that are in S, in the order of the request. *)
Among(ks, S) ==
    LET upTo[i \in 0 .. Len(ks)] ==
            IF i = 0 THEN <<>>
            ELSE IF ks[i] \in S THEN Append(upTo[i - 1], ks[i]) ELSE upTo[i - 1]
    IN  upTo[Len(ks)]

LocalDesc(k) == Desc(Place(k, Home, index[Home][k]), "local", FALSE)

Call(t) == pc[t] = "idle" /\ calls < MaxCalls /\ calls' = calls + 1

(* BatchExist asks the local index, not the cache, and then Meta.          *)
BatchExist(t, ks) ==
    LET here == {k \in Keys : index[Home][k] # None}
        present == Among(ks, here)
        hits == [i \in DOMAIN present |-> LocalDesc(present[i])]
        misses == Among(ks, Keys \ here)
    IN  /\ Call(t)
        /\ cache' = InsertAll(cache, hits)
        /\ IF misses = <<>>
           THEN held' = Range(hits) /\ UNCHANGED <<pc, asked, found>>
           ELSE /\ Goto(t, "exist")
                /\ asked' = [asked EXCEPT ![t] = misses]
                /\ found' = [found EXCEPT ![t] = Range(hits)]
                /\ UNCHANGED held
        /\ UNCHANGED <<store, master, addrs, files, connected, reply, done, serving,
                       puts, evictions, faults, ghost>>

(* BatchGetSync takes what the cache has, asks Meta for the rest. *)
BatchGetSync(t, ks) ==
    LET misses == Among(ks, {k \in Keys : ~Cached(cache, k)})
    IN  /\ Call(t)
        /\ cache' = BatchLookup(cache, ks)
        /\ found' = [found EXCEPT ![t] = {Entry(cache, k) : k \in {x \in Range(ks) : Cached(cache, x)}}]
        /\ asked' = [asked EXCEPT ![t] = misses]
        /\ Goto(t, IF misses = <<>> THEN "get" ELSE "lookup")
        /\ UNCHANGED <<store, master, addrs, files, connected, held, reply, done, serving,
                       puts, evictions, faults, ghost>>

(* MetaManager's answer: the record, with the store's node, file and       *)
(* address if it is registered.                                            *)
Describe(p) ==
    Desc(p, IF p.store \in registered \cap OnNode THEN "node" ELSE "remote", p.store \in registered)

MetaAnswers(t) ==
    /\ pc[t] \in {"exist", "lookup"}
    /\ connected
    /\ LET hits == Among(asked[t], {k \in Keys : meta[k] # None})
       IN  reply' = [reply EXCEPT ![t] = [i \in DOMAIN hits |-> Describe(meta[hits[i]])]]
    /\ asked' = [asked EXCEPT ![t] = <<>>]
    /\ Goto(t, IF pc[t] = "exist" THEN "exist_reply" ELSE "lookup_reply")
    /\ UNCHANGED <<store, master, client, found, done, serving, budget, ghost>>

(* Go on with the descriptions in hand: return them, or read by them.      *)
LookedUp(t, ds) ==
    IF pc[t] \in {"exist", "exist_reply"}
    THEN /\ held' = ds
         /\ Goto(t, "idle")
         /\ found' = [found EXCEPT ![t] = {}]
    ELSE /\ Goto(t, "get")
         /\ found' = [found EXCEPT ![t] = ds]
         /\ UNCHANGED held

MetaReplied(t) ==
    /\ pc[t] \in {"exist_reply", "lookup_reply"}
    /\ cache' = InsertAll(cache, reply[t])
    /\ files' = files \cup {d.place.store : d \in {x \in Range(reply[t]) : x.type = "node"}}
    /\ addrs' = addrs \cup {d.place.store : d \in {x \in Range(reply[t]) : x.addr}}
    /\ LookedUp(t, found[t] \cup Range(reply[t]))
    /\ reply' = [reply EXCEPT ![t] = <<>>]
    /\ UNCHANGED <<store, master, connected, asked, done, serving, budget, ghost>>

MetaFails(t) ==
    /\ pc[t] \in {"exist", "lookup"}
    /\ connected
    /\ Fault
    /\ connected' = FALSE
    /\ asked' = [asked EXCEPT ![t] = <<>>]
    /\ LookedUp(t, found[t])
    /\ UNCHANGED <<store, master, cache, addrs, files, reply, done, serving, puts, evictions, calls, ghost>>

NotConnected(t) ==
    /\ pc[t] \in {"exist", "lookup"}
    /\ ~connected
    /\ asked' = [asked EXCEPT ![t] = <<>>]
    /\ LookedUp(t, found[t])
    /\ UNCHANGED <<store, master, cache, addrs, files, connected, reply, done, serving, budget, ghost>>

(* ReconnectLoop: TryConnect makes a new channel, which always succeeds.   *)
Reconnect ==
    /\ ~connected
    /\ connected' = TRUE
    /\ UNCHANGED <<store, master, cache, addrs, files, held, thread, serving, budget, ghost>>

----------------------------------------------------------------------------
(* Reads by description *)

BatchGet(t) ==
    /\ held # {}
    /\ Call(t)
    /\ found' = [found EXCEPT ![t] = held]
    /\ Goto(t, "get")
    /\ UNCHANGED <<store, master, client, asked, reply, done, serving, puts, evictions, faults, ghost>>

OfType(t, type) == {d \in found[t] : d.type = type}
BytesAt(d) == bytes[d.place.store][d.place.slot]

(* The descriptions ds are dealt with: the good ones have been read.       *)
Finish(t, ds, good) ==
    /\ done' = [done EXCEPT ![t] = @ \cup {[place |-> d.place, got |-> IF d \in good THEN BytesAt(d)
                                                                     ELSE Failed] : d \in ds}]
    /\ found' = [found EXCEPT ![t] = @ \ ds]
    /\ UNCHANGED <<store, master, client, pc, asked, reply, serving, puts, evictions, calls, ghost>>

(* What the three ways to read may leave as read of the descriptions ds:   *)
(* all or nothing from a store's own BatchRead, in process or by RPC; one  *)
(* status each, of those whose store has a file, from NodeLocalAccessor.   *)
StoreBatchRead(ds) == {ds, {}}
RpcBatchRead(ds) == {ds, {}}
OfKnownFile(ds) == {d \in ds : d.place.store \in files}
NodeBatchRead(ds) == {OfKnownFile(ds)} \cup {OfKnownFile(ds) \ {d} : d \in OfKnownFile(ds)}

(* Anything less than the best of these outcomes is a fault. *)
Read(t, ds, best, outcomes) ==
    \E good \in outcomes :
        /\ Finish(t, ds, good)
        /\ IF good = best THEN UNCHANGED faults ELSE Fault

(* Local reads come first.  A Get ends in this read, too: nothing keeps    *)
(* the slot it looked up from being reclaimed.                             *)
ReadLocal(t) ==
    LET ds == OfType(t, "local")
    IN  /\ pc[t] = "get" /\ ds # {}
        /\ Read(t, ds, ds, StoreBatchRead(ds))

ReadNode(t) ==
    LET ds == OfType(t, "node")
    IN  /\ pc[t] = "get" /\ OfType(t, "local") = {} /\ ds # {}
        /\ Read(t, ds, OfKnownFile(ds), NodeBatchRead(ds))

Routable(d) == d.addr \/ d.place.store \in addrs

(* One store's group of remote reads at a time, by the address of its      *)
(* first member or, failing that, of the map.                              *)
ReadRemote(t, s) ==
    LET ds == {d \in OfType(t, "remote") : d.place.store = s}
    IN  /\ pc[t] = "get" /\ OfType(t, "local") \cup OfType(t, "node") = {} /\ ds # {}
        /\ \E first \in ds :
              \/ Routable(first) /\ Read(t, ds, ds, RpcBatchRead(ds))
              \/ ~Routable(first) /\ Finish(t, ds, {}) /\ UNCHANGED faults

GetReturns(t) ==
    /\ pc[t] = "get"
    /\ found[t] = {}
    /\ Goto(t, "idle")
    /\ done' = [done EXCEPT ![t] = {}]
    /\ UNCHANGED <<store, master, client, asked, reply, found, serving, budget, ghost>>

----------------------------------------------------------------------------
(* Puts of the client, and reads by key at a store *)

BatchPut(t, k) ==
    /\ pc[t] = "idle"
    /\ StartWrite(Home, k, t)
    /\ Goto(t, "put")
    /\ UNCHANGED <<master, client, asked, reply, found, done, serving, evictions, calls, faults, ghost>>

PutReturns(t) ==
    /\ pc[t] = "put"
    /\ \E w \in writing :
          /\ w.by = t
          /\ Publish(w)
          /\ cache' = Insert(cache, Desc(w.place, "local", FALSE))
    /\ Goto(t, "idle")
    /\ UNCHANGED <<addrs, files, connected, held, asked, reply, found, done, serving, budget, ghost>>

(* A key the store has is not written again: the answer carries no offset, *)
(* and the cache keeps what it has.                                        *)
PutExisting(t, k) ==
    /\ Call(t)
    /\ index[Home][k] # None
    /\ UNCHANGED <<store, master, client, thread, serving, puts, evictions, faults, ghost>>

(* GetByKey, in a thread of a store's RPC server: BatchContains for the    *)
(* size, ...                                                               *)
ServeByKey(t, s, k) ==
    /\ Call(t)
    /\ index[s][k] # None
    /\ serving' = [serving EXCEPT ![t] = [store |-> s, key |-> k]]
    /\ Goto(t, "serve")
    /\ UNCHANGED <<store, master, client, asked, reply, found, done, puts, evictions, faults, ghost>>

(* ... then FalconKVStore::Get, which looks the key up once more, ... *)
GetLookup(t) ==
    /\ pc[t] = "serve"
    /\ LET s == serving[t].store  k == serving[t].key
       IN  /\ found' = [found EXCEPT ![t] = {Desc(Place(k, s, l), "local", FALSE) :
                                                l \in {index[s][k]} \ {None}}]
           /\ Goto(t, IF index[s][k] = None THEN "idle" ELSE "get")
    /\ serving' = [serving EXCEPT ![t] = None]
    /\ UNCHANGED <<store, master, client, asked, reply, done, budget, ghost>>

----------------------------------------------------------------------------
StoreStep(s) ==
    \/ \E k \in Keys : PutElsewhere(s, k) \/ \E e \in Evictors[s] : GetLRUCandidates(s, k, e)
    \/ \E l \in SlotsOf[s] : Reclaim(s, l)
    \/ FullResync(s) \/ StoreRestarts(s)

ThreadStep(t) ==
    \/ \E ks \in Requests : BatchExist(t, ks) \/ BatchGetSync(t, ks)
    \/ \E k \in Keys : BatchPut(t, k) \/ PutExisting(t, k)
    \/ MetaAnswers(t) \/ MetaReplied(t) \/ MetaFails(t) \/ NotConnected(t)
    \/ BatchGet(t) \/ ReadLocal(t) \/ ReadNode(t) \/ GetReturns(t) \/ PutReturns(t)
    \/ \E s \in Stores : ReadRemote(t, s) \/ \E k \in Keys : ServeByKey(t, s, k)
    \/ GetLookup(t)

Next ==
    \/ \E s \in Stores : StoreStep(s)
    \/ \E w \in writing : PublishElsewhere(w)
    \/ \E c \in evicting : SyncRemove(c) \/ SyncRemoveSkipped(c) \/ SyncRemoveFails(c)
    \/ \E c \in removing : Unindex(c)
    \/ \E p \in committing : CommitSkipped(p) \/ CommitOk(p) \/ CommitFails(p)
    \/ \E p \in retrying : RetryOk(p) \/ RetryFails(p)
    \/ MetaRestarts \/ Reconnect
    \/ \E t \in Threads : ThreadStep(t)

Spec == Init /\ [][Next]_vars

----------------------------------------------------------------------------
Contents == Keys \cup {Blank, Torn}
Candidates == {c \in [place : Places, by : UNION {Evictors[s] : s \in Stores}] :
                  c.by \in Evictors[c.place.store]}
Answers == [place : Places, got : Contents \cup {Failed}]

TypeOK ==
    /\ \A s \in Stores :
          /\ index[s] \in [Keys -> SlotsOf[s] \cup {None}]
          /\ free[s] \subseteq SlotsOf[s] /\ pending[s] \in [SlotsOf[s] -> Nat]
          /\ bytes[s] \in [SlotsOf[s] -> Contents]
    /\ writing \subseteq [place : Places, by : Threads \cup {None}]
    /\ committing \subseteq Places /\ retrying \subseteq Places
    /\ evicting \subseteq Candidates /\ removing \subseteq Candidates
    /\ meta \in [Keys -> Places \cup {None}]
    /\ {registered, unsynced, overlooked, addrs, files} \subseteq SUBSET Stores
    /\ cache \in Seq(Descs) /\ Len(cache) <= (IF Capacity = 0 THEN 1 ELSE Capacity)
    /\ connected \in BOOLEAN
    /\ held \subseteq Descs
    /\ pc \in [Threads -> {"idle", "exist", "exist_reply", "lookup", "lookup_reply", "get", "put", "serve"}]
    /\ asked \in [Threads -> Seq(Keys)] /\ reply \in [Threads -> Seq(Descs)]
    /\ found \in [Threads -> SUBSET Descs] /\ done \in [Threads -> SUBSET Answers]
    /\ serving \in [Threads -> [store : Stores, key : Keys] \cup {None}]
    /\ lapsed \subseteq Places /\ twice \subseteq Stores \X Nat /\ foreign \subseteq Keys

(* What a successful read delivers, through whatever description and by    *)
(* whatever route, are the bytes of the key, all of them, with two         *)
(* exceptions: the slot was reclaimed (or its store restarted) after the   *)
(* key was put there; or an eviction has queued the slot whose record      *)
(* another thread had removed before (EvictEntries and ForceEvict do not   *)
(* look at what Remove returns), so that it may be free and in use at a    *)
(* time.  Else a description is right when it is made, stays right through *)
(* the grace period, and no route confuses stores, slots or writes in      *)
(* progress.                                                               *)
Honest(a) ==
    a.got # Failed =>
       \/ a.got = a.place.key
       \/ a.place \in lapsed
       \/ <<a.place.store, a.place.slot>> \in twice
ReadsHonest == \A t \in Threads : \A a \in done[t] : Honest(a)

(* A committed key that Meta does not know is about to be committed or is  *)
(* being removed, or its store will resync, or overlooked that it should   *)
(* (Meta has restarted and no call of the store failed since, or a         *)
(* commit's retry set connected_ again), or the key was a duplicate:       *)
(* another store removed its own copy, and MetaManager::SyncRemove erased  *)
(* the record of this one.                                                 *)
KnownToMeta ==
    \A s \in Stores, k \in Keys :
       index[s][k] # None /\ meta[k] = None =>
          \/ Place(k, s, index[s][k]) \in committing
          \/ \E c \in removing : c.place.store = s /\ c.place.key = k
          \/ s \in unsynced \cup overlooked
          \/ k \in foreign
=============================================================================
