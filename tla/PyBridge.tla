------------------------------ MODULE PyBridge ------------------------------
(***************************************************************************)
(* The Python extension and its FalconKVBridge through their whole life:   *)
(* Python threads that put and forget, call synchronously or close, the    *)
(* bridge's workers, the IO pool of the store, a handler of the store's RPC*)
(* server, the background threads of client and store and the probe threads*)
(* of their scheduler proxies, all stopped by one Close; and the detached  *)
(* report threads of the store's proxy, which nobody stops.                *)
(*                                                                         *)
(* A step is a section under one lock, or the wait for one.  What an       *)
(* operation reads and writes is left out (FalconKVStore, ClientRead): it  *)
(* is one task of the IO pool and, for a put, one AsyncCommit.  Condition  *)
(* variables whose predicate only changes under their mutex are guards;    *)
(* commit_cv_, whose flag is cleared without it, is modelled as it is.     *)
(***************************************************************************)
EXTENDS Integers, Sequences, FiniteSets

CONSTANTS Callers,      \* Python threads
          Workers,      \* threads of the bridge (2)
          PoolThreads,  \* threads of IOThreadPool
          Handlers,     \* threads that serve the store's RPCs
          MaxPuts,      \* bound: calls of FireAndForgetPut
          MetaModes,    \* whether the commit thread was started (Meta connected)
          Calls,        \* the functions each Python thread calls
          Outages,      \* the proxies that found no scheduler when constructed
          None

Pollers == {"watcher", "evictor", "reaper", "reconnector"}
Committer == "committer"
ClientProber == "clientProber"
StoreProber == "storeProber"
Probers == {ClientProber, StoreProber}
Report == "report"  \* all detached report threads together

Background == Pollers \cup Probers \cup {Committer, Report}
Threads == Callers \cup Workers \cup PoolThreads \cup Handlers \cup Background
Submitters == Callers \cup Workers \cup Handlers
Ops == {"put", "sync", "close"}

ASSUME BridgeAssumption ==
    /\ MaxPuts \in Nat
    /\ MetaModes \subseteq BOOLEAN
    /\ Calls \in [Callers -> SUBSET Ops]
    /\ Outages \subseteq SUBSET Probers
    /\ None \notin Threads
    /\ Callers \cap (Workers \cup PoolThreads \cup Handlers \cup Background) = {}
    /\ Workers \cap (PoolThreads \cup Handlers \cup Background) = {}
    /\ PoolThreads \cap (Handlers \cup Background) = {}
    /\ Handlers \cap Background = {}

VARIABLES
    gil, registry,  \* holders of the GIL and of g_bridges_mutex
    registered,     \* the handle is in g_bridges
    flag,           \* per group of threads: may run (stopped_, running_, ...)
    gone,           \* objects Close has destroyed
    step,           \* next of CloseSteps
    queue,          \* task_queue_ of the bridge
    tasks,          \* task_queue_ of the IO pool: whose task
    results,        \* submitters whose future is ready
    broken,         \* submitters whose task was dropped
    commits,        \* pending_commits_ is not empty
    pc,
    job,            \* the put of a worker; whose task a pool thread runs
    puts,           \* calls of FireAndForgetPut so far
    called,         \* puts whose callback has run
    overtaken,      \* auxiliary: callers inside a call when Close began
    missed          \* auxiliary: notify_all came between a test and its sleep

vars == <<gil, registry, registered, flag, gone, step, queue, tasks, results, broken,
          commits, pc, job, puts, called, overtaken, missed>>
python == <<gil, registry, registered, overtaken>>
closing == <<flag, gone, step, missed>>
pool == <<tasks, results, broken>>
work == <<queue, job, puts, called>>

Goto(t, l) == pc' = [pc EXCEPT ![t] = l]

Members(g) ==
    CASE g = "workers" -> Workers
      [] g = "pool" -> PoolThreads
      [] g = "server" -> Handlers
      [] OTHER -> {g}

Groups == {"workers", "pool", "server"} \cup Pollers \cup Probers \cup {Committer}

(* Mutant of CloseSteps: the store's threads, pool and proxy are torn down *)
(* while its RPC server still serves reads.                                *)
CloseStepsStoreFirst ==
    << <<"drain", "workers">>, <<"signal", "workers">>, <<"join", "workers">>,
       <<"signal", "watcher">>, <<"join", "watcher">>,
       <<"signal", ClientProber>>, <<"lock", ClientProber>>, <<"join", ClientProber>>,
       <<"drop", "client">>,
       <<"signal", "evictor">>, <<"join", "evictor">>,
       <<"signal", "reaper">>, <<"join", "reaper">>, <<"drop", "pending">>,
       <<"drop", "uring">>,
       <<"signal", "pool">>, <<"join", "pool">>, <<"flush", "pool">>, <<"drop", "pool">>,
       <<"signal", StoreProber>>, <<"lock", StoreProber>>, <<"join", StoreProber>>,
       <<"drop", "proxy">>,
       <<"signal", "server">>, <<"join", "server">>,
       <<"signal", "reconnector">>, <<"join", "reconnector">>,
       <<"signal", Committer>>, <<"notify", Committer>>, <<"join", Committer>>,
       <<"drop", "meta">>, <<"drop", "index">>, <<"drop", "allocator">>, <<"drop", "files">> >>

(* Mutant of CloseSteps: the client is destroyed before the workers that   *)
(* put through it are joined.                                              *)
CloseStepsClientFirst ==
    << <<"drain", "workers">>,
       <<"signal", "watcher">>, <<"join", "watcher">>,
       <<"signal", ClientProber>>, <<"lock", ClientProber>>, <<"join", ClientProber>>,
       <<"drop", "client">>,
       <<"signal", "workers">>, <<"join", "workers">>,
       <<"signal", "server">>, <<"join", "server">>,
       <<"signal", "evictor">>, <<"join", "evictor">>,
       <<"signal", "reaper">>, <<"join", "reaper">>, <<"drop", "pending">>,
       <<"drop", "uring">>,
       <<"signal", "pool">>, <<"join", "pool">>, <<"flush", "pool">>, <<"drop", "pool">>,
       <<"signal", StoreProber>>, <<"lock", StoreProber>>, <<"join", StoreProber>>,
       <<"drop", "proxy">>,
       <<"signal", "reconnector">>, <<"join", "reconnector">>,
       <<"signal", Committer>>, <<"notify", Committer>>, <<"join", Committer>>,
       <<"drop", "meta">>, <<"drop", "index">>, <<"drop", "allocator">>, <<"drop", "files">> >>

(* Mutant of CloseSteps: the commit thread is not notified of its end. *)
CloseStepsNoNotify ==
    << <<"drain", "workers">>, <<"signal", "workers">>, <<"join", "workers">>,
       <<"signal", "watcher">>, <<"join", "watcher">>,
       <<"signal", ClientProber>>, <<"lock", ClientProber>>, <<"join", ClientProber>>,
       <<"drop", "client">>,
       <<"signal", "server">>, <<"join", "server">>,
       <<"signal", "evictor">>, <<"join", "evictor">>,
       <<"signal", "reaper">>, <<"join", "reaper">>, <<"drop", "pending">>,
       <<"drop", "uring">>,
       <<"signal", "pool">>, <<"join", "pool">>, <<"flush", "pool">>, <<"drop", "pool">>,
       <<"signal", StoreProber>>, <<"lock", StoreProber>>, <<"join", StoreProber>>,
       <<"drop", "proxy">>,
       <<"signal", "reconnector">>, <<"join", "reconnector">>,
       <<"signal", Committer>>, <<"join", Committer>>,
       <<"drop", "meta">>, <<"drop", "index">>, <<"drop", "allocator">>, <<"drop", "files">> >>

(* FalconKVBridge::Close with, up to "client", FalconKVClientImpl::Close   *)
(* and its destructor and, after "server", FalconKVStore::Close.  "files"  *)
(* are the buffer pool and the file descriptors.                           *)
CloseSteps ==
    << <<"drain", "workers">>, <<"signal", "workers">>, <<"join", "workers">>,
       <<"signal", "watcher">>, <<"join", "watcher">>,
       <<"signal", ClientProber>>, <<"lock", ClientProber>>, <<"join", ClientProber>>,
       <<"drop", "client">>,
       <<"signal", "server">>, <<"join", "server">>,
       <<"signal", "evictor">>, <<"join", "evictor">>,
       <<"signal", "reaper">>, <<"join", "reaper">>, <<"drop", "pending">>,
       <<"drop", "uring">>,
       <<"signal", "pool">>, <<"join", "pool">>, <<"flush", "pool">>, <<"drop", "pool">>,
       <<"signal", StoreProber>>, <<"lock", StoreProber>>, <<"join", StoreProber>>,
       <<"drop", "proxy">>,
       <<"signal", "reconnector">>, <<"join", "reconnector">>,
       <<"signal", Committer>>, <<"notify", Committer>>, <<"join", Committer>>,
       <<"drop", "meta">>, <<"drop", "index">>, <<"drop", "allocator">>, <<"drop", "files">> >>

Verb == CloseSteps[step][1]
Object == CloseSteps[step][2]

(* FalconKVBridge's constructor and FalconKVStore::Init: everything runs,  *)
(* except the commit thread of a store that is not connected to Meta and   *)
(* the probe of a proxy that reached the scheduler.  Only the client's     *)
(* proxy may start one later: the store's never sends a request.           *)
Init ==
  \E started \in MetaModes, outage \in Outages :
    /\ gil = None /\ registry = None
    /\ registered = TRUE
    /\ flag = [g \in Groups |-> g # Committer \/ started]
    /\ gone = {}
    /\ step = 1
    /\ queue = <<>> /\ tasks = <<>>
    /\ results = {} /\ broken = {}
    /\ commits = FALSE
    /\ pc = [t \in Threads |->
                CASE t \in PoolThreads -> "head"
                  [] t = Committer -> IF started THEN "head" ELSE "exit"
                  [] t \in outage -> "probe"
                  [] t = ClientProber -> "unborn"
                  [] t = StoreProber -> "exit"
                  [] OTHER -> "idle"]
    /\ job = [t \in Workers \cup PoolThreads |-> None]
    /\ puts = 0
    /\ called = {}
    /\ overtaken = {}
    /\ missed = FALSE

----------------------------------------------------------------------------
(* The extension's functions, entered with the GIL *)

PyCall(c, op) ==
    /\ pc[c] = "idle"
    /\ gil = None
    /\ gil' = c
    /\ Goto(c, op)
    /\ UNCHANGED <<registry, registered, overtaken, closing, work, pool, commits>>

(* handle_to_bridge waits for g_bridges_mutex and keeps the GIL meanwhile. *)
HandleToBridge(c) ==
    /\ pc[c] \in {"put", "sync"}
    /\ registry = None
    /\ IF ~registered
       THEN Goto(c, "idle") /\ gil' = None
       ELSE IF pc[c] = "put"
            THEN Goto(c, "submit") /\ UNCHANGED gil
            ELSE Goto(c, "task") /\ gil' = None
    /\ UNCHANGED <<registry, registered, overtaken, closing, work, pool, commits>>

(* FireAndForgetPut: SubmitTask, still with the GIL. *)
SubmitTask(c) ==
    /\ pc[c] = "submit"
    /\ puts < MaxPuts
    /\ puts' = puts + 1
    /\ queue' = Append(queue, puts')
    /\ gil' = None
    /\ Goto(c, "idle")
    /\ UNCHANGED <<registry, registered, overtaken, closing, job, called, pool, commits>>

(* A synchronous call takes the GIL back before it returns. *)
SyncReturns(c) ==
    /\ pc[c] = "done"
    /\ gil = None
    /\ Goto(c, "idle")
    /\ UNCHANGED <<python, closing, work, pool, commits>>

(* Inside a synchronous call, without the GIL. *)
InCall(c) == pc[c] \in {"task", "wait", "done"}

(* PyWrapper_Close takes the mutex, then gives the GIL up for Close.       *)
PyClose(c) ==
    /\ pc[c] = "close"
    /\ registry = None
    /\ gil' = None
    /\ IF registered
       THEN /\ registry' = c
            /\ overtaken' = {d \in Callers : InCall(d)}
            /\ Goto(c, "closing")
       ELSE Goto(c, "idle") /\ UNCHANGED <<registry, overtaken>>
    /\ UNCHANGED <<registered, closing, work, pool, commits>>

(* erase runs the destructor, whose Close finds the bridge stopped; the    *)
(* GIL is taken back before the mutex is released.                         *)
Erase(c) ==
    /\ pc[c] = "closing"
    /\ step > Len(CloseSteps)
    /\ registered' = FALSE
    /\ Goto(c, "closed")
    /\ UNCHANGED <<gil, registry, overtaken, closing, work, pool, commits>>

CloseReturn(c) ==
    /\ pc[c] = "closed"
    /\ gil = None
    /\ registry' = None
    /\ Goto(c, "idle")
    /\ UNCHANGED <<gil, registered, overtaken, closing, work, pool, commits>>

----------------------------------------------------------------------------
(* The steps of Close *)

Closing(c, verb) ==
    /\ pc[c] = "closing"
    /\ step <= Len(CloseSteps)
    /\ Verb = verb
    /\ step' = step + 1

DrainQueue(c) ==
    /\ Closing(c, "drain")
    /\ queue = <<>>
    /\ UNCHANGED <<python, flag, gone, missed, work, pool, commits, pc>>

(* Clear the flag of a group of threads ... *)
Signal(c) ==
    /\ Closing(c, "signal")
    /\ flag' = [flag EXCEPT ![Object] = FALSE]
    /\ UNCHANGED <<python, gone, missed, work, pool, commits, pc>>

(* ... for the commit thread, notify it: if it is not asleep yet, nothing. *)
NotifyAll(c) ==
    /\ Closing(c, "notify")
    /\ pc' = [pc EXCEPT ![Committer] = IF @ = "asleep" THEN "head" ELSE @]
    /\ missed' = (pc[Committer] = "falling")
    /\ UNCHANGED <<python, flag, gone, work, pool, commits>>

(* ... for a probe thread, take the mutex it needs to end a success, and   *)
(* keep it for the join (~SchedulerProxy).                                 *)
LockReconnect(c) ==
    /\ Closing(c, "lock")
    /\ UNCHANGED <<python, flag, gone, missed, work, pool, commits, pc>>

HasReconnectMutex(p) == step <= Len(CloseSteps) /\ CloseSteps[step] = <<"join", p>>

Running(t) == pc[t] \notin {"exit", "unborn"}

(* ... and wait until they have left; a thread never started is not joined. *)
Join(c) ==
    /\ Closing(c, "join")
    /\ \A t \in Members(Object) : ~Running(t)
    /\ UNCHANGED <<python, flag, gone, missed, work, pool, commits, pc>>

(* Tasks nobody will run are dropped, which breaks their promises. *)
FlushPool(c) ==
    /\ Closing(c, "flush")
    /\ broken' = broken \cup {tasks[i] : i \in DOMAIN tasks}
    /\ tasks' = <<>>
    /\ UNCHANGED <<python, flag, gone, missed, work, results, commits, pc>>

Drop(c) ==
    /\ Closing(c, "drop")
    /\ gone' = gone \cup {Object}
    /\ UNCHANGED <<python, flag, missed, work, pool, commits, pc>>

----------------------------------------------------------------------------
(* The bridge's workers *)

WorkerTake(w) ==
    /\ pc[w] = "idle"
    /\ queue # <<>>
    /\ job' = [job EXCEPT ![w] = Head(queue)]
    /\ queue' = Tail(queue)
    /\ Goto(w, "task")
    /\ UNCHANGED <<python, closing, puts, called, pool, commits>>

WorkerExit(w) ==
    /\ pc[w] = "idle"
    /\ ~flag["workers"] /\ queue = <<>>
    /\ Goto(w, "exit")
    /\ UNCHANGED <<python, closing, work, pool, commits>>

(* AsyncCommit after the write: the queue is filled under commit_mutex_,   *)
(* which the commit thread holds until it sleeps.                          *)
AsyncCommit(w) ==
    /\ pc[w] = "done"
    /\ pc[Committer] # "falling"
    /\ commits' = TRUE
    /\ pc' = [pc EXCEPT ![w] = "callback",
                        ![Committer] = IF @ = "asleep" THEN "head" ELSE @]
    /\ UNCHANGED <<python, closing, work, pool>>

(* Mutant of Callback: it uses the task after it was moved from. *)
CallbackAfterMove(w) ==
    /\ pc[w] = "callback"
    /\ gil = None
    /\ job' = [job EXCEPT ![w] = None]
    /\ called' = called \cup {job'[w]}
    /\ Goto(w, "idle")
    /\ UNCHANGED <<python, closing, queue, puts, pool, commits>>

(* fire_and_forget_callback takes the GIL to release the Python objects.   *)
Callback(w) ==
    /\ pc[w] = "callback"
    /\ gil = None
    /\ called' = called \cup {job[w]}
    /\ job' = [job EXCEPT ![w] = None]
    /\ Goto(w, "idle")
    /\ UNCHANGED <<python, closing, queue, puts, pool, commits>>

----------------------------------------------------------------------------
(* The store's IO pool, and the RPC handlers that read through it *)

(* An operation reaches SubmitAndWait; in a destroyed object it crashes.   *)
Submit(t) ==
    /\ pc[t] = "task"
    /\ IF "pool" \in gone \/ ("client" \in gone /\ t \notin Handlers)
       THEN Goto(t, "crashed") /\ UNCHANGED tasks
       ELSE Goto(t, "wait") /\ tasks' = Append(tasks, t)
    /\ UNCHANGED <<python, closing, work, results, broken, commits>>

Waited(t) ==
    /\ pc[t] = "wait"
    /\ t \in results
    /\ results' = results \ {t}
    /\ Goto(t, "done")
    /\ UNCHANGED <<python, closing, work, tasks, broken, commits>>

BrokenPromise(t) ==
    /\ pc[t] = "wait"
    /\ t \in broken
    /\ Goto(t, "crashed")
    /\ UNCHANGED <<python, closing, work, pool, commits>>

HandlerBegins(h) ==
    /\ pc[h] = "idle"
    /\ flag["server"]
    /\ Goto(h, "task")
    /\ UNCHANGED <<python, closing, work, pool, commits>>

(* The read is done, and StoreReportIOAsync is called: unless the proxy is *)
(* in BYPASS, a detached thread sends the report through the proxy's stub. *)
HandlerReports(h) ==
    /\ pc[h] = "wait"
    /\ h \in results
    /\ results' = results \ {h}
    /\ pc' = [pc EXCEPT ![h] = "idle",
                        ![Report] = IF pc[StoreProber] = "probe" THEN @ ELSE "send"]
    /\ UNCHANGED <<python, closing, work, tasks, broken, commits>>

(* The last report under way has been answered, or timed out. *)
ReportSent ==
    /\ pc[Report] = "send"
    /\ Goto(Report, "idle")
    /\ UNCHANGED <<python, closing, work, pool, commits>>

HandlerExit(h) ==
    /\ pc[h] = "idle"
    /\ ~flag["server"]
    /\ Goto(h, "exit")
    /\ UNCHANGED <<python, closing, work, pool, commits>>

(* WorkerLoop of the pool looks at running_ before each wait. *)
PoolHead(p) ==
    /\ pc[p] = "head"
    /\ Goto(p, IF flag["pool"] THEN "wait" ELSE "exit")
    /\ UNCHANGED <<python, closing, work, pool, commits>>

PoolTake(p) ==
    /\ pc[p] = "wait"
    /\ tasks # <<>>
    /\ job' = [job EXCEPT ![p] = Head(tasks)]
    /\ tasks' = Tail(tasks)
    /\ Goto(p, "run")
    /\ UNCHANGED <<python, closing, queue, puts, called, results, broken, commits>>

PoolLeave(p) ==
    /\ pc[p] = "wait"
    /\ tasks = <<>> /\ ~flag["pool"]
    /\ Goto(p, "exit")
    /\ UNCHANGED <<python, closing, work, pool, commits>>

PoolRun(p) ==
    /\ pc[p] = "run"
    /\ results' = results \cup {job[p]}
    /\ job' = [job EXCEPT ![p] = None]
    /\ Goto(p, "head")
    /\ UNCHANGED <<python, closing, queue, puts, called, tasks, broken, commits>>

----------------------------------------------------------------------------
(* The store's background threads *)

(* The ReconnectLoop of the client's MetaRpcClient and of MetaSyncClient,  *)
(* EvictManager and PendingEvictQueue wait with a time-out and look at     *)
(* their flag after it.                                                    *)
PollerExit(p) ==
    /\ pc[p] = "idle"
    /\ ~flag[p]
    /\ Goto(p, "exit")
    /\ UNCHANGED <<python, closing, work, pool, commits>>

(* A request or a report of an operation fails once too often: the client's*)
(* proxy starts its probe.  (A second start ends the process, see          *)
(* SchedulerProxy; one in a proxy that is being destroyed is left out.)    *)
StartReconnectProbe(t) ==
    /\ pc[t] \in {"task", "done"}
    /\ pc[ClientProber] = "unborn" /\ flag[ClientProber]
    /\ Goto(ClientProber, "probe")
    /\ UNCHANGED <<python, closing, work, pool, commits>>

(* The probe looks at stopped_ before and after its sleep ... *)
ProbeStopped(p) ==
    /\ pc[p] = "probe"
    /\ ~flag[p]
    /\ Goto(p, "exit")
    /\ UNCHANGED <<python, closing, work, pool, commits>>

(* ... and once ProbeScheduler has succeeded it clears reconnect_started_, *)
(* for which it needs the mutex.                                           *)
ProbeSucceeds(p) ==
    /\ pc[p] = "probe"
    /\ Goto(p, "probed")
    /\ UNCHANGED <<python, closing, work, pool, commits>>

ProbeEnds(p) ==
    /\ pc[p] = "probed"
    /\ ~HasReconnectMutex(p)
    /\ Goto(p, "exit")
    /\ UNCHANGED <<python, closing, work, pool, commits>>

(* AsyncCommitLoop and, under commit_mutex_, the predicate of its wait; the*)
(* mutex is held until the thread is asleep.  With a batch pending and the *)
(* flag cleared, it leaves from the loop's head, or sends after a wait.    *)
CommitHead ==
    /\ pc[Committer] = "head"
    /\ \/ ~flag[Committer] /\ Goto(Committer, "exit") /\ UNCHANGED commits
       \/ commits /\ commits' = FALSE /\ UNCHANGED pc
       \/ flag[Committer] /\ ~commits /\ Goto(Committer, "falling") /\ UNCHANGED commits
    /\ UNCHANGED <<python, closing, work, pool>>

CommitSleeps ==
    /\ pc[Committer] = "falling"
    /\ Goto(Committer, "asleep")
    /\ UNCHANGED <<python, closing, work, pool, commits>>

----------------------------------------------------------------------------
(* A put is bounded; one that waits for the mutex has been counted in. *)
MayCall(op) ==
    op = "put" => puts + Cardinality({c \in Callers : pc[c] \in {"put", "submit"}}) < MaxPuts

CloseStep(c) ==
    \/ DrainQueue(c) \/ Signal(c) \/ NotifyAll(c) \/ LockReconnect(c) \/ Join(c)
    \/ FlushPool(c) \/ Drop(c) \/ Erase(c)

CallerStep(c) ==
    \/ HandleToBridge(c) \/ SubmitTask(c) \/ PyClose(c) \/ CloseStep(c)
    \/ Submit(c) \/ Waited(c) \/ BrokenPromise(c)

WorkerStep(w) ==
    \/ WorkerTake(w) \/ WorkerExit(w) \/ Submit(w) \/ Waited(w) \/ AsyncCommit(w)

HandlerStep(h) == HandlerExit(h) \/ Submit(h) \/ HandlerReports(h)

ProbeStep(p) == ProbeStopped(p) \/ ProbeEnds(p)

PoolStep(p) == PoolHead(p) \/ PoolTake(p) \/ PoolLeave(p) \/ PoolRun(p)

CommitStep == CommitHead \/ CommitSleeps

Next ==
    \/ \E c \in Callers :
          \/ \E op \in Calls[c] : MayCall(op) /\ PyCall(c, op)
          \/ CallerStep(c) \/ SyncReturns(c) \/ CloseReturn(c)
    \/ \E w \in Workers : WorkerStep(w) \/ Callback(w)
    \/ \E h \in Handlers : HandlerBegins(h) \/ HandlerStep(h)
    \/ \E p \in PoolThreads : PoolStep(p)
    \/ \E p \in Pollers : PollerExit(p)
    \/ \E t \in Callers \cup Workers : StartReconnectProbe(t)
    \/ \E p \in Probers : ProbeStep(p) \/ ProbeSucceeds(p)
    \/ CommitStep
    \/ ReportSent

(* Threads keep running, and whoever waits for the GIL gets it in the end: *)
(* CPython makes a thread that drops it on request wait until another one  *)
(* has taken it.                                                           *)
Fairness ==
    /\ \A c \in Callers : /\ WF_vars(CallerStep(c))
                          /\ SF_vars(SyncReturns(c) \/ CloseReturn(c))
    /\ \A w \in Workers : WF_vars(WorkerStep(w)) /\ SF_vars(Callback(w))
    /\ \A h \in Handlers : WF_vars(HandlerStep(h))
    /\ \A p \in PoolThreads : WF_vars(PoolStep(p))
    /\ \A p \in Pollers : WF_vars(PollerExit(p))
    /\ \A p \in Probers : WF_vars(ProbeStep(p))
    /\ WF_vars(CommitStep)

Spec == Init /\ [][Next]_vars /\ Fairness

----------------------------------------------------------------------------
Labels == {"idle", "put", "sync", "close", "submit", "task", "wait", "done", "closing",
           "closed", "callback", "crashed", "exit", "head", "run", "falling",
           "asleep", "send", "unborn", "probe", "probed"}

TypeOK ==
    /\ gil \in Callers \cup {None} /\ registry \in Callers \cup {None}
    /\ registered \in BOOLEAN /\ commits \in BOOLEAN
    /\ flag \in [Groups -> BOOLEAN]
    /\ gone \subseteq {"client", "pending", "uring", "pool", "proxy", "meta", "index",
                      "allocator", "files"}
    /\ step \in 1 .. Len(CloseSteps) + 1
    /\ queue \in Seq(1 .. MaxPuts)
    /\ tasks \in Seq(Submitters)
    /\ results \subseteq Submitters /\ broken \subseteq Submitters
    /\ pc \in [Threads -> Labels]
    /\ job \in [Workers \cup PoolThreads -> (1 .. MaxPuts) \cup Submitters \cup {None}]
    /\ puts \in 0 .. MaxPuts
    /\ called \subseteq 1 .. MaxPuts
    /\ overtaken \subseteq Callers
    /\ missed \in BOOLEAN

(* What each thread uses between its steps. *)
Uses(t) ==
    CASE t \in Callers \cup Workers /\ InCall(t) ->
             {"client", "uring", "pool", "pending", "meta", "index", "allocator", "files"}
      [] t \in Handlers /\ pc[t] \in {"task", "wait"} ->
             {"uring", "pool", "proxy", "index", "files"}
      [] t \in PoolThreads /\ Running(t) -> {"pool", "files"}
      [] t = "watcher" /\ Running(t) -> {"client"}
      [] t = "evictor" /\ Running(t) -> {"pending", "meta", "index", "allocator"}
      [] t = "reaper" /\ Running(t) -> {"pending", "allocator"}
      [] t = "reconnector" /\ Running(t) -> {"meta", "index"}
      [] t = Committer /\ Running(t) -> {"meta"}
      [] t = ClientProber /\ Running(t) -> {"client"}
      [] t = StoreProber /\ Running(t) -> {"proxy"}
      [] t = Report /\ pc[t] = "send" -> {"proxy"}
      [] OTHER -> {}

(* Close destroys nothing under a thread that uses it, because it stops    *)
(* everybody in the right order, with two exceptions, both the code's own: *)
(* a synchronous call that was in progress when Close began, for which the *)
(* extension does not wait, and a detached report, which goes on using the *)
(* stub of the store's proxy.  A call that begins later finds no handle.   *)
NothingFreedInUse ==
    /\ \A t \in Threads : Uses(t) \cap gone # {} => t \in overtaken \cup {Report}
    /\ \A t \in Threads : pc[t] = "crashed" => t \in overtaken

(* Every put that was accepted has been written and called back before     *)
(* Close destroys the client: the Python objects it holds are released,    *)
(* also when it was queued behind a busy worker.                           *)
PutsFinished == "client" \in gone => called = 1 .. puts

(* A Python thread waits for g_bridges_mutex with the GIL, while Close     *)
(* waits for the GIL (itself, or through a callback) with the mutex.       *)
Entangled ==
    /\ registry # None /\ gil # None
    /\ pc[gil] \in {"put", "sync", "close"}

(* The commit thread found its flag still set and had not yet gone to      *)
(* sleep when StopAsyncCommitThread notified; now it sleeps for ever.      *)
MissedWakeUp == missed /\ pc[Committer] = "asleep"

(* ~SchedulerProxy joins, with the mutex, a probe that waits for the mutex. *)
ProbeStuck == \E p \in Probers : pc[p] = "probed" /\ HasReconnectMutex(p)

(* Close returns: DrainQueue ends, every thread is joined.  Three ways out *)
(* are the code's own: the GIL held by a caller that waits for the         *)
(* registry, the notification StopAsyncCommitThread sends without the      *)
(* mutex, and the mutex a scheduler proxy holds while it joins its probe.  *)
CloseReturns ==
    \A c \in Callers :
       pc[c] = "closing" ~> pc[c] = "idle" \/ Entangled \/ MissedWakeUp \/ ProbeStuck
=============================================================================
