--------------------------- MODULE PyBridgeProofs ---------------------------
(***************************************************************************)
(* Proofs about PyBridge for any numbers of Python threads, workers, pool  *)
(* threads, RPC handlers and puts.  Fairness plays no part in them.        *)
(*                                                                         *)
(* That nothing is freed in use is a fact about the order of Close: what   *)
(* CloseSteps has passed is recorded in the state (JoinedExited: threads   *)
(* once joined have left for good; GoneDropped: an object is gone only     *)
(* after its step), and the table joins the users of an object before it   *)
(* drops the object (UsersJoinedFirst).  A probe thread not yet started    *)
(* stays so once its proxy is stopped (ProbeOver), and a Python thread     *)
(* that is inside a call once Close has begun was so before (Intruders).   *)
(*                                                                         *)
(* That no put is forgotten needs the two locks: whoever submits holds the *)
(* GIL and saw the handle registered, so nobody does once Close has the    *)
(* registry (GilKept, RegistryKept); the queue Close has drained stays     *)
(* empty (Drained), and every put is in the queue, with a worker, or       *)
(* called back (Accounted).                                                *)
(***************************************************************************)
EXTENDS PyBridge, SequenceTheorems, TLAPS

Objects == {"client", "pending", "uring", "pool", "proxy", "meta", "index", "allocator",
            "files"}

(* The type invariant, with what a busy pool thread has for a job. *)
Types ==
    /\ TypeOK
    /\ \A p \in PoolThreads : pc[p] = "run" => job[p] \in Submitters

JoinedExited ==
    \A j \in DOMAIN CloseSteps :
       j < step /\ CloseSteps[j][1] = "join" =>
          \A t \in Members(CloseSteps[j][2]) : ~Running(t)

(* ~SchedulerProxy of the client sets stopped_ in the sixth step. *)
ProbeOver == step > 6 => ~flag[ClientProber]

GoneDropped ==
    \A o \in gone : \E j \in DOMAIN CloseSteps : j < step /\ CloseSteps[j] = <<"drop", o>>

(* A Python thread keeps the GIL until the extension gives it up. *)
GilKept == \A c \in Callers : pc[c] \in {"put", "sync", "close", "submit"} => gil = c

(* A handle that is being closed, or was, is not given out for a put.      *)
RegistryKept ==
    /\ \A c \in Callers : /\ pc[c] \in {"closing", "closed"} => registry = c
                          /\ pc[c] = "closed" => ~registered
                          /\ pc[c] = "submit" => registry = None /\ registered
    /\ step > 1 => registry # None \/ ~registered

Drained == step > 1 => queue = <<>>

(* Workers between taking a put and calling back. *)
Holders == {w \in Workers : pc[w] \notin {"idle", "exit", "unborn"}}
Queued == {queue[i] : i \in DOMAIN queue}

Accounted == called \cup Queued \cup {job[w] : w \in Holders} = 1 .. puts

(* Who is inside a call while Close runs, or after it, was so before.      *)
Intruders ==
    registry # None \/ ~registered => \A c \in Callers : InCall(c) => c \in overtaken

(* Close names whom it overtakes when it begins. *)
NoneOvertaken == registry = None /\ registered => overtaken = {}

(* Tasks are dropped by Close only. *)
BrokenLate == broken # {} => step > 1

(* Nobody else enters a destroyed object. *)
NoneCrashed == \A t \in Threads : pc[t] = "crashed" => t \in overtaken

Inv ==
    /\ Types /\ JoinedExited /\ ProbeOver /\ GoneDropped /\ GilKept /\ RegistryKept
    /\ Drained /\ Accounted /\ Intruders /\ NoneOvertaken /\ BrokenLate
    /\ NoneCrashed

----------------------------------------------------------------------------
(* CloseSteps, one by one. *)
LEMMA CloseTable ==
    /\ Len(CloseSteps) = 34 /\ DOMAIN CloseSteps = 1 .. 34
    /\ CloseSteps[1] = <<"drain", "workers">> /\ CloseSteps[2] = <<"signal", "workers">>
    /\ CloseSteps[3] = <<"join", "workers">> /\ CloseSteps[4] = <<"signal", "watcher">>
    /\ CloseSteps[5] = <<"join", "watcher">> /\ CloseSteps[6] = <<"signal", ClientProber>>
    /\ CloseSteps[7] = <<"lock", ClientProber>> /\ CloseSteps[8] = <<"join", ClientProber>>
    /\ CloseSteps[9] = <<"drop", "client">> /\ CloseSteps[10] = <<"signal", "server">>
    /\ CloseSteps[11] = <<"join", "server">> /\ CloseSteps[12] = <<"signal", "evictor">>
    /\ CloseSteps[13] = <<"join", "evictor">> /\ CloseSteps[14] = <<"signal", "reaper">>
    /\ CloseSteps[15] = <<"join", "reaper">> /\ CloseSteps[16] = <<"drop", "pending">>
    /\ CloseSteps[17] = <<"drop", "uring">> /\ CloseSteps[18] = <<"signal", "pool">>
    /\ CloseSteps[19] = <<"join", "pool">> /\ CloseSteps[20] = <<"flush", "pool">>
    /\ CloseSteps[21] = <<"drop", "pool">> /\ CloseSteps[22] = <<"signal", StoreProber>>
    /\ CloseSteps[23] = <<"lock", StoreProber>> /\ CloseSteps[24] = <<"join", StoreProber>>
    /\ CloseSteps[25] = <<"drop", "proxy">> /\ CloseSteps[26] = <<"signal", "reconnector">>
    /\ CloseSteps[27] = <<"join", "reconnector">> /\ CloseSteps[28] = <<"signal", Committer>>
    /\ CloseSteps[29] = <<"notify", Committer>> /\ CloseSteps[30] = <<"join", Committer>>
    /\ CloseSteps[31] = <<"drop", "meta">> /\ CloseSteps[32] = <<"drop", "index">>
    /\ CloseSteps[33] = <<"drop", "allocator">> /\ CloseSteps[34] = <<"drop", "files">>
    BY DEF CloseSteps

(* The objects dropped, and the places where they are dropped. *)
LEMMA Drops ==
    ASSUME NEW j \in DOMAIN CloseSteps, NEW o, CloseSteps[j] = <<"drop", o>>
    PROVE  /\ o \in Objects
           /\ o = "client" => j = 9
           /\ o = "pending" => j = 16
           /\ o = "uring" => j = 17
           /\ o = "pool" => j = 21
           /\ o = "proxy" => j = 25
           /\ o \in {"meta", "index", "allocator", "files"} => j > 30
<1>1. CloseSteps[j][1] = "drop" /\ CloseSteps[j][2] = o
    OBVIOUS
<1>2. j \in 1 .. 34
    BY CloseTable
<1>3. j \in {9, 16, 17, 21, 25, 31, 32, 33, 34}
    BY <1>1, <1>2, CloseTable
<1> QED
    BY <1>1, <1>3, CloseTable DEF Objects

----------------------------------------------------------------------------
(* The next step of Close is one of them, or they are done. *)
LEMMA StepRange == Types => step \in 1 .. 35
<1>1. TypeOK => step \in 1 .. Len(CloseSteps) + 1
    BY DEF TypeOK
<1> QED
    BY <1>1, CloseTable DEF Types

(* The kinds of threads are different threads. *)
LEMMA Kinds ==
    /\ \A c \in Callers : c \notin Workers \cup PoolThreads \cup Handlers \cup Background /\ c # None
    /\ \A w \in Workers : w \notin PoolThreads \cup Handlers \cup Background
    /\ \A p \in PoolThreads : p \notin Handlers \cup Background
    /\ \A h \in Handlers : h \notin Background
    /\ Committer \notin Pollers \cup Probers \cup {Report}
    /\ Report \notin Pollers \cup Probers
    /\ \A p \in Pollers : p \notin Probers
    /\ Pollers \subseteq Background /\ Probers \subseteq Background
    /\ Committer \in Background /\ Report \in Background
    /\ ClientProber \in Probers /\ StoreProber \in Probers /\ ClientProber # StoreProber
    BY BridgeAssumption DEF Threads, Background, Pollers, Probers, Committer, Report,
       ClientProber, StoreProber

(* Steps that leave the extension, Close and the accounts of the puts be.  *)
Quiet ==
    \/ \E t \in Submitters : Submit(t) \/ Waited(t)
    \/ \E c \in Callers : BrokenPromise(c)
    \/ \E w \in Workers : WorkerExit(w) \/ AsyncCommit(w)
    \/ \E h \in Handlers : HandlerBegins(h) \/ HandlerExit(h) \/ HandlerReports(h)
    \/ \E p \in PoolThreads : PoolStep(p)
    \/ \E p \in Pollers : PollerExit(p)
    \/ \E t \in Callers \cup Workers : StartReconnectProbe(t)
    \/ \E p \in Probers : ProbeStep(p) \/ ProbeSucceeds(p)
    \/ CommitStep
    \/ ReportSent
    \/ UNCHANGED vars

(* Steps of the extension's functions, and of Close. *)
Python(c) ==
    \/ \E op \in Ops : PyCall(c, op)
    \/ HandleToBridge(c) \/ SubmitTask(c) \/ PyClose(c) \/ Erase(c)
    \/ SyncReturns(c) \/ CloseReturn(c)

Closes(c) ==
    \/ DrainQueue(c) \/ Signal(c) \/ NotifyAll(c) \/ LockReconnect(c) \/ Join(c)
    \/ FlushPool(c) \/ Drop(c)

LEMMA StepCases ==
    ASSUME [Next]_vars
    PROVE  \/ Quiet
           \/ \E c \in Callers : Python(c) \/ Closes(c)
           \/ \E w \in Workers : WorkerTake(w) \/ Callback(w)
<1>1. CASE UNCHANGED vars
    BY <1>1 DEF Quiet
<1>2. ASSUME NEW c \in Callers,
             (\E op \in Calls[c] : MayCall(op) /\ PyCall(c, op))
                \/ CallerStep(c) \/ SyncReturns(c) \/ CloseReturn(c)
      PROVE  Quiet \/ Python(c) \/ Closes(c)
  <2>1. Calls[c] \subseteq Ops
      BY BridgeAssumption
  <2> QED
      BY <1>2, <2>1 DEF CallerStep, CloseStep, Python, Closes, Quiet, Submitters
<1>3. ASSUME NEW w \in Workers, WorkerStep(w) \/ Callback(w)
      PROVE  Quiet \/ WorkerTake(w) \/ Callback(w)
    BY <1>3 DEF WorkerStep, Quiet, Submitters
<1>4. ASSUME NEW h \in Handlers, HandlerBegins(h) \/ HandlerStep(h) PROVE Quiet
    BY <1>4 DEF HandlerStep, Quiet, Submitters
<1>5. ASSUME NEW p \in PoolThreads, PoolStep(p) PROVE Quiet
    BY <1>5 DEF Quiet
<1>6. ASSUME NEW p \in Pollers, PollerExit(p) PROVE Quiet
    BY <1>6 DEF Quiet
<1>7. ASSUME \/ CommitStep \/ ReportSent
             \/ \E t \in Callers \cup Workers : StartReconnectProbe(t)
             \/ \E p \in Probers : ProbeStep(p) \/ ProbeSucceeds(p)
      PROVE  Quiet
    BY <1>7 DEF Quiet
<1> QED
    BY <1>1, <1>2, <1>3, <1>4, <1>5, <1>6, <1>7 DEF Next

(* What a quiet step may do. *)
LEMMA QuietStep ==
    ASSUME Types, Quiet
    PROVE  /\ UNCHANGED <<python, closing, queue, puts, called>>
           /\ \A c \in Callers :
                 \/ pc'[c] = pc[c]
                 \/ pc[c] \in {"task", "wait"} /\ pc'[c] \in {"wait", "done", "crashed"}
           /\ \A w \in Workers :
                 job'[w] = job[w] /\ (pc'[w] \in {"idle", "exit", "unborn"} <=> pc[w] \in {"idle", "exit", "unborn"})
<1> DEFINE Goal == /\ UNCHANGED <<python, closing, queue, puts, called>>
                   /\ \A c \in Callers :
                         \/ pc'[c] = pc[c]
                         \/ pc[c] \in {"task", "wait"} /\ pc'[c] \in {"wait", "done", "crashed"}
                   /\ \A w \in Workers :
                         /\ job'[w] = job[w]
                         /\ (pc'[w] \in {"idle", "exit", "unborn"} <=> pc[w] \in {"idle", "exit", "unborn"})
<1>0. pc \in [Threads -> Labels] /\ DOMAIN job = Workers \cup PoolThreads
    BY DEF Types, TypeOK
<1> USE <1>0, Kinds DEF Goto, python, closing, work, pool, Threads
<1>1. ASSUME NEW t \in Submitters, Submit(t) \/ Waited(t) PROVE Goal
  <2>1. CASE Submit(t)
      BY <2>1 DEF Submit, Submitters
  <2>2. CASE Waited(t)
      BY <2>2 DEF Waited, Submitters
  <2> QED
      BY <1>1, <2>1, <2>2
<1>2. ASSUME NEW c \in Callers, BrokenPromise(c) PROVE Goal
    BY <1>2 DEF BrokenPromise
<1>3. ASSUME NEW w \in Workers, WorkerExit(w) PROVE Goal
    BY <1>3 DEF WorkerExit
<1>4. ASSUME NEW w \in Workers, AsyncCommit(w) PROVE Goal
    BY <1>4 DEF AsyncCommit
<1>5. ASSUME NEW h \in Handlers, HandlerBegins(h) \/ HandlerExit(h) \/ HandlerReports(h) PROVE Goal
    BY <1>5 DEF HandlerBegins, HandlerExit, HandlerReports
<1>6. ASSUME NEW p \in PoolThreads, PoolStep(p) PROVE Goal
  <2>1. CASE PoolHead(p) \/ PoolLeave(p)
      BY <1>6, <2>1 DEF PoolHead, PoolLeave
  <2>2. CASE PoolTake(p)
      BY <1>6, <2>2 DEF PoolTake
  <2>3. CASE PoolRun(p)
      BY <1>6, <2>3 DEF PoolRun
  <2> QED
      BY <1>6, <2>1, <2>2, <2>3 DEF PoolStep
<1>7. ASSUME NEW p \in Pollers, PollerExit(p) PROVE Goal
    BY <1>7 DEF PollerExit
<1>8. CASE CommitStep
    BY <1>8 DEF CommitStep, CommitHead, CommitSleeps
<1>9. CASE UNCHANGED vars
    BY <1>9 DEF vars
<1>10. ASSUME NEW t \in Callers \cup Workers, StartReconnectProbe(t) PROVE Goal
    BY <1>10 DEF StartReconnectProbe
<1>11. ASSUME NEW p \in Probers, ProbeStep(p) \/ ProbeSucceeds(p) PROVE Goal
    BY <1>11 DEF ProbeStep, ProbeStopped, ProbeEnds, ProbeSucceeds
<1>12. CASE ReportSent
    BY <1>12 DEF ReportSent
<1> QED
    BY <1>1, <1>2, <1>3, <1>4, <1>5, <1>6, <1>7, <1>8, <1>9, <1>10, <1>11, <1>12 DEF Quiet

(* A thread that has left, or whose proxy stopped before it began, does    *)
(* not run again.                                                          *)
LEMMA ExitStable ==
    ASSUME Types, [Next]_vars, NEW t \in Threads \ {Report}, ~Running(t),
           t = ClientProber => ~flag[ClientProber]
    PROVE  pc'[t] = pc[t]
<1>0. pc \in [Threads -> Labels] /\ pc[t] \in {"exit", "unborn"}
    BY DEF Types, TypeOK, Running
<1> USE <1>0 DEF Goto
<1>1. CASE Quiet
  <2>1. ASSUME NEW u \in Submitters, Submit(u) \/ Waited(u) PROVE pc'[t] = pc[t]
      BY <2>1 DEF Submit, Waited
  <2>2. ASSUME NEW c \in Callers, BrokenPromise(c) PROVE pc'[t] = pc[t]
      BY <2>2 DEF BrokenPromise
  <2>3. ASSUME NEW w \in Workers, WorkerExit(w) \/ AsyncCommit(w) PROVE pc'[t] = pc[t]
      BY <2>3 DEF WorkerExit, AsyncCommit
  <2>4. ASSUME NEW h \in Handlers, HandlerBegins(h) \/ HandlerExit(h) \/ HandlerReports(h) PROVE pc'[t] = pc[t]
      BY <2>4 DEF HandlerBegins, HandlerExit, HandlerReports
  <2>5. ASSUME NEW p \in PoolThreads, PoolStep(p) PROVE pc'[t] = pc[t]
      BY <2>5 DEF PoolStep, PoolHead, PoolTake, PoolLeave, PoolRun
  <2>6. ASSUME NEW p \in Pollers, PollerExit(p) PROVE pc'[t] = pc[t]
      BY <2>6 DEF PollerExit
  <2>7. CASE CommitStep
      BY <2>7 DEF CommitStep, CommitHead, CommitSleeps
  <2>8. CASE UNCHANGED vars
      BY <2>8 DEF vars
  <2>9. ASSUME NEW u \in Callers \cup Workers, StartReconnectProbe(u) PROVE pc'[t] = pc[t]
      BY <2>9 DEF StartReconnectProbe
  <2>10. ASSUME NEW p \in Probers, ProbeStep(p) \/ ProbeSucceeds(p) PROVE pc'[t] = pc[t]
      BY <2>10 DEF ProbeStep, ProbeStopped, ProbeEnds, ProbeSucceeds
  <2>11. CASE ReportSent
      BY <2>11 DEF ReportSent
  <2> QED
      BY <1>1, <2>1, <2>2, <2>3, <2>4, <2>5, <2>6, <2>7, <2>8, <2>9, <2>10, <2>11 DEF Quiet
<1>2. ASSUME NEW c \in Callers, Python(c) PROVE pc'[t] = pc[t]
  <2>1. ASSUME NEW op \in Ops, PyCall(c, op) PROVE pc'[t] = pc[t]
      BY <2>1 DEF PyCall
  <2> QED
      BY <1>2, <2>1 DEF Python, HandleToBridge, SubmitTask, PyClose, Erase, SyncReturns,
         CloseReturn
<1>3. ASSUME NEW c \in Callers, Closes(c) PROVE pc'[t] = pc[t]
    BY <1>3 DEF Closes, DrainQueue, Signal, NotifyAll, LockReconnect, Join, FlushPool, Drop
<1>4. ASSUME NEW w \in Workers, WorkerTake(w) \/ Callback(w) PROVE pc'[t] = pc[t]
    BY <1>4 DEF WorkerTake, Callback
<1> QED
    BY <1>1, <1>2, <1>3, <1>4, StepCases

(* Outside the steps of Close, nothing of it moves. *)
LEMMA CloseFrame ==
    ASSUME Types, [Next]_vars
    PROVE  UNCHANGED <<step, gone, flag>> \/ \E c \in Callers : Closes(c)
<1>1. CASE Quiet
    BY <1>1, QuietStep DEF closing
<1>2. ASSUME NEW c \in Callers, Python(c) PROVE UNCHANGED <<step, gone, flag>>
    BY <1>2 DEF Python, PyCall, HandleToBridge, SubmitTask, PyClose, Erase, SyncReturns,
       CloseReturn, closing
<1>3. ASSUME NEW w \in Workers, WorkerTake(w) \/ Callback(w) PROVE UNCHANGED <<step, gone, flag>>
    BY <1>3 DEF WorkerTake, Callback, closing
<1> QED
    BY <1>1, <1>2, <1>3, StepCases

----------------------------------------------------------------------------
(* A join waits for the threads of its group, which do not come back. *)
LEMMA JoinedStep ==
    ASSUME Types, JoinedExited, ProbeOver, [Next]_vars
    PROVE  JoinedExited'
<1> SUFFICES ASSUME NEW j \in DOMAIN CloseSteps, j < step', CloseSteps[j][1] = "join",
                    NEW t \in Members(CloseSteps[j][2])
             PROVE  ~Running(t)'
    BY DEF JoinedExited
<1>1. t \in Threads \ {Report} /\ (t = ClientProber => j = 8)
  <2>1. j \in {3, 5, 8, 11, 13, 15, 19, 24, 27, 30}
    <3>1. j \in 1 .. 34
        BY CloseTable
    <3> QED
        BY <3>1, CloseTable
  <2>2. CASE j = 3
      BY <2>2, CloseTable, Kinds DEF Members, Threads
  <2>3. CASE j = 11
      BY <2>3, CloseTable, Kinds DEF Members, Threads
  <2>4. CASE j = 19
      BY <2>4, CloseTable, Kinds DEF Members, Threads
  <2>5. CASE j \in {5, 8, 13, 15, 24, 27, 30}
      BY <2>5, CloseTable DEF Members, Threads, Background, Pollers, Probers, Committer,
         Report, ClientProber, StoreProber
  <2> QED
      BY <2>1, <2>2, <2>3, <2>4, <2>5
<1>2. step \in Nat /\ j \in Nat
  <2>1. j \in 1 .. 34
      BY CloseTable
  <2> QED
      BY <2>1, StepRange
<1>3. CASE j < step
  <2>1. ~Running(t)
      BY <1>3 DEF JoinedExited
  <2>2. t = ClientProber => ~flag[ClientProber]
      BY <1>1, <1>2, <1>3 DEF ProbeOver
  <2>3. pc'[t] = pc[t]
      BY <1>1, <2>1, <2>2, ExitStable
  <2> QED
      BY <2>1, <2>3 DEF Running
<1>4. CASE ~(j < step)
  <2>1. PICK c \in Callers : Closes(c)
      BY <1>4, CloseFrame
  <2>2. step' = step + 1
      BY <2>1 DEF Closes, DrainQueue, Signal, NotifyAll, LockReconnect, Join, FlushPool, Drop, Closing
  <2>3. j = step
      BY <1>2, <1>4, <2>2
  <2>4. Verb = "join" /\ Object = CloseSteps[j][2]
      BY <2>3 DEF Verb, Object
  <2>5. Join(c)
      BY <2>1, <2>4 DEF Closes, DrainQueue, Signal, NotifyAll, LockReconnect, FlushPool, Drop, Closing
  <2> QED
      BY <2>4, <2>5 DEF Join, Running
<1> QED
    BY <1>3, <1>4

(* An object goes in its own step of Close. *)
LEMMA GoneStep ==
    ASSUME Types, GoneDropped, [Next]_vars
    PROVE  GoneDropped'
<1> SUFFICES ASSUME NEW o \in gone'
             PROVE  \E j \in DOMAIN CloseSteps : j < step' /\ CloseSteps[j] = <<"drop", o>>
    BY DEF GoneDropped
<1>0. step \in Nat /\ step >= 1 /\ DOMAIN CloseSteps = 1 .. 34 /\ Len(CloseSteps) = 34
    BY CloseTable, StepRange
<1>1. CASE UNCHANGED <<step, gone>>
    BY <1>1 DEF GoneDropped
<1>2. ASSUME NEW c \in Callers, Closes(c)
      PROVE  \E j \in DOMAIN CloseSteps : j < step' /\ CloseSteps[j] = <<"drop", o>>
  <2>1. step' = step + 1 /\ step <= Len(CloseSteps)
      BY <1>2 DEF Closes, DrainQueue, Signal, NotifyAll, LockReconnect, Join, FlushPool, Drop, Closing
  <2>2. CASE o \in gone
      BY <1>0, <2>1, <2>2 DEF GoneDropped
  <2>3. CASE o \notin gone
    <3>1. Drop(c) /\ o = Object /\ Verb = "drop"
        BY <1>2, <2>3 DEF Closes, DrainQueue, Signal, NotifyAll, LockReconnect, Join, FlushPool, Drop, Closing
    <3>2. CloseSteps[step] = <<"drop", o>>
      <4>1. \A j \in 1 .. 34 : CloseSteps[j] = <<CloseSteps[j][1], CloseSteps[j][2]>>
          BY CloseTable
      <4> QED
          BY <1>0, <2>1, <3>1, <4>1 DEF Verb, Object
    <3> QED
        BY <1>0, <2>1, <3>2
  <2> QED
      BY <2>2, <2>3
<1> QED
    BY <1>1, <1>2, CloseFrame

(* What CloseSteps guarantees: who uses an object is joined before the     *)
(* object is dropped.                                                      *)
LEMMA UsersJoinedFirst ==
    ASSUME NEW t \in Threads \ (Callers \cup {Report}), NEW j \in DOMAIN CloseSteps,
           NEW o \in Uses(t), CloseSteps[j] = <<"drop", o>>
    PROVE  \E k \in DOMAIN CloseSteps :
              k < j /\ CloseSteps[k][1] = "join" /\ t \in Members(CloseSteps[k][2])
<1>0. DOMAIN CloseSteps = 1 .. 34 /\ j \in 1 .. 34
    BY CloseTable
<1>1. /\ o \in Objects
      /\ o = "client" => j = 9
      /\ o = "pending" => j = 16
      /\ o = "uring" => j = 17
      /\ o = "pool" => j = 21
      /\ o = "proxy" => j = 25
      /\ o \in {"meta", "index", "allocator", "files"} => j > 30
    BY Drops
<1> USE DEF Background, Pollers, Probers, Committer, Report, ClientProber, StoreProber
<1>2. CASE t \in Workers
  <2>1. o \in {"client", "uring", "pool", "pending", "meta", "index", "allocator", "files"}
      BY <1>2, Kinds DEF Uses
  <2>2. t \in Members(CloseSteps[3][2]) /\ j > 3
      BY <1>1, <1>2, <2>1, CloseTable DEF Members
  <2> QED
      BY <1>0, <2>2, CloseTable
<1>3. CASE t \in Handlers
  <2>1. o \in {"uring", "pool", "proxy", "index", "files"}
      BY <1>3, Kinds DEF Uses
  <2>2. t \in Members(CloseSteps[11][2]) /\ j > 11
      BY <1>1, <1>3, <2>1, CloseTable DEF Members
  <2> QED
      BY <1>0, <2>2, CloseTable
<1>4. CASE t \in PoolThreads
  <2>1. o \in {"pool", "files"}
      BY <1>4, Kinds DEF Uses
  <2>2. t \in Members(CloseSteps[19][2]) /\ j > 19
      BY <1>1, <1>4, <2>1, CloseTable DEF Members
  <2> QED
      BY <1>0, <2>2, CloseTable
<1>5. CASE t = "watcher"
  <2>1. o \in {"client"}
      BY <1>5, Kinds DEF Uses
  <2>2. t \in Members(CloseSteps[5][2]) /\ j > 5
      BY <1>1, <1>5, <2>1, CloseTable DEF Members
  <2> QED
      BY <1>0, <2>2, CloseTable
<1>6. CASE t = "evictor"
  <2>1. o \in {"pending", "meta", "index", "allocator"}
      BY <1>6, Kinds DEF Uses
  <2>2. t \in Members(CloseSteps[13][2]) /\ j > 13
      BY <1>1, <1>6, <2>1, CloseTable DEF Members
  <2> QED
      BY <1>0, <2>2, CloseTable
<1>7. CASE t = "reaper"
  <2>1. o \in {"pending", "allocator"}
      BY <1>7, Kinds DEF Uses
  <2>2. t \in Members(CloseSteps[15][2]) /\ j > 15
      BY <1>1, <1>7, <2>1, CloseTable DEF Members
  <2> QED
      BY <1>0, <2>2, CloseTable
<1>8. CASE t = "reconnector"
  <2>1. o \in {"meta", "index"}
      BY <1>8, Kinds DEF Uses
  <2>2. t \in Members(CloseSteps[27][2]) /\ j > 27
      BY <1>1, <1>8, <2>1, CloseTable DEF Members
  <2> QED
      BY <1>0, <2>2, CloseTable
<1>9. CASE t = Committer
  <2>1. o \in {"meta"}
      BY <1>9, Kinds DEF Uses
  <2>2. t \in Members(CloseSteps[30][2]) /\ j > 30
      BY <1>1, <1>9, <2>1, CloseTable DEF Members
  <2> QED
      BY <1>0, <2>2, CloseTable
<1>10. CASE t = ClientProber
  <2>1. o \in {"client"}
      BY <1>10, Kinds DEF Uses
  <2>2. t \in Members(CloseSteps[8][2]) /\ j > 8
      BY <1>1, <1>10, <2>1, CloseTable DEF Members
  <2> QED
      BY <1>0, <2>2, CloseTable
<1>11. CASE t = StoreProber
  <2>1. o \in {"proxy"}
      BY <1>11, Kinds DEF Uses
  <2>2. t \in Members(CloseSteps[24][2]) /\ j > 24
      BY <1>1, <1>11, <2>1, CloseTable DEF Members
  <2> QED
      BY <1>0, <2>2, CloseTable
<1> QED
    BY <1>2, <1>3, <1>4, <1>5, <1>6, <1>7, <1>8, <1>9, <1>10, <1>11 DEF Threads

(* So none of it is gone while it is used, but by a Python thread that was *)
(* inside a call when Close began, and by the detached reports.            *)
LEMMA UsesKept ==
    ASSUME Types, JoinedExited, GoneDropped, RegistryKept, Intruders,
           NEW t \in Threads \ {Report}, NEW o \in Uses(t), o \in gone
    PROVE  t \in overtaken
<1>1. PICK j \in DOMAIN CloseSteps : j < step /\ CloseSteps[j] = <<"drop", o>>
    BY DEF GoneDropped
<1>2. j \in 1 .. 34 /\ step \in 1 .. 35
    BY CloseTable, StepRange
<1>3. CASE t \in Callers
  <2>1. InCall(t)
      BY <1>3, Kinds DEF Uses, Background, Pollers, Probers, Committer, Report, ClientProber,
         StoreProber
  <2>2. step > 1
      BY <1>1, <1>2
  <2> QED
      BY <1>3, <2>1, <2>2 DEF RegistryKept, Intruders
<1>4. CASE t \notin Callers
  <2>1. PICK k \in DOMAIN CloseSteps :
           k < j /\ CloseSteps[k][1] = "join" /\ t \in Members(CloseSteps[k][2])
      BY <1>1, <1>4, UsersJoinedFirst
  <2>2. k < step
    <3>1. k \in 1 .. 34
        BY CloseTable
    <3> QED
        BY <1>1, <1>2, <2>1, <3>1
  <2>3. ~Running(t)
      BY <2>1, <2>2 DEF JoinedExited
  <2>4. Uses(t) = {}
      BY <2>3, <1>4, Kinds DEF Running, Uses, InCall, Background, Pollers, Probers, Committer,
         Report, ClientProber, StoreProber
  <2> QED
      BY <2>4
<1> QED
    BY <1>3, <1>4

----------------------------------------------------------------------------
(* The GIL and the registry *)

LEMMA GilStep ==
    ASSUME Types, GilKept, [Next]_vars
    PROVE  GilKept'
<1> SUFFICES ASSUME NEW d \in Callers, pc'[d] \in {"put", "sync", "close", "submit"}
             PROVE  gil' = d
    BY DEF GilKept
<1>0. pc \in [Threads -> Labels] /\ Callers \subseteq Threads
    BY DEF Types, TypeOK, Threads
<1> USE <1>0, Kinds DEF GilKept, Goto, python, closing, work, pool
<1>1. CASE Quiet
    BY <1>1, QuietStep
<1>2. ASSUME NEW c \in Callers, Python(c) PROVE gil' = d
  <2>1. ASSUME NEW op \in Ops, PyCall(c, op) PROVE gil' = d
      BY <2>1 DEF PyCall
  <2>2. CASE HandleToBridge(c)
      BY <2>2 DEF HandleToBridge
  <2>3. CASE SubmitTask(c)
      BY <2>3 DEF SubmitTask
  <2>4. CASE PyClose(c)
      BY <2>4 DEF PyClose
  <2>5. CASE Erase(c)
      BY <2>5 DEF Erase
  <2>6. CASE SyncReturns(c) \/ CloseReturn(c)
      BY <2>6 DEF SyncReturns, CloseReturn
  <2> QED
      BY <1>2, <2>1, <2>2, <2>3, <2>4, <2>5, <2>6 DEF Python
<1>3. ASSUME NEW c \in Callers, Closes(c) PROVE gil' = d
    BY <1>3 DEF Closes, DrainQueue, Signal, NotifyAll, LockReconnect, Join, FlushPool, Drop
<1>4. ASSUME NEW w \in Workers, WorkerTake(w) \/ Callback(w) PROVE gil' = d
    BY <1>4 DEF WorkerTake, Callback
<1> QED
    BY <1>1, <1>2, <1>3, <1>4, StepCases

LEMMA RegistryStep ==
    ASSUME Types, GilKept, RegistryKept, [Next]_vars
    PROVE  RegistryKept'
<1>0. /\ pc \in [Threads -> Labels] /\ Callers \subseteq Threads
      /\ registered \in BOOLEAN /\ step \in 1 .. 35
    BY StepRange DEF Types, TypeOK, Threads
<1> USE <1>0, Kinds DEF RegistryKept, Goto, python, closing, work, pool
<1>1. CASE Quiet
  <2>1. /\ UNCHANGED <<registry, registered, step>>
        /\ \A c \in Callers : pc'[c] \in {"closing", "closed", "submit"} => pc'[c] = pc[c]
      BY <1>1, QuietStep
  <2> QED
      BY <2>1
<1>2. ASSUME NEW c \in Callers, Python(c) PROVE RegistryKept'
  <2>1. ASSUME NEW op \in Ops, PyCall(c, op) PROVE RegistryKept'
      BY <2>1 DEF PyCall, Ops
  <2>2. CASE HandleToBridge(c)
      BY <2>2 DEF HandleToBridge
  <2>3. CASE SubmitTask(c)
      BY <2>3 DEF SubmitTask
  <2>4. CASE PyClose(c)
    <3>1. \A d \in Callers : pc[d] # "submit"
        BY <2>4 DEF PyClose, GilKept
    <3> QED
        BY <2>4, <3>1 DEF PyClose
  <2>5. CASE Erase(c)
      BY <2>5 DEF Erase
  <2>6. CASE SyncReturns(c)
      BY <2>6 DEF SyncReturns
  <2>7. CASE CloseReturn(c)
      BY <2>7 DEF CloseReturn
  <2> QED
      BY <1>2, <2>1, <2>2, <2>3, <2>4, <2>5, <2>6, <2>7 DEF Python
<1>3. ASSUME NEW c \in Callers, Closes(c) PROVE RegistryKept'
  <2>1. pc[c] = "closing" /\ UNCHANGED <<registry, registered>>
      BY <1>3 DEF Closes, DrainQueue, Signal, NotifyAll, LockReconnect, Join, FlushPool, Drop, Closing
  <2>2. \A d \in Callers : pc'[d] = pc[d]
      BY <1>3 DEF Closes, DrainQueue, Signal, NotifyAll, LockReconnect, Join, FlushPool, Drop
  <2> QED
      BY <2>1, <2>2
<1>4. ASSUME NEW w \in Workers, WorkerTake(w) \/ Callback(w) PROVE RegistryKept'
  <2>1. UNCHANGED <<registry, registered, step>> /\ \A d \in Callers : pc'[d] = pc[d]
      BY <1>4 DEF WorkerTake, Callback
  <2> QED
      BY <2>1
<1> QED
    BY <1>1, <1>2, <1>3, <1>4, StepCases

(* The flags are never set again. *)
LEMMA ProbeOverStep ==
    ASSUME Types, ProbeOver, [Next]_vars
    PROVE  ProbeOver'
<1>0. step \in 1 .. 35 /\ flag \in [Groups -> BOOLEAN] /\ ClientProber \in Groups
    BY StepRange DEF Types, TypeOK, Groups, Probers
<1>1. CASE UNCHANGED <<step, flag>>
    BY <1>1 DEF ProbeOver
<1>2. ASSUME NEW c \in Callers, Closes(c) PROVE ProbeOver'
  <2>1. step' = step + 1 /\ (flag' = flag \/ Signal(c))
      BY <1>2 DEF Closes, DrainQueue, Signal, NotifyAll, LockReconnect, Join, FlushPool, Drop,
         Closing
  <2>2. ~flag[ClientProber] => ~flag'[ClientProber]
    <3>1. CASE flag' = flag
        BY <3>1
    <3>2. CASE Signal(c)
        BY <1>0, <3>2 DEF Signal
    <3> QED
        BY <2>1, <3>1, <3>2
  <2>3. CASE step > 6
      BY <2>2, <2>3 DEF ProbeOver
  <2>4. CASE step = 6
    <3>1. Verb = "signal" /\ Object = ClientProber
        BY <2>4, CloseTable DEF Verb, Object
    <3>2. Signal(c)
        BY <1>2, <3>1 DEF Closes, DrainQueue, NotifyAll, LockReconnect, Join, FlushPool, Drop,
           Closing
    <3>3. ~flag'[ClientProber]
        BY <1>0, <3>1, <3>2 DEF Signal
    <3> QED
        BY <3>3 DEF ProbeOver
  <2>5. CASE step < 6
      BY <1>0, <2>1, <2>5 DEF ProbeOver
  <2> QED
      BY <1>0, <2>3, <2>4, <2>5
<1> QED
    BY <1>1, <1>2, CloseFrame

(* A call begins while the handle is registered and nobody closes.         *)
LEMMA IntrudersStep ==
    ASSUME Types, RegistryKept, Intruders, [Next]_vars
    PROVE  Intruders'
<1> SUFFICES ASSUME registry' # None \/ ~registered', NEW d \in Callers, InCall(d)'
             PROVE  d \in overtaken'
    BY DEF Intruders
<1>0. pc \in [Threads -> Labels] /\ Callers \subseteq Threads
    BY DEF Types, TypeOK, Threads
<1> USE <1>0, Kinds DEF InCall, Goto, python, closing, work, pool
<1>1. CASE Quiet
  <2>1. UNCHANGED <<registry, registered, overtaken>> /\ InCall(d)
      BY <1>1, QuietStep
  <2> QED
      BY <2>1 DEF Intruders
<1>2. ASSUME NEW c \in Callers, Python(c) PROVE d \in overtaken'
  <2>1. ASSUME NEW op \in Ops, PyCall(c, op) PROVE d \in overtaken'
      BY <2>1 DEF PyCall, Ops, Intruders
  <2>2. CASE HandleToBridge(c)
      BY <2>2 DEF HandleToBridge, Intruders
  <2>3. CASE SubmitTask(c)
      BY <2>3 DEF SubmitTask, Intruders
  <2>4. CASE PyClose(c)
      BY <2>4 DEF PyClose, Intruders
  <2>5. CASE Erase(c)
      BY <2>5 DEF Erase, Intruders, RegistryKept
  <2>6. CASE SyncReturns(c)
      BY <2>6 DEF SyncReturns, Intruders
  <2>7. CASE CloseReturn(c)
      BY <2>7 DEF CloseReturn, Intruders, RegistryKept
  <2> QED
      BY <1>2, <2>1, <2>2, <2>3, <2>4, <2>5, <2>6, <2>7 DEF Python
<1>3. ASSUME NEW c \in Callers, Closes(c) PROVE d \in overtaken'
  <2>1. UNCHANGED python /\ pc'[d] = pc[d]
      BY <1>3 DEF Closes, DrainQueue, Signal, NotifyAll, LockReconnect, Join, FlushPool, Drop
  <2> QED
      BY <2>1 DEF Intruders
<1>4. ASSUME NEW w \in Workers, WorkerTake(w) \/ Callback(w) PROVE d \in overtaken'
  <2>1. UNCHANGED python /\ pc'[d] = pc[d]
      BY <1>4 DEF WorkerTake, Callback
  <2> QED
      BY <2>1 DEF Intruders
<1> QED
    BY <1>1, <1>2, <1>3, <1>4, StepCases

LEMMA NoneOvertakenStep ==
    ASSUME Types, RegistryKept, NoneOvertaken, [Next]_vars
    PROVE  NoneOvertaken'
<1> SUFFICES ASSUME registry' = None, registered' PROVE overtaken' = {}
    BY DEF NoneOvertaken
<1> USE DEF NoneOvertaken, python
<1>1. CASE Quiet
    BY <1>1, QuietStep
<1>2. ASSUME NEW c \in Callers, Python(c) PROVE overtaken' = {}
    BY <1>2, Kinds DEF Python, PyCall, HandleToBridge, SubmitTask, PyClose, Erase, SyncReturns,
       CloseReturn, RegistryKept
<1>3. ASSUME NEW c \in Callers, Closes(c) PROVE overtaken' = {}
    BY <1>3 DEF Closes, DrainQueue, Signal, NotifyAll, LockReconnect, Join, FlushPool, Drop
<1>4. ASSUME NEW w \in Workers, WorkerTake(w) \/ Callback(w) PROVE overtaken' = {}
    BY <1>4 DEF WorkerTake, Callback
<1> QED
    BY <1>1, <1>2, <1>3, <1>4, StepCases

(* Only FlushPool breaks promises, and it is not the first step of Close.  *)
LEMMA BrokenStep ==
    ASSUME Types, BrokenLate, [Next]_vars
    PROVE  BrokenLate'
<1>0. step \in 1 .. 35
    BY StepRange
<1> USE <1>0 DEF BrokenLate, closing, pool
<1>1. CASE Quiet
  <2>1. step' = step
      BY <1>1, QuietStep
  <2>2. broken' = broken
      BY <1>1 DEF Quiet, Submit, Waited, BrokenPromise, WorkerExit, AsyncCommit, HandlerBegins,
         HandlerExit, HandlerReports, PoolStep, PoolHead, PoolTake, PoolLeave, PoolRun,
         PollerExit, StartReconnectProbe, ProbeStep, ProbeStopped, ProbeEnds, ProbeSucceeds,
         CommitStep, CommitHead, CommitSleeps, ReportSent, vars
  <2> QED
      BY <2>1, <2>2
<1>2. ASSUME NEW c \in Callers, Python(c) PROVE BrokenLate'
    BY <1>2 DEF Python, PyCall, HandleToBridge, SubmitTask, PyClose, Erase, SyncReturns,
       CloseReturn
<1>3. ASSUME NEW c \in Callers, Closes(c) PROVE BrokenLate'
  <2>1. step' = step + 1
      BY <1>3 DEF Closes, DrainQueue, Signal, NotifyAll, LockReconnect, Join, FlushPool, Drop,
         Closing
  <2> QED
      BY <2>1
<1>4. ASSUME NEW w \in Workers, WorkerTake(w) \/ Callback(w) PROVE BrokenLate'
    BY <1>4 DEF WorkerTake, Callback
<1> QED
    BY <1>1, <1>2, <1>3, <1>4, StepCases

----------------------------------------------------------------------------
(* The puts *)

LEMMA DrainedStep ==
    ASSUME Types, RegistryKept, Drained, [Next]_vars
    PROVE  Drained'
<1>0. step \in 1 .. 35
    BY StepRange
<1> USE <1>0 DEF Drained, python, closing, work, pool
<1>1. CASE Quiet
    BY <1>1, QuietStep
<1>2. ASSUME NEW c \in Callers, Python(c) PROVE Drained'
  <2>1. CASE SubmitTask(c)
    <3>1. ~(step > 1) /\ step' = step
        BY <2>1 DEF SubmitTask, RegistryKept
    <3> QED
        BY <3>1
  <2>2. CASE ~SubmitTask(c)
      BY <1>2, <2>2 DEF Python, PyCall, HandleToBridge, PyClose, Erase, SyncReturns, CloseReturn
  <2> QED
      BY <2>1, <2>2
<1>3. ASSUME NEW c \in Callers, Closes(c) PROVE Drained'
  <2>1. queue' = queue
      BY <1>3 DEF Closes, DrainQueue, Signal, NotifyAll, LockReconnect, Join, FlushPool, Drop
  <2>2. CASE step > 1
      BY <2>1, <2>2
  <2>3. CASE step = 1
    <3>1. Verb = "drain"
        BY <2>3, CloseTable DEF Verb
    <3>2. DrainQueue(c)
        BY <1>3, <3>1 DEF Closes, Signal, NotifyAll, LockReconnect, Join, FlushPool, Drop, Closing
    <3> QED
        BY <2>1, <3>2 DEF DrainQueue
  <2> QED
      BY <2>2, <2>3
<1>4. ASSUME NEW w \in Workers, WorkerTake(w) \/ Callback(w) PROVE Drained'
    BY <1>4 DEF WorkerTake, Callback
<1> QED
    BY <1>1, <1>2, <1>3, <1>4, StepCases

(* What is in a queue after a put, and after a take. *)
LEMMA QueuedAppend ==
    ASSUME NEW S, NEW q \in Seq(S), NEW x \in S
    PROVE  {Append(q, x)[i] : i \in DOMAIN Append(q, x)} = {q[i] : i \in DOMAIN q} \cup {x}
<1>1. /\ DOMAIN Append(q, x) = 1 .. Len(q) + 1 /\ DOMAIN q = 1 .. Len(q) /\ Len(q) \in Nat
      /\ Append(q, x)[Len(q) + 1] = x
      /\ \A i \in 1 .. Len(q) : Append(q, x)[i] = q[i]
    OBVIOUS
<1>2. 1 .. Len(q) + 1 = (1 .. Len(q)) \cup {Len(q) + 1}
    BY <1>1
<1> QED
    BY <1>1, <1>2

LEMMA QueuedTail ==
    ASSUME NEW S, NEW q \in Seq(S), q # <<>>
    PROVE  {q[i] : i \in DOMAIN q} = {Head(q)} \cup {Tail(q)[i] : i \in DOMAIN Tail(q)}
<1>1. /\ DOMAIN q = 1 .. Len(q) /\ Len(q) \in Nat /\ Len(q) >= 1 /\ Head(q) = q[1]
      /\ DOMAIN Tail(q) = 1 .. Len(q) - 1
      /\ \A i \in 1 .. Len(q) - 1 : Tail(q)[i] = q[i + 1]
    BY HeadTailProperties
<1>2. \A i \in 2 .. Len(q) : i - 1 \in 1 .. Len(q) - 1 /\ Tail(q)[i - 1] = q[i]
    BY <1>1
<1>3. \A x \in {q[i] : i \in DOMAIN q} : x \in {Head(q)} \cup {Tail(q)[i] : i \in DOMAIN Tail(q)}
  <2> SUFFICES ASSUME NEW i \in 1 .. Len(q)
               PROVE  q[i] \in {Head(q)} \cup {Tail(q)[k] : k \in DOMAIN Tail(q)}
      BY <1>1
  <2>1. CASE i = 1
      BY <1>1, <2>1
  <2>2. CASE i # 1
    <3>1. i - 1 \in DOMAIN Tail(q) /\ Tail(q)[i - 1] = q[i]
        BY <1>1, <1>2, <2>2
    <3> QED
        BY <3>1
  <2> QED
      BY <2>1, <2>2
<1>4. \A x \in {Head(q)} \cup {Tail(q)[i] : i \in DOMAIN Tail(q)} : x \in {q[i] : i \in DOMAIN q}
    BY <1>1
<1> QED
    BY <1>3, <1>4

LEMMA AccountedStep ==
    ASSUME Types, Accounted, [Next]_vars
    PROVE  Accounted'
<1>0. /\ pc \in [Threads -> Labels] /\ Threads = Threads \cup Callers \cup Workers
      /\ DOMAIN job = Workers \cup PoolThreads
      /\ queue \in Seq(1 .. MaxPuts) /\ puts \in Nat
    BY DEF Types, TypeOK, Threads
<1> DEFINE Jobs == {job[w] : w \in Holders}
<1> USE <1>0, Kinds DEF Goto, python, closing, work, pool
<1>1. CASE Quiet
  <2>1. /\ UNCHANGED <<queue, puts, called>> /\ Holders' = Holders
        /\ \A w \in Workers : job'[w] = job[w]
      BY <1>1, QuietStep DEF Holders
  <2>2. Jobs' = Jobs
      BY <2>1 DEF Holders
  <2> QED
      BY <2>1, <2>2 DEF Accounted, Queued
<1>2. ASSUME NEW c \in Callers, Python(c) PROVE Accounted'
  <2>1. Holders' = Holders /\ job' = job /\ called' = called
    <3>1. ASSUME NEW op \in Ops, PyCall(c, op) PROVE Holders' = Holders /\ job' = job /\ called' = called
        BY <3>1 DEF PyCall, Holders
    <3> QED
        BY <1>2, <3>1 DEF Python, HandleToBridge, SubmitTask, PyClose, Erase, SyncReturns,
           CloseReturn, Holders
  <2>2. Jobs' = Jobs
      BY <2>1
  <2>3. CASE SubmitTask(c)
    <3>1. puts' = puts + 1 /\ queue' = Append(queue, puts + 1) /\ puts + 1 \in 1 .. MaxPuts
        BY <2>3, BridgeAssumption DEF SubmitTask
    <3>2. Queued' = Queued \cup {puts + 1}
        BY SMTT(60), <3>1, QueuedAppend DEF Queued
    <3>3. 1 .. puts + 1 = (1 .. puts) \cup {puts + 1}
        OBVIOUS
    <3> QED
        BY <2>1, <2>2, <3>1, <3>2, <3>3 DEF Accounted
  <2>4. CASE ~SubmitTask(c)
    <3>1. UNCHANGED <<queue, puts>>
        BY <1>2, <2>4 DEF Python, PyCall, HandleToBridge, PyClose, Erase, SyncReturns, CloseReturn
    <3> QED
        BY <2>1, <2>2, <3>1 DEF Accounted, Queued
  <2> QED
      BY <2>3, <2>4
<1>3. ASSUME NEW c \in Callers, Closes(c) PROVE Accounted'
  <2>1. UNCHANGED work /\ \A w \in Workers : pc'[w] = pc[w]
      BY <1>3 DEF Closes, DrainQueue, Signal, NotifyAll, LockReconnect, Join, FlushPool, Drop
  <2>2. Holders' = Holders
      BY <2>1 DEF Holders
  <2> QED
      BY <2>1, <2>2 DEF Accounted, Queued
<1>4. ASSUME NEW w \in Workers, WorkerTake(w) PROVE Accounted'
  <2>0. queue # <<>> /\ queue' = Tail(queue)
      BY <1>4 DEF WorkerTake
  <2>1. Queued = {Head(queue)} \cup Queued'
    <3>1. {queue[i] : i \in DOMAIN queue}
             = {Head(queue)} \cup {Tail(queue)[i] : i \in DOMAIN Tail(queue)}
        BY ZenonT(60), <1>0, <2>0, QueuedTail
    <3> QED
        BY <2>0, <3>1 DEF Queued
  <2>2. Holders' = Holders \cup {w} /\ w \notin Holders
      BY <1>4 DEF WorkerTake, Holders
  <2>3. job'[w] = Head(queue) /\ \A v \in Holders : job'[v] = job[v]
      BY <1>4, <2>2 DEF WorkerTake, Holders
  <2>4. Jobs' = Jobs \cup {Head(queue)}
      BY <2>2, <2>3
  <2>5. UNCHANGED <<puts, called>>
      BY <1>4 DEF WorkerTake
  <2> QED
      BY <2>1, <2>4, <2>5 DEF Accounted
<1>5. ASSUME NEW w \in Workers, Callback(w) PROVE Accounted'
  <2>1. Holders' = Holders \ {w} /\ w \in Holders
      BY <1>5 DEF Callback, Holders
  <2>2. \A v \in Holders' : job'[v] = job[v]
      BY <1>5, <2>1 DEF Callback, Holders
  <2>3. Jobs = Jobs' \cup {job[w]}
      BY <2>1, <2>2
  <2>4. UNCHANGED <<puts, queue>> /\ called' = called \cup {job[w]}
      BY <1>5 DEF Callback
  <2>5. Queued' = Queued
      BY <2>4 DEF Queued
  <2> HIDE DEF Jobs
  <2>6. called' \cup Queued' \cup Jobs' = called \cup Queued \cup Jobs
      BY ZenonT(30), <2>3, <2>4, <2>5
  <2> QED
      BY <2>4, <2>6 DEF Accounted, Jobs
<1> QED
    BY <1>1, <1>2, <1>3, <1>4, <1>5, StepCases

----------------------------------------------------------------------------
(* Types, and no worker or handler in a destroyed object *)

LEMMA NoneCrashedStep ==
    ASSUME Types, JoinedExited, GoneDropped, RegistryKept, Intruders, NoneOvertaken, BrokenLate,
           NoneCrashed, [Next]_vars
    PROVE  NoneCrashed'
<1>0. pc \in [Threads -> Labels]
    BY DEF Types, TypeOK
<1>1. ASSUME UNCHANGED overtaken, NEW d \in Submitters,
             \A t \in Threads : pc'[t] = "crashed" => t = d \/ pc[t] = "crashed",
             pc'[d] = "crashed" => d \in overtaken
      PROVE  NoneCrashed'
    BY <1>1 DEF NoneCrashed
<1>2. ASSUME UNCHANGED overtaken,
             \A t \in Threads : pc'[t] = "crashed" => pc[t] = "crashed"
      PROVE  NoneCrashed'
    BY <1>2 DEF NoneCrashed
<1> USE <1>0 DEF Goto, python
<1>3. CASE Quiet
  <2>0. UNCHANGED overtaken
      BY <1>3, QuietStep
  <2>1. ASSUME NEW u \in Submitters, Submit(u) PROVE NoneCrashed'
    <3>1. \A t \in Threads : pc'[t] = "crashed" => t = u \/ pc[t] = "crashed"
        BY <2>1 DEF Submit
    <3>2. ASSUME pc'[u] = "crashed" PROVE u \in overtaken
      <4>1. /\ pc[u] = "task" /\ u \in Threads \ {Report}
            /\ ("pool" \in gone \/ ("client" \in gone /\ u \notin Handlers))
          BY <2>1, <3>2, Kinds DEF Submit, Submitters, Threads
      <4>2. CASE u \in Handlers
        <5>1. Uses(u) = {"uring", "pool", "proxy", "index", "files"}
            BY <4>1, <4>2, Kinds DEF Uses, Background, Pollers, Probers, Committer, Report,
               ClientProber, StoreProber
        <5> QED
            BY <4>1, <4>2, <5>1, UsesKept
      <4>3. CASE u \in Callers \cup Workers
        <5>1. Uses(u) = {"client", "uring", "pool", "pending", "meta", "index", "allocator",
                         "files"}
            BY <4>1, <4>3, Kinds DEF Uses, InCall, Background, Pollers, Probers, Committer,
               Report, ClientProber, StoreProber
        <5> QED
            BY <4>1, <5>1, UsesKept
      <4> QED
          BY <4>2, <4>3 DEF Submitters
    <3> QED
        BY <1>1, <2>0, <3>1, <3>2
  <2>2. ASSUME NEW u \in Submitters, Waited(u) PROVE NoneCrashed'
    <3>1. \A t \in Threads : pc'[t] = "crashed" => pc[t] = "crashed"
        BY <2>2 DEF Waited
    <3> QED
        BY <1>2, <2>0, <3>1
  <2>3. ASSUME NEW c \in Callers, BrokenPromise(c) PROVE NoneCrashed'
    <3>1. \A t \in Threads : pc'[t] = "crashed" => t = c \/ pc[t] = "crashed"
        BY <2>3 DEF BrokenPromise
    <3>2. c \in overtaken
        BY <2>3 DEF BrokenPromise, BrokenLate, RegistryKept, Intruders, InCall
    <3> QED
        BY <1>1, <2>0, <3>1, <3>2 DEF Submitters
  <2>4. ASSUME \/ \E w \in Workers : WorkerExit(w) \/ AsyncCommit(w)
               \/ \E h \in Handlers : HandlerBegins(h) \/ HandlerExit(h) \/ HandlerReports(h)
               \/ \E p \in PoolThreads : PoolStep(p)
               \/ \E p \in Pollers : PollerExit(p)
        PROVE  NoneCrashed'
    <3>1. \A t \in Threads : pc'[t] = "crashed" => pc[t] = "crashed"
        BY <2>4 DEF WorkerExit, AsyncCommit, HandlerBegins, HandlerExit, HandlerReports,
           PoolStep, PoolHead, PoolTake, PoolLeave, PoolRun, PollerExit
    <3> QED
        BY <1>2, <2>0, <3>1
  <2>5. ASSUME \/ \E t \in Callers \cup Workers : StartReconnectProbe(t)
               \/ \E p \in Probers : ProbeStep(p) \/ ProbeSucceeds(p)
               \/ CommitStep \/ ReportSent \/ UNCHANGED vars
        PROVE  NoneCrashed'
    <3>1. \A t \in Threads : pc'[t] = "crashed" => pc[t] = "crashed"
        BY <2>5 DEF StartReconnectProbe, ProbeStep, ProbeStopped, ProbeEnds, ProbeSucceeds,
           CommitStep, CommitHead, CommitSleeps, ReportSent, vars
    <3> QED
        BY <1>2, <2>0, <3>1
  <2> QED
      BY <1>3, <2>1, <2>2, <2>3, <2>4, <2>5 DEF Quiet
<1>4. ASSUME NEW c \in Callers, Python(c) PROVE NoneCrashed'
  <2>1. \A t \in Threads : pc'[t] = "crashed" => pc[t] = "crashed"
    <3>1. ASSUME NEW op \in Ops, PyCall(c, op)
          PROVE  \A t \in Threads : pc'[t] = "crashed" => pc[t] = "crashed"
        BY <3>1 DEF PyCall, Ops
    <3> QED
        BY <1>4, <3>1 DEF Python, HandleToBridge, SubmitTask, PyClose, Erase, SyncReturns,
           CloseReturn
  <2>2. CASE UNCHANGED overtaken
      BY <1>2, <2>1, <2>2
  <2>3. CASE registry = None /\ registered
    <3>1. \A t \in Threads : pc[t] # "crashed"
        BY <2>3 DEF NoneOvertaken, NoneCrashed
    <3> QED
        BY <2>1, <3>1 DEF NoneCrashed
  <2>4. UNCHANGED overtaken \/ (registry = None /\ registered)
      BY <1>4 DEF Python, PyCall, HandleToBridge, SubmitTask, PyClose, Erase, SyncReturns,
         CloseReturn
  <2> QED
      BY <2>2, <2>3, <2>4
<1>5. ASSUME NEW c \in Callers, Closes(c) PROVE NoneCrashed'
  <2>1. \A t \in Threads : pc'[t] = "crashed" => pc[t] = "crashed"
      BY <1>5 DEF Closes, DrainQueue, Signal, NotifyAll, LockReconnect, Join, FlushPool, Drop
  <2>2. UNCHANGED overtaken
      BY <1>5 DEF Closes, DrainQueue, Signal, NotifyAll, LockReconnect, Join, FlushPool, Drop
  <2> QED
      BY <1>2, <2>1, <2>2
<1>6. ASSUME NEW w \in Workers, WorkerTake(w) \/ Callback(w) PROVE NoneCrashed'
  <2>1. (\A t \in Threads : pc'[t] = "crashed" => pc[t] = "crashed") /\ UNCHANGED overtaken
      BY <1>6 DEF WorkerTake, Callback
  <2> QED
      BY <1>2, <2>1
<1> QED
    BY <1>3, <1>4, <1>5, <1>6, StepCases

LEMMA PcTypes ==
    ASSUME TypeOK, [Next]_vars
    PROVE  pc' \in [Threads -> Labels]
<1>0. pc \in [Threads -> Labels]
    BY DEF TypeOK
<1> USE <1>0 DEF Goto, Labels
<1>1. CASE Quiet
  <2>1. ASSUME NEW u \in Submitters, Submit(u) \/ Waited(u) PROVE pc' \in [Threads -> Labels]
      BY <2>1 DEF Submit, Waited
  <2>2. ASSUME NEW c \in Callers, BrokenPromise(c) PROVE pc' \in [Threads -> Labels]
      BY <2>2 DEF BrokenPromise
  <2>3. ASSUME NEW w \in Workers, WorkerExit(w) \/ AsyncCommit(w)
        PROVE  pc' \in [Threads -> Labels]
      BY <2>3 DEF WorkerExit, AsyncCommit
  <2>4. ASSUME NEW h \in Handlers, HandlerBegins(h) \/ HandlerExit(h) \/ HandlerReports(h)
        PROVE  pc' \in [Threads -> Labels]
      BY <2>4 DEF HandlerBegins, HandlerExit, HandlerReports
  <2>5. ASSUME NEW p \in PoolThreads, PoolStep(p) PROVE pc' \in [Threads -> Labels]
      BY <2>5 DEF PoolStep, PoolHead, PoolTake, PoolLeave, PoolRun
  <2>6. ASSUME NEW p \in Pollers, PollerExit(p) PROVE pc' \in [Threads -> Labels]
      BY <2>6 DEF PollerExit
  <2>7. CASE CommitStep
      BY <2>7 DEF CommitStep, CommitHead, CommitSleeps
  <2>8. CASE UNCHANGED vars
      BY <2>8 DEF vars
  <2>9. ASSUME NEW u \in Callers \cup Workers, StartReconnectProbe(u)
        PROVE  pc' \in [Threads -> Labels]
      BY <2>9 DEF StartReconnectProbe
  <2>10. ASSUME NEW p \in Probers, ProbeStep(p) \/ ProbeSucceeds(p)
         PROVE  pc' \in [Threads -> Labels]
      BY <2>10 DEF ProbeStep, ProbeStopped, ProbeEnds, ProbeSucceeds
  <2>11. CASE ReportSent
      BY <2>11 DEF ReportSent
  <2> QED
      BY <1>1, <2>1, <2>2, <2>3, <2>4, <2>5, <2>6, <2>7, <2>8, <2>9, <2>10, <2>11 DEF Quiet
<1>2. ASSUME NEW c \in Callers, Python(c) PROVE pc' \in [Threads -> Labels]
  <2>1. ASSUME NEW op \in Ops, PyCall(c, op) PROVE pc' \in [Threads -> Labels]
      BY <2>1 DEF PyCall, Ops
  <2> QED
      BY <1>2, <2>1 DEF Python, HandleToBridge, SubmitTask, PyClose, Erase, SyncReturns,
         CloseReturn
<1>3. ASSUME NEW c \in Callers, Closes(c) PROVE pc' \in [Threads -> Labels]
    BY <1>3 DEF Closes, DrainQueue, Signal, NotifyAll, LockReconnect, Join, FlushPool, Drop
<1>4. ASSUME NEW w \in Workers, WorkerTake(w) \/ Callback(w) PROVE pc' \in [Threads -> Labels]
    BY <1>4 DEF WorkerTake, Callback
<1> QED
    BY <1>1, <1>2, <1>3, <1>4, StepCases

(* The extension's variables, and those of the IO pool's queue. *)
PythonTypes ==
    /\ gil \in Callers \cup {None} /\ registry \in Callers \cup {None}
    /\ registered \in BOOLEAN /\ commits \in BOOLEAN
    /\ overtaken \subseteq Callers

CloseTypes ==
    /\ flag \in [Groups -> BOOLEAN] /\ missed \in BOOLEAN
    /\ gone \subseteq Objects
    /\ step \in 1 .. 35

PoolTypes ==
    /\ tasks \in Seq(Submitters) /\ results \subseteq Submitters /\ broken \subseteq Submitters

PutTypes == queue \in Seq(1 .. MaxPuts) /\ puts \in 0 .. MaxPuts /\ called \subseteq 1 .. MaxPuts

JobTypes ==
    /\ job \in [Workers \cup PoolThreads -> (1 .. MaxPuts) \cup Submitters \cup {None}]
    /\ \A p \in PoolThreads : pc[p] = "run" => job[p] \in Submitters

LEMMA TypesParts ==
    Types <=> /\ PythonTypes /\ CloseTypes /\ PoolTypes /\ PutTypes /\ JobTypes
              /\ pc \in [Threads -> Labels]
<1>1. Len(CloseSteps) + 1 = 35
    BY CloseTable
<1> QED
    BY <1>1 DEF Types, TypeOK, PythonTypes, CloseTypes, PoolTypes, PutTypes, JobTypes, Objects

LEMMA TypesStep ==
    ASSUME Types, Accounted, [Next]_vars
    PROVE  Types'
<1>0. /\ PythonTypes /\ CloseTypes /\ PoolTypes /\ PutTypes /\ JobTypes
      /\ pc \in [Threads -> Labels] /\ pc' \in [Threads -> Labels]
    BY TypesParts, PcTypes DEF Types
<1> DEFINE Rest == PythonTypes /\ CloseTypes /\ PoolTypes /\ PutTypes /\ JobTypes
<1> USE DEF python, closing, work, pool
<1>1. ASSUME Quiet PROVE Rest'
  <2>1. CloseTypes' /\ PutTypes'
      BY <1>0, <1>1, QuietStep DEF CloseTypes, PutTypes
  <2>2. UNCHANGED python
      BY <1>1, QuietStep
  <2> SUFFICES commits' \in BOOLEAN /\ PoolTypes' /\ JobTypes'
      BY <1>0, <2>1, <2>2 DEF PythonTypes
  <2>0. commits \in BOOLEAN /\ pc \in [Threads -> Labels] /\ PoolThreads \subseteq Threads
      BY <1>0 DEF PythonTypes, Threads
  <2> USE <2>0, Kinds DEF Goto
  <2>3. ASSUME NEW u \in Submitters, Submit(u)
        PROVE  commits' \in BOOLEAN /\ PoolTypes' /\ JobTypes'
    <3>1. PoolTypes'
        BY <1>0, <2>3, AppendProperties DEF Submit, PoolTypes
    <3>2. UNCHANGED <<job, commits>> /\ \A p \in PoolThreads : pc'[p] = pc[p]
        BY <2>3 DEF Submit, Submitters
    <3> QED
        BY <1>0, <3>1, <3>2 DEF JobTypes
  <2>4. ASSUME NEW u \in Submitters, Waited(u)
        PROVE  commits' \in BOOLEAN /\ PoolTypes' /\ JobTypes'
    <3>1. PoolTypes'
        BY <1>0, <2>4 DEF Waited, PoolTypes
    <3>2. UNCHANGED <<job, commits>> /\ \A p \in PoolThreads : pc'[p] = pc[p]
        BY <2>4 DEF Waited, Submitters
    <3> QED
        BY <1>0, <3>1, <3>2 DEF JobTypes
  <2>5. ASSUME \/ \E c \in Callers : BrokenPromise(c)
               \/ \E w \in Workers : WorkerExit(w)
               \/ \E h \in Handlers : HandlerBegins(h) \/ HandlerExit(h)
               \/ \E p \in Pollers : PollerExit(p)
               \/ UNCHANGED vars
        PROVE  commits' \in BOOLEAN /\ PoolTypes' /\ JobTypes'
    <3>1. UNCHANGED <<job, commits, pool>>
        BY <2>5 DEF BrokenPromise, WorkerExit, HandlerBegins, HandlerExit, PollerExit, vars
    <3>2. \A q \in PoolThreads : pc'[q] = pc[q]
        BY <2>5 DEF BrokenPromise, WorkerExit, HandlerBegins, HandlerExit, PollerExit, vars
    <3> QED
        BY <1>0, <3>1, <3>2 DEF JobTypes, PoolTypes
  <2>10. ASSUME NEW h \in Handlers, HandlerReports(h)
         PROVE  commits' \in BOOLEAN /\ PoolTypes' /\ JobTypes'
    <3>1. PoolTypes'
        BY <1>0, <2>10 DEF HandlerReports, PoolTypes
    <3>2. UNCHANGED <<job, commits>> /\ \A q \in PoolThreads : pc'[q] = pc[q]
        BY <2>10 DEF HandlerReports
    <3> QED
        BY <1>0, <3>1, <3>2 DEF JobTypes
  <2>11. ASSUME \/ \E t \in Callers \cup Workers : StartReconnectProbe(t)
                \/ \E p \in Probers : ProbeStep(p) \/ ProbeSucceeds(p)
                \/ ReportSent
         PROVE  commits' \in BOOLEAN /\ PoolTypes' /\ JobTypes'
    <3>1. UNCHANGED <<job, commits, pool>>
        BY <2>11 DEF StartReconnectProbe, ProbeStep, ProbeStopped, ProbeEnds, ProbeSucceeds,
           ReportSent
    <3>2. \A q \in PoolThreads : pc'[q] = pc[q]
        BY <2>11 DEF StartReconnectProbe, ProbeStep, ProbeStopped, ProbeEnds, ProbeSucceeds,
           ReportSent
    <3> QED
        BY <1>0, <3>1, <3>2 DEF JobTypes, PoolTypes
  <2>6. ASSUME (\E w \in Workers : AsyncCommit(w)) \/ CommitStep
        PROVE  commits' \in BOOLEAN /\ PoolTypes' /\ JobTypes'
    <3>1. UNCHANGED <<job, pool>> /\ commits' \in BOOLEAN
        BY <2>6 DEF AsyncCommit, CommitStep, CommitHead, CommitSleeps
    <3>2. \A q \in PoolThreads : pc'[q] = pc[q]
        BY <2>6 DEF AsyncCommit, CommitStep, CommitHead, CommitSleeps
    <3> QED
        BY <1>0, <3>1, <3>2 DEF JobTypes, PoolTypes
  <2>7. ASSUME NEW p \in PoolThreads, PoolHead(p) \/ PoolLeave(p)
        PROVE  commits' \in BOOLEAN /\ PoolTypes' /\ JobTypes'
    <3>1. UNCHANGED <<job, commits, pool>>
        BY <2>7 DEF PoolHead, PoolLeave
    <3>2. \A q \in PoolThreads : pc'[q] = "run" => pc[q] = "run"
        BY <2>7 DEF PoolHead, PoolLeave
    <3> QED
        BY <1>0, <3>1, <3>2 DEF JobTypes, PoolTypes
  <2>8. ASSUME NEW p \in PoolThreads, PoolTake(p)
        PROVE  commits' \in BOOLEAN /\ PoolTypes' /\ JobTypes'
    <3>1. tasks # <<>> /\ tasks \in Seq(Submitters)
        BY <1>0, <2>8 DEF PoolTake, PoolTypes
    <3>2. Head(tasks) \in Submitters /\ Tail(tasks) \in Seq(Submitters)
        BY <3>1, HeadTailProperties
    <3>3. PoolTypes' /\ commits' = commits
        BY <1>0, <2>8, <3>2 DEF PoolTake, PoolTypes
    <3>4. JobTypes'
        BY <1>0, <2>8, <3>2 DEF PoolTake, JobTypes
    <3> QED
        BY <3>3, <3>4
  <2>9. ASSUME NEW p \in PoolThreads, PoolRun(p)
        PROVE  commits' \in BOOLEAN /\ PoolTypes' /\ JobTypes'
    <3>1. job[p] \in Submitters
        BY <1>0, <2>9 DEF PoolRun, JobTypes
    <3>2. PoolTypes' /\ commits' = commits
        BY <1>0, <2>9, <3>1 DEF PoolRun, PoolTypes
    <3>3. JobTypes'
        BY <1>0, <2>9 DEF PoolRun, JobTypes
    <3> QED
        BY <3>2, <3>3
  <2> QED
      BY <1>1, <2>3, <2>4, <2>5, <2>6, <2>7, <2>8, <2>9, <2>10, <2>11 DEF Quiet, PoolStep
<1>2. ASSUME NEW c \in Callers, Python(c) PROVE Rest'
  <2>1. UNCHANGED <<closing, pool, job, called, commits>>
      BY <1>2 DEF Python, PyCall, HandleToBridge, SubmitTask, PyClose, Erase, SyncReturns,
         CloseReturn
  <2>2. PythonTypes'
      BY <1>0, <1>2, <2>1 DEF PythonTypes, Python, PyCall, HandleToBridge, SubmitTask, PyClose,
         Erase, SyncReturns, CloseReturn
  <2>3. \A p \in PoolThreads : pc'[p] = pc[p]
    <3>1. ASSUME NEW op \in Ops, PyCall(c, op) PROVE \A p \in PoolThreads : pc'[p] = pc[p]
        BY <1>0, <3>1, Kinds DEF PyCall, Goto, Threads
    <3> QED
        BY <1>0, <1>2, <3>1, Kinds DEF Python, HandleToBridge, SubmitTask, PyClose, Erase,
           SyncReturns, CloseReturn, Goto, Threads
  <2>4. PutTypes'
    <3>1. CASE SubmitTask(c)
      <4>1. puts' \in 1 .. MaxPuts /\ queue' = Append(queue, puts')
          BY <1>0, <3>1, BridgeAssumption DEF SubmitTask, PutTypes
      <4> QED
          BY <1>0, <2>1, <4>1, AppendProperties DEF PutTypes
    <3>2. CASE ~SubmitTask(c)
      <4>1. UNCHANGED <<queue, puts>>
          BY <1>2, <3>2 DEF Python, PyCall, HandleToBridge, PyClose, Erase, SyncReturns,
             CloseReturn
      <4> QED
          BY <1>0, <2>1, <4>1 DEF PutTypes
    <3> QED
        BY <3>1, <3>2
  <2> QED
      BY <1>0, <2>1, <2>2, <2>3, <2>4 DEF CloseTypes, PoolTypes, JobTypes
<1>3. ASSUME NEW c \in Callers, Closes(c) PROVE Rest'
  <2>1. UNCHANGED <<python, work, commits>> /\ \A p \in PoolThreads : pc'[p] = pc[p]
      BY <1>0, <1>3, Kinds DEF Closes, DrainQueue, Signal, NotifyAll, LockReconnect, Join, FlushPool, Drop, Threads
  <2>2. step' \in 1 .. 35
    <3>1. step' = step + 1 /\ step <= 34
        BY <1>3, CloseTable DEF Closes, DrainQueue, Signal, NotifyAll, LockReconnect, Join, FlushPool, Drop,
           Closing
    <3> QED
        BY <1>0, <3>1 DEF CloseTypes
  <2>3. flag' \in [Groups -> BOOLEAN]
      BY <1>0, <1>3 DEF CloseTypes, Closes, DrainQueue, Signal, NotifyAll, LockReconnect, Join, FlushPool, Drop
  <2>6. missed' \in BOOLEAN
      BY <1>0, <1>3 DEF CloseTypes, Closes, DrainQueue, Signal, NotifyAll, LockReconnect, Join, FlushPool, Drop
  <2>4. gone' \subseteq Objects
    <3>1. CASE Drop(c)
      <4>1. step \in 1 .. 34 /\ Verb = "drop" /\ gone' = gone \cup {Object}
          BY <1>0, <3>1, CloseTable DEF Drop, Closing, CloseTypes
      <4>2. step \in {9, 16, 17, 21, 25, 31, 32, 33, 34}
          BY <4>1, CloseTable DEF Verb
      <4>3. Object \in Objects
          BY <4>2, CloseTable DEF Object, Objects
      <4> QED
          BY <1>0, <4>1, <4>3 DEF CloseTypes
    <3>2. CASE ~Drop(c)
        BY <1>0, <1>3, <3>2 DEF CloseTypes, Closes, DrainQueue, Signal, NotifyAll, LockReconnect, Join, FlushPool
    <3> QED
        BY <3>1, <3>2
  <2>5. PoolTypes'
    <3>1. CASE FlushPool(c)
        BY <1>0, <3>1 DEF FlushPool, PoolTypes
    <3>2. CASE ~FlushPool(c)
        BY <1>0, <1>3, <3>2 DEF PoolTypes, Closes, DrainQueue, Signal, NotifyAll, LockReconnect, Join, Drop
    <3> QED
        BY <3>1, <3>2
  <2> QED
      BY <1>0, <2>1, <2>2, <2>3, <2>4, <2>5, <2>6 DEF PythonTypes, CloseTypes, PutTypes, JobTypes
<1>4. ASSUME NEW w \in Workers, WorkerTake(w) PROVE Rest'
  <2>1. queue # <<>> /\ queue \in Seq(1 .. MaxPuts)
      BY <1>0, <1>4 DEF WorkerTake, PutTypes
  <2>2. Head(queue) \in 1 .. MaxPuts /\ Tail(queue) \in Seq(1 .. MaxPuts)
      BY <2>1, HeadTailProperties
  <2>3. \A p \in PoolThreads : pc'[p] = pc[p] /\ job'[p] = job[p]
      BY <1>0, <1>4, Kinds DEF WorkerTake, Goto, Threads, JobTypes
  <2>4. JobTypes'
    <3>1. job' \in [Workers \cup PoolThreads -> (1 .. MaxPuts) \cup Submitters \cup {None}]
        BY <1>0, <1>4, <2>2 DEF WorkerTake, JobTypes
    <3> QED
        BY <1>0, <2>3, <3>1 DEF JobTypes
  <2> QED
      BY <1>0, <1>4, <2>2, <2>4 DEF WorkerTake, PythonTypes, CloseTypes, PoolTypes, PutTypes
<1>5. ASSUME NEW w \in Workers, Callback(w) PROVE Rest'
  <2>1. job[w] \in 1 .. MaxPuts
    <3>1. w \in Holders
        BY <1>5 DEF Callback, Holders
    <3>2. job[w] \in 1 .. puts
        BY <3>1 DEF Accounted
    <3> QED
        BY <1>0, <3>2, BridgeAssumption DEF PutTypes
  <2>2. \A p \in PoolThreads : pc'[p] = pc[p] /\ job'[p] = job[p]
      BY <1>0, <1>5, Kinds DEF Callback, Goto, Threads, JobTypes
  <2>3. JobTypes'
    <3>1. job' \in [Workers \cup PoolThreads -> (1 .. MaxPuts) \cup Submitters \cup {None}]
        BY <1>0, <1>5 DEF Callback, JobTypes
    <3> QED
        BY <1>0, <2>2, <3>1 DEF JobTypes
  <2> QED
      BY <1>0, <1>5, <2>1, <2>3 DEF Callback, PythonTypes, CloseTypes, PoolTypes, PutTypes
<1>6. Rest'
    BY <1>1, <1>2, <1>3, <1>4, <1>5, StepCases
<1>7. Len(CloseSteps) + 1 = 35
    BY CloseTable
<1> QED
    BY <1>0, <1>6, <1>7 DEF Types, TypeOK, PythonTypes, CloseTypes, PoolTypes, PutTypes, JobTypes,
       Objects

----------------------------------------------------------------------------
(* The invariant, and what it says *)

LEMMA InvInit == Init => Inv
<1> SUFFICES ASSUME Init PROVE Inv
    OBVIOUS
<1>1. /\ gil = None /\ registry = None /\ registered = TRUE /\ gone = {} /\ step = 1
      /\ queue = <<>> /\ tasks = <<>> /\ results = {} /\ broken = {} /\ commits = FALSE
      /\ job = [t \in Workers \cup PoolThreads |-> None] /\ puts = 0 /\ called = {}
      /\ overtaken = {}
    BY DEF Init
<1>0. step = 1 /\ gone = {}
    BY DEF Init
<1>2. flag \in [Groups -> BOOLEAN] /\ missed \in BOOLEAN
    BY DEF Init
<1>3. pc \in [Threads -> {"head", "exit", "idle", "unborn", "probe"}]
    BY DEF Init
<1>4. \A w \in Workers : pc[w] = "idle"
  <2>1. PICK started \in MetaModes, outage \in Outages :
           pc = [t \in Threads |->
                   CASE t \in PoolThreads -> "head"
                     [] t = Committer -> IF started THEN "head" ELSE "exit"
                     [] t \in outage -> "probe"
                     [] t = ClientProber -> "unborn"
                     [] t = StoreProber -> "exit"
                     [] OTHER -> "idle"]
      BY DEF Init
  <2>2. outage \subseteq Probers
      BY BridgeAssumption
  <2> SUFFICES ASSUME NEW w \in Workers PROVE pc[w] = "idle"
      OBVIOUS
  <2>3. /\ w \in Threads /\ w \notin PoolThreads /\ w # Committer /\ w \notin outage
        /\ w # ClientProber /\ w # StoreProber
      BY <2>2, Kinds DEF Threads
  <2> QED
      BY <2>1, <2>3
<1>5. JobTypes
    BY <1>1, <1>3 DEF JobTypes, Threads
<1>6. Types
  <2>1. PythonTypes
      BY <1>1 DEF PythonTypes
  <2>2. CloseTypes
      BY <1>0, <1>2 DEF CloseTypes
  <2>3. PoolTypes /\ PutTypes
      BY <1>1, BridgeAssumption DEF PoolTypes, PutTypes
  <2>4. pc \in [Threads -> Labels]
      BY <1>3 DEF Labels
  <2> QED
      BY <1>5, <2>1, <2>2, <2>3, <2>4, TypesParts
<1>7. JoinedExited /\ GoneDropped
  <2>1. \A j \in DOMAIN CloseSteps : ~(j < step)
      BY <1>0, CloseTable
  <2> QED
      BY <1>1, <2>1 DEF JoinedExited, GoneDropped
<1>8. GilKept /\ RegistryKept /\ Drained
    BY <1>1, <1>3, Kinds DEF GilKept, RegistryKept, Drained, Threads
<1>9. Accounted
  <2>1. Holders = {} /\ Queued = {} /\ 1 .. 0 = {}
      BY <1>1, <1>4 DEF Holders, Queued
  <2> QED
      BY <1>1, <2>1 DEF Accounted
<1>10. NoneCrashed /\ Intruders /\ NoneOvertaken /\ BrokenLate /\ ProbeOver
    BY <1>1, <1>3 DEF NoneCrashed, Intruders, NoneOvertaken, BrokenLate, ProbeOver
<1> QED
    BY <1>6, <1>7, <1>8, <1>9, <1>10 DEF Inv

LEMMA InvStep == Inv /\ [Next]_vars => Inv'
<1> SUFFICES ASSUME Inv, [Next]_vars PROVE Inv'
    OBVIOUS
<1> QED
    BY TypesStep, JoinedStep, GoneStep, GilStep, RegistryStep, DrainedStep, AccountedStep,
       ProbeOverStep, IntrudersStep, NoneOvertakenStep, BrokenStep, NoneCrashedStep DEF Inv

LEMMA Invariance == Spec => []Inv
    BY InvInit, InvStep, PTL DEF Spec

(* Every variable keeps its type; in particular Close never runs past its  *)
(* last step, and what a callback releases is a put that was made.         *)
THEOREM TypeCorrect == Spec => []TypeOK
<1>1. Inv => TypeOK
    BY DEF Inv, Types
<1> QED
    BY <1>1, Invariance, PTL

(* FalconKVBridge::Close, FalconKVClientImpl::Close and FalconKVStore::Close *)
(* destroy nothing under a worker, an RPC handler, a pool thread, a         *)
(* background thread or a probe thread, nor under a Python thread that was  *)
(* not inside a call when Close began, and only such a call can enter what  *)
(* was destroyed; the detached reports of the store's proxy, which nobody   *)
(* joins, are the other exception.                                          *)
THEOREM NothingFreedInUseHolds == Spec => []NothingFreedInUse
<1>1. Inv => NothingFreedInUse
  <2> SUFFICES ASSUME Inv PROVE NothingFreedInUse
      OBVIOUS
  <2>1. ASSUME NEW t \in Threads, Uses(t) \cap gone # {} PROVE t \in overtaken \cup {Report}
    <3>1. CASE t = Report
        BY <3>1
    <3>2. CASE t # Report
      <4>1. PICK o \in Uses(t) : o \in gone
          BY <2>1
      <4> QED
          BY <3>2, <4>1, UsesKept DEF Inv
    <3> QED
        BY <3>1, <3>2
  <2> QED
      BY <2>1 DEF Inv, NothingFreedInUse, NoneCrashed
<1> QED
    BY <1>1, Invariance, PTL

(* Every put FireAndForgetPut has accepted was called back before Close    *)
(* destroys the client.                                                    *)
THEOREM PutsFinishedHolds == Spec => []PutsFinished
<1>1. Inv => PutsFinished
  <2> SUFFICES ASSUME Inv, "client" \in gone PROVE called = 1 .. puts
      BY DEF PutsFinished
  <2>1. PICK j \in DOMAIN CloseSteps : j < step /\ CloseSteps[j] = <<"drop", "client">>
      BY DEF Inv, GoneDropped
  <2>2. j = 9 /\ step \in 1 .. 35
      BY <2>1, Drops, StepRange DEF Inv
  <2>3. 3 < step /\ 3 \in DOMAIN CloseSteps /\ step > 1
      BY <2>1, <2>2, CloseTable
  <2>4. \A w \in Workers : ~Running(w)
    <3>1. CloseSteps[3][1] = "join" /\ Members(CloseSteps[3][2]) = Workers
        BY CloseTable DEF Members
    <3> QED
        BY <2>3, <3>1 DEF Inv, JoinedExited
  <2>5. Holders = {} /\ Queued = {}
      BY <2>3, <2>4 DEF Inv, Drained, Holders, Queued, Running
  <2> QED
      BY <2>5 DEF Inv, Accounted
<1> QED
    BY <1>1, Invariance, PTL
=============================================================================
