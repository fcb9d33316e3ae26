------------------------ MODULE SchedulerProxyProofs ------------------------
(***************************************************************************)
(* Proofs about SchedulerProxy for any set of IO threads and any number of *)
(* calls, reports, outages and time-outs.  Fairness plays no part in them. *)
(*                                                                         *)
(* The inductive invariant adds to the properties:                         *)
(*   Counts       an RPC has been counted for no more calls than were made *)
(*                (this bounds the tickets, which keeps them off HighBit); *)
(*   CallsUnique  threads are in different calls;                          *)
(*   EntriesOwned an entry for a thread's call carries the ticket the      *)
(*                present scheduler gave the thread, unless the call's end *)
(*                was lost, and a ticket of the present scheduler has one  *)
(*                call;                                                    *)
(*   ProbeKnown   reconnect_started_ is set only while the probe thread is *)
(*                on duty, and BYPASS is stored behind its back only late. *)
(***************************************************************************)
EXTENDS SchedulerProxy, FiniteSetTheorems, TLAPS

Inside(t) == pc[t] # "idle"
Issued(t) == pc[t] \notin {"idle", "request"}

Places == {"idle", "request", "io", "report", "bypass_io", "bypass_idle", "start_io",
           "start_idle"}

(* The type invariant, as far as it does not need counting. *)
ServerTypes ==
    /\ up \in BOOLEAN
    /\ instance \in Nat \ {0} /\ tickets \in Nat /\ recorded \in Nat
    /\ outages \in 0 .. MaxOutages /\ timeouts \in 0 .. MaxTimeouts

ProxyTypes ==
    /\ started \in BOOLEAN /\ terminated \in BOOLEAN /\ late \in BOOLEAN
    /\ state \in {"CONNECTED", "BYPASS"}
    /\ failures \in Nat
    /\ probe \in {"none", "sleep", "heartbeat", "reset", "clear", "exit"}
    /\ bypassed \in Nat
    /\ dtor \in {"none", "lock", "join", "done"}

CallerTypes ==
    /\ pc \in [IOThreads -> Places]
    /\ chan \in [IOThreads -> Channels \cup {NoChannel}]
    /\ ticket \in [IOThreads -> Nat]
    /\ issuer \in [IOThreads -> Nat]
    /\ call \in [IOThreads -> Nat]
    /\ calls \in 0 .. MaxCalls /\ reports \in 0 .. MaxReports
    /\ detached \in 0 .. reports

Entry == [ticket : Nat, call : Nat]

EntryTypes ==
    /\ ssd \subseteq Entry /\ net \subseteq Entry
    /\ \A e \in ssd \cup net : e.ticket < tickets /\ e.call \in 1 .. calls
    /\ lost \subseteq 1 .. calls

(* What a thread's place says of its locals: the call it is in, and whose  *)
(* ticket it has.                                                          *)
Placed(t) ==
    /\ call[t] <= calls
    /\ Inside(t) => call[t] # 0
    /\ issuer[t] <= instance
    /\ Issued(t) /\ issuer[t] = 0 => ticket[t] >= HighBit
    /\ Issued(t) /\ issuer[t] = instance => ticket[t] < tickets
    /\ ~Issued(t) => issuer[t] = 0
    /\ pc[t] \in {"bypass_idle", "start_idle"} => call[t] \in lost

AllPlaced == \A t \in IOThreads : Placed(t)

Types == ServerTypes /\ ProxyTypes /\ CallerTypes /\ EntryTypes /\ AllPlaced

CallsUnique ==
    \A t, u \in IOThreads : Inside(t) /\ Inside(u) /\ t # u => call[t] # call[u]

(* The entry e and the thread t agree on who is whose. *)
Owned(e, t) ==
    /\ Inside(t) /\ call[t] = e.call =>
          /\ Issued(t)
          /\ e.call \in lost \/ (e.ticket = ticket[t] /\ issuer[t] = instance)
    /\ Issued(t) /\ issuer[t] = instance /\ ticket[t] = e.ticket => call[t] = e.call

EntriesOwned == \A e \in ssd \cup net, t \in IOThreads : Owned(e, t)

Requesting == {t \in IOThreads : pc[t] = "request"}
Reportable == {t \in IOThreads : pc[t] \in {"request", "io", "report", "bypass_io", "start_io"}}

(* A call asks for one ticket, makes up one at most, and is recorded once; *)
(* the scheduler restarts once per outage.                                 *)
Counts ==
    /\ tickets + Cardinality(Requesting) <= calls
    /\ bypassed + Cardinality(Requesting) <= calls
    /\ recorded + Cardinality(Reportable) + detached <= calls + reports
    /\ instance <= outages + (IF up THEN 2 ELSE 1)

ProbeKnown ==
    /\ started /\ dtor = "none" /\ ~terminated =>
          probe \in {"sleep", "heartbeat", "reset", "clear"}
    /\ state = "BYPASS" /\ probe \in {"reset", "clear"} => late

Inv ==
    /\ Types /\ CallsUnique /\ EntriesOwned /\ Counts
    /\ NoPhantomIO /\ ProbeKnown /\ BypassProbed

----------------------------------------------------------------------------
(* The steps that concern neither a call nor the scheduler's lists. *)
Background == ProbeStep \/ OutageBegins \/ OutageEnds \/ Stop \/ LockAndJoin \/ Joined

LEMMA BackgroundStep ==
    ASSUME Background \/ UNCHANGED vars
    PROVE  UNCHANGED <<server, pc, callers, bypassed, reports, detached, lost>>
<1> USE DEF proxy, server, callers
<1>1. CASE UNCHANGED vars
    BY <1>1 DEF vars
<1>2. CASE ProbeStep
    BY <1>2 DEF ProbeStep, ProbeWakes, ProbeFails, ProbeSucceeds, ProbeResets, ProbeClears
<1>3. CASE OutageBegins \/ OutageEnds
    BY <1>3 DEF OutageBegins, OutageEnds
<1>4. CASE Stop \/ LockAndJoin \/ Joined
    BY <1>4 DEF Stop, LockAndJoin, Joined
<1> QED
    BY <1>1, <1>2, <1>3, <1>4 DEF Background

(* The steps of the system, by what they do. *)
LEMMA StepCases ==
    ASSUME [Next]_vars
    PROVE  \/ Background \/ UNCHANGED vars
           \/ SchedulerRestarts \/ StoreReportIOAsync \/ StoreReportIO
           \/ \E t \in IOThreads : CallStep(t) \/ \E ch \in Channels : RequestIO(t, ch)
    BY DEF Next, Background

(* The scheduler's counters keep their types.                              *)
LEMMA ServerTypesStep ==
    ASSUME ServerTypes, [Next]_vars
    PROVE  ServerTypes'
<1>1. MaxOutages \in Nat /\ MaxTimeouts \in Nat
    BY SchedulerAssumption
<1> USE <1>1 DEF ServerTypes, Goto, server, network, proxy, callers
<1>2. CASE Background \/ UNCHANGED vars
  <2>1. CASE ProbeStep
      BY <2>1 DEF ProbeStep, ProbeWakes, ProbeFails, ProbeSucceeds, ProbeResets, ProbeClears
  <2>2. CASE OutageBegins
    <3>1. up' = FALSE
        BY <2>2 DEF OutageBegins
    <3>2. outages' \in 0 .. MaxOutages
        BY <2>2 DEF OutageBegins
    <3> QED
        BY <2>2, <3>1, <3>2 DEF OutageBegins
  <2>3. CASE OutageEnds
      BY <2>3 DEF OutageEnds
  <2>4. CASE Stop \/ LockAndJoin \/ Joined
      BY <2>4 DEF Stop, LockAndJoin, Joined
  <2>5. CASE UNCHANGED vars
      BY <2>5 DEF vars
  <2> QED
      BY <1>2, <2>1, <2>2, <2>3, <2>4, <2>5 DEF Background
<1>3. CASE SchedulerRestarts
    BY <1>3 DEF SchedulerRestarts
<1>4. CASE StoreReportIOAsync
    BY <1>4 DEF StoreReportIOAsync
<1>5. CASE StoreReportIO
    BY <1>5 DEF StoreReportIO, HandleIOCompletion, OnIODone
<1>6. ASSUME NEW t \in IOThreads, CallStep(t) \/ \E ch \in Channels : RequestIO(t, ch)
      PROVE  ServerTypes'
  <2>1. ASSUME NEW ch \in Channels, RequestIO(t, ch) PROVE ServerTypes'
      BY <2>1 DEF RequestIO, MakeBypassResponse
  <2>2. CASE RequestOk(t)
      BY <2>2 DEF RequestOk, HandleRequestIO, OnIOStart
  <2>3. CASE RequestFails(t)
      BY <2>3 DEF RequestFails, NotExecuted, TooLate, HandleRequestIO, OnIOStart,
         MakeBypassResponse, AfterFailure
  <2>4. CASE ReportIOCompletion(t)
      BY <2>4 DEF ReportIOCompletion, MoveOn
  <2>5. CASE ReportOk(t)
      BY <2>5 DEF ReportOk, HandleIOCompletion, OnIODone, MoveOn
  <2>6. CASE ReportFails(t)
      BY <2>6 DEF ReportFails, NotExecuted, TooLate, HandleIOCompletion, OnIODone, MoveOn,
         AfterFailure
  <2>7. CASE EnterBypass(t)
      BY <2>7 DEF EnterBypass
  <2>8. CASE StartReconnectProbe(t)
      BY <2>8 DEF StartReconnectProbe, MoveOn
  <2> QED
      BY <1>6, <2>1, <2>2, <2>3, <2>4, <2>5, <2>6, <2>7, <2>8 DEF CallStep
<1> QED
    BY <1>2, <1>3, <1>4, <1>5, <1>6, StepCases

(* The proxy's variables keep their types.                                 *)
LEMMA ProxyTypesStep ==
    ASSUME ProxyTypes, [Next]_vars
    PROVE  ProxyTypes'
<1> USE DEF ProxyTypes, Goto, server, network, proxy, callers
<1>1. CASE Background \/ UNCHANGED vars
  <2>1. CASE ProbeStep
    <3>1. CASE ProbeWakes \/ ProbeFails
        BY <3>1 DEF ProbeWakes, ProbeFails
    <3>2. CASE ProbeSucceeds
        BY <3>2 DEF ProbeSucceeds
    <3>3. CASE ProbeResets
        BY <3>3 DEF ProbeResets
    <3>4. CASE ProbeClears
        BY <3>4 DEF ProbeClears
    <3> QED
        BY <2>1, <3>1, <3>2, <3>3, <3>4 DEF ProbeStep
  <2>2. CASE OutageBegins \/ OutageEnds
      BY <2>2 DEF OutageBegins, OutageEnds
  <2>3. CASE Stop \/ LockAndJoin \/ Joined
      BY <2>3 DEF Stop, LockAndJoin, Joined
  <2>4. CASE UNCHANGED vars
      BY <2>4 DEF vars
  <2> QED
      BY <1>1, <2>1, <2>2, <2>3, <2>4 DEF Background
<1>2. CASE SchedulerRestarts
    BY <1>2 DEF SchedulerRestarts
<1>3. CASE StoreReportIOAsync
    BY <1>3 DEF StoreReportIOAsync
<1>4. CASE StoreReportIO
    BY <1>4 DEF StoreReportIO, HandleIOCompletion, OnIODone
<1>5. ASSUME NEW t \in IOThreads, CallStep(t) \/ \E ch \in Channels : RequestIO(t, ch)
      PROVE  ProxyTypes'
  <2>1. ASSUME NEW ch \in Channels, RequestIO(t, ch) PROVE ProxyTypes'
      BY <2>1 DEF RequestIO, MakeBypassResponse
  <2>2. CASE RequestOk(t)
      BY <2>2 DEF RequestOk, HandleRequestIO, OnIOStart
  <2>3. CASE RequestFails(t)
      BY <2>3 DEF RequestFails, NotExecuted, TooLate, HandleRequestIO, OnIOStart,
         MakeBypassResponse, AfterFailure
  <2>4. CASE ReportIOCompletion(t)
      BY <2>4 DEF ReportIOCompletion, MoveOn
  <2>5. CASE ReportOk(t)
      BY <2>5 DEF ReportOk, HandleIOCompletion, OnIODone, MoveOn
  <2>6. CASE ReportFails(t)
      BY <2>6 DEF ReportFails, NotExecuted, TooLate, HandleIOCompletion, OnIODone, MoveOn,
         AfterFailure
  <2>7. CASE EnterBypass(t)
      BY <2>7 DEF EnterBypass
  <2>8. CASE StartReconnectProbe(t)
      BY <2>8 DEF StartReconnectProbe, MoveOn
  <2> QED
      BY <1>5, <2>1, <2>2, <2>3, <2>4, <2>5, <2>6, <2>7, <2>8 DEF CallStep
<1> QED
    BY <1>1, <1>2, <1>3, <1>4, <1>5, StepCases

(* The callers' variables keep their types.                                *)
LEMMA CallerTypesStep ==
    ASSUME ServerTypes, ProxyTypes, CallerTypes, [Next]_vars
    PROVE  CallerTypes'
<1>1. /\ HighBit \in Nat /\ MaxCalls \in Nat /\ MaxReports \in Nat /\ bypassed \in Nat
      /\ NextBypassTicket \in Nat /\ tickets \in Nat /\ instance \in Nat
    BY SchedulerAssumption DEF NextBypassTicket, ProxyTypes, ServerTypes
<1> USE <1>1 DEF CallerTypes, Places, Goto, server, network, proxy, callers
<1>2. CASE Background \/ UNCHANGED vars
    BY <1>2, BackgroundStep
<1>3. CASE SchedulerRestarts
    BY <1>3 DEF SchedulerRestarts
<1>4. CASE StoreReportIOAsync
    BY <1>4 DEF StoreReportIOAsync
<1>5. CASE StoreReportIO
    BY <1>5 DEF StoreReportIO, HandleIOCompletion, OnIODone
<1>6. ASSUME NEW t \in IOThreads, CallStep(t) \/ \E ch \in Channels : RequestIO(t, ch)
      PROVE  CallerTypes'
  <2>1. ASSUME NEW ch \in Channels, RequestIO(t, ch) PROVE CallerTypes'
      BY <2>1 DEF RequestIO, MakeBypassResponse
  <2>2. CASE RequestOk(t)
      BY <2>2 DEF RequestOk, HandleRequestIO, OnIOStart
  <2>3. CASE RequestFails(t)
      BY <2>3 DEF RequestFails, NotExecuted, TooLate, HandleRequestIO, OnIOStart,
         MakeBypassResponse, AfterFailure
  <2>4. CASE ReportIOCompletion(t)
      BY <2>4 DEF ReportIOCompletion, MoveOn
  <2>5. CASE ReportOk(t)
      BY <2>5 DEF ReportOk, HandleIOCompletion, OnIODone, MoveOn
  <2>6. CASE ReportFails(t)
      BY <2>6 DEF ReportFails, NotExecuted, TooLate, HandleIOCompletion, OnIODone, MoveOn,
         AfterFailure
  <2>7. CASE EnterBypass(t)
      BY <2>7 DEF EnterBypass
  <2>8. CASE StartReconnectProbe(t)
      BY <2>8 DEF StartReconnectProbe, MoveOn
  <2> QED
      BY <1>6, <2>1, <2>2, <2>3, <2>4, <2>5, <2>6, <2>7, <2>8 DEF CallStep
<1> QED
    BY <1>2, <1>3, <1>4, <1>5, <1>6, StepCases

(* The lists hold tickets that were issued, for calls that were made.      *)
LEMMA EntryTypesStep ==
    ASSUME ServerTypes, CallerTypes, EntryTypes, AllPlaced, [Next]_vars
    PROVE  EntryTypes'
<1>1. /\ tickets \in Nat /\ instance \in Nat \ {0} /\ calls \in Nat
      /\ pc \in [IOThreads -> Places] /\ call \in [IOThreads -> Nat]
      /\ ticket \in [IOThreads -> Nat] /\ issuer \in [IOThreads -> Nat]
      /\ \A t \in IOThreads : call[t] <= calls /\ (pc[t] # "idle" => call[t] # 0)
    BY DEF ServerTypes, CallerTypes, AllPlaced, Placed, Inside
<1> USE <1>1 DEF EntryTypes, Entry, Goto, server, network, proxy, callers
<1>2. CASE Background \/ UNCHANGED vars
    BY <1>2, BackgroundStep
<1>3. CASE SchedulerRestarts
    BY <1>3 DEF SchedulerRestarts
<1>4. CASE StoreReportIOAsync
    BY <1>4 DEF StoreReportIOAsync
<1>5. CASE StoreReportIO
    BY <1>5 DEF StoreReportIO, HandleIOCompletion, OnIODone
<1>6. ASSUME NEW t \in IOThreads, CallStep(t) \/ \E ch \in Channels : RequestIO(t, ch)
      PROVE  EntryTypes'
  <2>1. ASSUME NEW ch \in Channels, RequestIO(t, ch) PROVE EntryTypes'
      BY <2>1 DEF RequestIO, MakeBypassResponse
  <2>2. CASE RequestOk(t)
      BY <2>2 DEF RequestOk, HandleRequestIO, OnIOStart
  <2>3. CASE RequestFails(t)
    <3>1. lost' \subseteq 1 .. calls' /\ calls' = calls
      <4>1. call[t] \in 1 .. calls
          BY <2>3 DEF RequestFails
      <4>2. calls' = calls /\ lost' \subseteq lost \cup {call[t]}
          BY <2>3 DEF RequestFails
      <4> QED
          BY <4>1, <4>2
    <3>2. CASE NotExecuted
        BY <3>1, <3>2 DEF NotExecuted
    <3>3. CASE HandleRequestIO(t)
      <4>1. [ticket |-> tickets, call |-> call[t]] \in Entry /\ call[t] \in 1 .. calls
          BY <2>3 DEF RequestFails
      <4> QED
          BY <3>1, <3>3, <4>1 DEF HandleRequestIO, OnIOStart
    <3> QED
        BY <2>3, <3>2, <3>3 DEF RequestFails
  <2>4. CASE ReportIOCompletion(t)
    <3>1. lost' \subseteq 1 .. calls /\ calls' = calls
      <4>1. call[t] \in 1 .. calls
          BY <2>4 DEF ReportIOCompletion
      <4>2. calls' = calls /\ lost' \subseteq lost \cup {call[t]}
          BY <2>4 DEF ReportIOCompletion
      <4> QED
          BY <4>1, <4>2
    <3> QED
        BY <2>4, <3>1 DEF ReportIOCompletion
  <2>5. CASE ReportOk(t)
      BY <2>5 DEF ReportOk, HandleIOCompletion, OnIODone, MoveOn
  <2>6. CASE ReportFails(t)
    <3>1. lost' \subseteq 1 .. calls' /\ calls' = calls
      <4>1. call[t] \in 1 .. calls
          BY <2>6 DEF ReportFails
      <4>2. calls' = calls /\ lost' \subseteq lost \cup {call[t]}
          BY <2>6 DEF ReportFails
      <4> QED
          BY <4>1, <4>2
    <3>2. CASE NotExecuted
        BY <3>1, <3>2 DEF NotExecuted
    <3>3. CASE HandleIOCompletion(ticket[t])
        BY <3>1, <3>3 DEF HandleIOCompletion, OnIODone
    <3> QED
        BY <2>6, <3>2, <3>3 DEF ReportFails
  <2>7. CASE EnterBypass(t)
      BY <2>7 DEF EnterBypass
  <2>8. CASE StartReconnectProbe(t)
      BY <2>8 DEF StartReconnectProbe, MoveOn
  <2> QED
      BY <1>6, <2>1, <2>2, <2>3, <2>4, <2>5, <2>6, <2>7, <2>8 DEF CallStep
<1> QED
    BY <1>2, <1>3, <1>4, <1>5, <1>6, StepCases

(* A thread's locals agree with its place.                                 *)
LEMMA PlacedStep ==
    ASSUME ServerTypes, ProxyTypes, CallerTypes, AllPlaced, [Next]_vars
    PROVE  AllPlaced'
<1> SUFFICES ASSUME NEW u \in IOThreads
             PROVE  Placed(u)'
    BY DEF AllPlaced
<1> DEFINE Goal == Placed(u)'
<1>1. /\ tickets \in Nat /\ instance \in Nat \ {0} /\ calls \in Nat
      /\ pc \in [IOThreads -> Places] /\ call \in [IOThreads -> Nat]
      /\ ticket \in [IOThreads -> Nat] /\ issuer \in [IOThreads -> Nat]
      /\ HighBit \in Nat /\ NextBypassTicket \in Nat /\ NextBypassTicket >= HighBit
    BY SchedulerAssumption DEF ServerTypes, ProxyTypes, CallerTypes, NextBypassTicket
<1> USE <1>1 DEF AllPlaced, Placed, Inside, Issued, Goto, server, network, proxy,
   callers
<1>2. CASE Background \/ UNCHANGED vars
    BY <1>2, BackgroundStep
<1>3. CASE SchedulerRestarts
    BY <1>3 DEF SchedulerRestarts
<1>4. CASE StoreReportIOAsync
    BY <1>4 DEF StoreReportIOAsync
<1>5. CASE StoreReportIO
    BY <1>5 DEF StoreReportIO, HandleIOCompletion, OnIODone
<1>6. ASSUME NEW t \in IOThreads, CallStep(t) \/ \E ch \in Channels : RequestIO(t, ch)
      PROVE  Goal
  <2>1. ASSUME NEW ch \in Channels, RequestIO(t, ch) PROVE Goal
      BY <2>1 DEF RequestIO, MakeBypassResponse
  <2>2. CASE RequestOk(t)
      BY <2>2 DEF RequestOk, HandleRequestIO, OnIOStart
  <2>3. CASE RequestFails(t)
      BY <2>3 DEF RequestFails, NotExecuted, TooLate, HandleRequestIO, OnIOStart,
         MakeBypassResponse, AfterFailure
  <2>4. CASE ReportIOCompletion(t)
      BY <2>4 DEF ReportIOCompletion, MoveOn
  <2>5. CASE ReportOk(t)
      BY <2>5 DEF ReportOk, HandleIOCompletion, OnIODone, MoveOn
  <2>6. CASE ReportFails(t)
      BY <2>6 DEF ReportFails, NotExecuted, TooLate, HandleIOCompletion, OnIODone, MoveOn,
         AfterFailure
  <2>7. CASE EnterBypass(t)
      BY <2>7 DEF EnterBypass
  <2>8. CASE StartReconnectProbe(t)
      BY <2>8 DEF StartReconnectProbe, MoveOn
  <2> QED
      BY <1>6, <2>1, <2>2, <2>3, <2>4, <2>5, <2>6, <2>7, <2>8 DEF CallStep
<1> QED
    BY <1>2, <1>3, <1>4, <1>5, <1>6, StepCases

(* A new call has a number of its own.                                     *)
LEMMA CallsUniqueStep ==
    ASSUME CallerTypes, AllPlaced, CallsUnique, [Next]_vars
    PROVE  CallsUnique'
<1> SUFFICES ASSUME NEW u \in IOThreads, NEW v \in IOThreads, u # v
             PROVE  Inside(u)' /\ Inside(v)' => call'[u] # call'[v]
    BY DEF CallsUnique
<1> DEFINE Goal == Inside(u)' /\ Inside(v)' => call'[u] # call'[v]
<1>1. /\ calls \in Nat /\ pc \in [IOThreads -> Places] /\ call \in [IOThreads -> Nat]
      /\ \A t \in IOThreads : call[t] <= calls
    BY DEF CallerTypes, AllPlaced, Placed
<1> USE <1>1 DEF CallsUnique, Inside, Goto, server, network, proxy, callers
<1>2. CASE Background \/ UNCHANGED vars
    BY <1>2, BackgroundStep
<1>3. CASE SchedulerRestarts
    BY <1>3 DEF SchedulerRestarts
<1>4. CASE StoreReportIOAsync
    BY <1>4 DEF StoreReportIOAsync
<1>5. CASE StoreReportIO
    BY <1>5 DEF StoreReportIO, HandleIOCompletion, OnIODone
<1>6. ASSUME NEW t \in IOThreads, CallStep(t) \/ \E ch \in Channels : RequestIO(t, ch)
      PROVE  Goal
  <2>1. ASSUME NEW ch \in Channels, RequestIO(t, ch) PROVE Goal
      BY <2>1 DEF RequestIO, MakeBypassResponse
  <2>2. CASE RequestOk(t)
      BY <2>2 DEF RequestOk, HandleRequestIO, OnIOStart
  <2>3. CASE RequestFails(t)
      BY <2>3 DEF RequestFails, NotExecuted, TooLate, HandleRequestIO, OnIOStart,
         MakeBypassResponse, AfterFailure
  <2>4. CASE ReportIOCompletion(t)
      BY <2>4 DEF ReportIOCompletion, MoveOn
  <2>5. CASE ReportOk(t)
      BY <2>5 DEF ReportOk, HandleIOCompletion, OnIODone, MoveOn
  <2>6. CASE ReportFails(t)
      BY <2>6 DEF ReportFails, NotExecuted, TooLate, HandleIOCompletion, OnIODone, MoveOn,
         AfterFailure
  <2>7. CASE EnterBypass(t)
      BY <2>7 DEF EnterBypass
  <2>8. CASE StartReconnectProbe(t)
      BY <2>8 DEF StartReconnectProbe, MoveOn
  <2> QED
      BY <1>6, <2>1, <2>2, <2>3, <2>4, <2>5, <2>6, <2>7, <2>8 DEF CallStep
<1> QED
    BY <1>2, <1>3, <1>4, <1>5, <1>6, StepCases

(* Entries and tickets of one scheduler go together.                       *)
LEMMA EntriesOwnedStep ==
    ASSUME ServerTypes, CallerTypes, EntryTypes, AllPlaced, CallsUnique, EntriesOwned, [Next]_vars
    PROVE  EntriesOwned'
<1> SUFFICES ASSUME NEW e \in ssd' \cup net', NEW u \in IOThreads
             PROVE  Owned(e, u)'
    BY DEF EntriesOwned
<1> DEFINE Goal == Owned(e, u)'
<1>1. /\ tickets \in Nat /\ instance \in Nat \ {0} /\ calls \in Nat
      /\ pc \in [IOThreads -> Places] /\ call \in [IOThreads -> Nat]
      /\ ticket \in [IOThreads -> Nat] /\ issuer \in [IOThreads -> Nat]
      /\ \A d \in ssd \cup net : d.ticket \in Nat /\ d.ticket < tickets /\ d.call \in 1 .. calls
    BY DEF ServerTypes, CallerTypes, EntryTypes, Entry
<1> USE <1>1 DEF EntriesOwned, Owned, Inside, Issued, Goto, server, network, proxy,
   callers
<1>2. CASE Background \/ UNCHANGED vars
    BY <1>2, BackgroundStep
<1>3. CASE SchedulerRestarts
    BY <1>3 DEF SchedulerRestarts
<1>4. CASE StoreReportIOAsync
    BY <1>4 DEF StoreReportIOAsync
<1>5. CASE StoreReportIO
    BY <1>5 DEF StoreReportIO, HandleIOCompletion, OnIODone
<1>6. ASSUME NEW t \in IOThreads, CallStep(t) \/ \E ch \in Channels : RequestIO(t, ch)
      PROVE  Goal
  <2>1. ASSUME NEW ch \in Channels, RequestIO(t, ch) PROVE Goal
      BY <2>1 DEF RequestIO, MakeBypassResponse
  <2>2. CASE RequestOk(t)
    <3>1. /\ instance' = instance /\ tickets' = tickets + 1 /\ call' = call
          /\ e \in ssd \cup net \/ e = [ticket |-> tickets, call |-> call[t]]
        BY <2>2 DEF RequestOk, HandleRequestIO, OnIOStart
    <3>2. pc[t] = "request" /\ pc'[t] = "io" /\ ticket'[t] = tickets /\ issuer'[t] = instance
        BY <2>2 DEF RequestOk
    <3>3. lost' = lost
        BY <2>2 DEF RequestOk
    <3>4. CASE e \in ssd \cup net
      <4>1. CASE u = t
        <5>1. call[t] # e.call
            BY <3>2, <3>4
        <5>2. e.ticket # tickets
            BY <3>4
        <5> QED
            BY <3>1, <3>2, <4>1, <5>1, <5>2
      <4>2. CASE u # t
        <5>1. pc'[u] = pc[u] /\ ticket'[u] = ticket[u] /\ issuer'[u] = issuer[u]
            BY <2>2, <4>2 DEF RequestOk
        <5> QED
            BY <3>1, <3>3, <3>4, <5>1
      <4> QED
          BY <4>1, <4>2
    <3>5. CASE e = [ticket |-> tickets, call |-> call[t]]
      <4>1. CASE u = t
          BY <3>1, <3>2, <3>5, <4>1
      <4>2. CASE u # t
        <5>1. pc'[u] = pc[u] /\ ticket'[u] = ticket[u] /\ issuer'[u] = issuer[u]
            BY <2>2, <4>2 DEF RequestOk
        <5>2. Inside(u) => call[u] # call[t]
            BY <3>2, <4>2 DEF CallsUnique
        <5>3. Issued(u) /\ issuer[u] = instance => ticket[u] < tickets
            BY DEF AllPlaced, Placed
        <5> QED
            BY <3>1, <3>5, <5>1, <5>2, <5>3
      <4> QED
          BY <4>1, <4>2
    <3> QED
        BY <3>1, <3>4, <3>5
  <2>3. CASE RequestFails(t)
    <3>1. /\ instance' = instance /\ call' = call
          /\ e \in ssd \cup net \/ e = [ticket |-> tickets, call |-> call[t]]
        BY <2>3 DEF RequestFails, NotExecuted, HandleRequestIO, OnIOStart
    <3>2. /\ pc[t] = "request" /\ pc'[t] \in {"io", "bypass_io"}
          /\ issuer'[t] = 0 /\ lost' = lost \cup {call[t]}
        BY <2>3 DEF RequestFails, AfterFailure, MakeBypassResponse
    <3>3. CASE u = t
      <4>1. CASE e \in ssd \cup net
        <5>1. call[t] # e.call
            BY <3>2, <4>1
        <5> QED
            BY <3>1, <3>2, <3>3, <5>1
      <4>2. CASE e = [ticket |-> tickets, call |-> call[t]]
          BY <3>1, <3>2, <3>3, <4>2
      <4> QED
          BY <3>1, <4>1, <4>2
    <3>4. CASE u # t
      <4>1. pc'[u] = pc[u] /\ ticket'[u] = ticket[u] /\ issuer'[u] = issuer[u]
          BY <2>3, <3>4 DEF RequestFails, MakeBypassResponse
      <4>2. CASE e \in ssd \cup net
          BY <3>1, <3>2, <4>1, <4>2
      <4>3. CASE e = [ticket |-> tickets, call |-> call[t]]
        <5>1. Inside(u) => call[u] # call[t]
            BY <3>2, <3>4 DEF CallsUnique
        <5>2. Issued(u) /\ issuer[u] = instance => ticket[u] < tickets
            BY DEF AllPlaced, Placed
        <5> QED
            BY <3>1, <4>1, <4>3, <5>1, <5>2
      <4> QED
          BY <3>1, <4>2, <4>3
    <3> QED
        BY <3>3, <3>4
  <2>4. CASE ReportIOCompletion(t)
      BY <2>4 DEF ReportIOCompletion, MoveOn
  <2>5. CASE ReportOk(t)
      BY <2>5 DEF ReportOk, HandleIOCompletion, OnIODone, MoveOn
  <2>6. CASE ReportFails(t)
      BY <2>6 DEF ReportFails, NotExecuted, TooLate, HandleIOCompletion, OnIODone, MoveOn,
         AfterFailure
  <2>7. CASE EnterBypass(t)
      BY <2>7 DEF EnterBypass
  <2>8. CASE StartReconnectProbe(t)
      BY <2>8 DEF StartReconnectProbe, MoveOn
  <2> QED
      BY <1>6, <2>1, <2>2, <2>3, <2>4, <2>5, <2>6, <2>7, <2>8 DEF CallStep
<1> QED
    BY <1>2, <1>3, <1>4, <1>5, <1>6, StepCases

(* An entry leaves with its call.                                          *)
LEMMA NoPhantomStep ==
    ASSUME CallerTypes, AllPlaced, EntriesOwned, NoPhantomIO, [Next]_vars
    PROVE  NoPhantomIO'
<1> SUFFICES ASSUME NEW e \in ssd' \cup net'
             PROVE  e.call \in lost' \/ \E u \in IOThreads : Inside(u)' /\ call'[u] = e.call
    BY DEF NoPhantomIO, Inside
<1> DEFINE Goal == e.call \in lost' \/ \E u \in IOThreads : Inside(u)' /\ call'[u] = e.call
<1>1. /\ pc \in [IOThreads -> Places] /\ call \in [IOThreads -> Nat]
      /\ \A t \in IOThreads : pc[t] \in {"bypass_idle", "start_idle"} => call[t] \in lost
    BY DEF CallerTypes, AllPlaced, Placed
<1> USE <1>1 DEF NoPhantomIO, Inside, Goto, server, network, proxy, callers
<1>2. CASE Background \/ UNCHANGED vars
    BY <1>2, BackgroundStep
<1>3. CASE SchedulerRestarts
    BY <1>3 DEF SchedulerRestarts
<1>4. CASE StoreReportIOAsync
    BY <1>4 DEF StoreReportIOAsync
<1>5. CASE StoreReportIO
    BY <1>5 DEF StoreReportIO, HandleIOCompletion, OnIODone
<1>6. ASSUME NEW t \in IOThreads, CallStep(t) \/ \E ch \in Channels : RequestIO(t, ch)
      PROVE  Goal
  <2>1. ASSUME NEW ch \in Channels, RequestIO(t, ch) PROVE Goal
      BY <2>1 DEF RequestIO, MakeBypassResponse
  <2>2. CASE RequestOk(t)
      BY <2>2 DEF RequestOk, HandleRequestIO, OnIOStart
  <2>3. CASE RequestFails(t)
      BY <2>3 DEF RequestFails, NotExecuted, TooLate, HandleRequestIO, OnIOStart,
         MakeBypassResponse, AfterFailure
  <2>4. CASE ReportIOCompletion(t)
      BY <2>4 DEF ReportIOCompletion, MoveOn
  <2>5. CASE ReportOk(t)
    <3>1. e \in ssd \cup net /\ e.ticket # ticket[t] /\ lost' = lost
        BY <2>5 DEF ReportOk, HandleIOCompletion, OnIODone
    <3>2. CASE e.call \in lost
        BY <3>1, <3>2
    <3>3. CASE e.call \notin lost
      <4>1. PICK u \in IOThreads : pc[u] # "idle" /\ call[u] = e.call
          BY <3>1, <3>3
      <4>2. u # t
          BY <3>1, <3>3, <4>1 DEF EntriesOwned, Owned
      <4> QED
          BY <2>5, <4>1, <4>2 DEF ReportOk, MoveOn
    <3> QED
        BY <3>2, <3>3
  <2>6. CASE ReportFails(t)
      BY <2>6 DEF ReportFails, NotExecuted, TooLate, HandleIOCompletion, OnIODone, MoveOn,
         AfterFailure
  <2>7. CASE EnterBypass(t)
      BY <2>7 DEF EnterBypass
  <2>8. CASE StartReconnectProbe(t)
      BY <2>8 DEF StartReconnectProbe, MoveOn
  <2> QED
      BY <1>6, <2>1, <2>2, <2>3, <2>4, <2>5, <2>6, <2>7, <2>8 DEF CallStep
<1> QED
    BY <1>2, <1>3, <1>4, <1>5, <1>6, StepCases

(* The flag and the probe thread move together.                            *)
LEMMA ProbeKnownStep ==
    ASSUME ProxyTypes, ProbeKnown, [Next]_vars
    PROVE  ProbeKnown'
<1> USE DEF ProxyTypes, ProbeKnown, Stopped, Goto, server, network, proxy, callers
<1>1. CASE Background \/ UNCHANGED vars
  <2>1. CASE ProbeStep
      BY <2>1 DEF ProbeStep, ProbeWakes, ProbeFails, ProbeSucceeds, ProbeResets, ProbeClears
  <2>2. CASE OutageBegins \/ OutageEnds
      BY <2>2 DEF OutageBegins, OutageEnds
  <2>3. CASE Stop \/ LockAndJoin \/ Joined
      BY <2>3 DEF Stop, LockAndJoin, Joined
  <2>4. CASE UNCHANGED vars
      BY <2>4 DEF vars
  <2> QED
      BY <1>1, <2>1, <2>2, <2>3, <2>4 DEF Background
<1>2. CASE SchedulerRestarts
    BY <1>2 DEF SchedulerRestarts
<1>3. CASE StoreReportIOAsync
    BY <1>3 DEF StoreReportIOAsync
<1>4. CASE StoreReportIO
    BY <1>4 DEF StoreReportIO, HandleIOCompletion, OnIODone
<1>5. ASSUME NEW t \in IOThreads, CallStep(t) \/ \E ch \in Channels : RequestIO(t, ch)
      PROVE  ProbeKnown'
  <2>1. ASSUME NEW ch \in Channels, RequestIO(t, ch) PROVE ProbeKnown'
      BY <2>1 DEF RequestIO, MakeBypassResponse
  <2>2. CASE RequestOk(t)
      BY <2>2 DEF RequestOk, HandleRequestIO, OnIOStart
  <2>3. CASE RequestFails(t)
      BY <2>3 DEF RequestFails, NotExecuted, TooLate, HandleRequestIO, OnIOStart,
         MakeBypassResponse, AfterFailure
  <2>4. CASE ReportIOCompletion(t)
      BY <2>4 DEF ReportIOCompletion, MoveOn
  <2>5. CASE ReportOk(t)
      BY <2>5 DEF ReportOk, HandleIOCompletion, OnIODone, MoveOn
  <2>6. CASE ReportFails(t)
      BY <2>6 DEF ReportFails, NotExecuted, TooLate, HandleIOCompletion, OnIODone, MoveOn,
         AfterFailure
  <2>7. CASE EnterBypass(t)
      BY <2>7 DEF EnterBypass
  <2>8. CASE StartReconnectProbe(t)
      BY <2>8 DEF StartReconnectProbe, MoveOn
  <2> QED
      BY <1>5, <2>1, <2>2, <2>3, <2>4, <2>5, <2>6, <2>7, <2>8 DEF CallStep
<1> QED
    BY <1>1, <1>2, <1>3, <1>4, <1>5, StepCases

(* BYPASS is not left to itself.                                           *)
LEMMA BypassProbedStep ==
    ASSUME CallerTypes, ProxyTypes, ProbeKnown, BypassProbed, [Next]_vars
    PROVE  BypassProbed'
<1>1. pc \in [IOThreads -> Places] /\ ProxyTypes
    BY DEF CallerTypes
<1> USE <1>1 DEF ProbeKnown, BypassProbed, Stopped, Goto, server, network, proxy,
   callers
<1>2. CASE Background \/ UNCHANGED vars
  <2>1. CASE ProbeStep
      BY <2>1 DEF ProbeStep, ProbeWakes, ProbeFails, ProbeSucceeds, ProbeResets, ProbeClears
  <2>2. CASE OutageBegins \/ OutageEnds
      BY <2>2 DEF OutageBegins, OutageEnds
  <2>3. CASE Stop \/ LockAndJoin \/ Joined
      BY <2>3 DEF Stop, LockAndJoin, Joined
  <2>4. CASE UNCHANGED vars
      BY <2>4 DEF vars
  <2> QED
      BY <1>2, <2>1, <2>2, <2>3, <2>4 DEF Background
<1>3. CASE SchedulerRestarts
    BY <1>3 DEF SchedulerRestarts
<1>4. CASE StoreReportIOAsync
    BY <1>4 DEF StoreReportIOAsync
<1>5. CASE StoreReportIO
    BY <1>5 DEF StoreReportIO, HandleIOCompletion, OnIODone
<1>6. ASSUME NEW t \in IOThreads, CallStep(t) \/ \E ch \in Channels : RequestIO(t, ch)
      PROVE  BypassProbed'
  <2>1. ASSUME NEW ch \in Channels, RequestIO(t, ch) PROVE BypassProbed'
      BY <2>1 DEF RequestIO, MakeBypassResponse
  <2>2. CASE RequestOk(t)
      BY <2>2 DEF RequestOk, HandleRequestIO, OnIOStart
  <2>3. CASE RequestFails(t)
      BY <2>3 DEF RequestFails, NotExecuted, TooLate, HandleRequestIO, OnIOStart,
         MakeBypassResponse, AfterFailure
  <2>4. CASE ReportIOCompletion(t)
      BY <2>4 DEF ReportIOCompletion, MoveOn
  <2>5. CASE ReportOk(t)
      BY <2>5 DEF ReportOk, HandleIOCompletion, OnIODone, MoveOn
  <2>6. CASE ReportFails(t)
      BY <2>6 DEF ReportFails, NotExecuted, TooLate, HandleIOCompletion, OnIODone, MoveOn,
         AfterFailure
  <2>7. CASE EnterBypass(t)
      BY <2>7 DEF EnterBypass
  <2>8. CASE StartReconnectProbe(t)
      BY <2>8 DEF StartReconnectProbe, MoveOn
  <2> QED
      BY <1>6, <2>1, <2>2, <2>3, <2>4, <2>5, <2>6, <2>7, <2>8 DEF CallStep
<1> QED
    BY <1>2, <1>3, <1>4, <1>5, <1>6, StepCases

----------------------------------------------------------------------------
Bit(b) == IF b THEN 1 ELSE 0
ReportPlaces == {"request", "io", "report", "bypass_io", "start_io"}

(* What a thread's move does to the number of threads in a set of places.  *)
LEMMA CountIn ==
    ASSUME NEW L, NEW t \in IOThreads, NEW l, NEW A, NEW B,
           pc \in [IOThreads -> Places], pc' = [pc EXCEPT ![t] = l],
           A = {u \in IOThreads : pc[u] \in L}, B = {u \in IOThreads : pc'[u] \in L}
    PROVE  /\ Cardinality(A) \in Nat /\ Cardinality(B) \in Nat
           /\ Cardinality(B) = Cardinality(A) + Bit(l \in L) - Bit(pc[t] \in L)
<1>1. IsFiniteSet(A) /\ IsFiniteSet(B)
    BY SchedulerAssumption, FS_Subset
<1>2. Cardinality(A) \in Nat /\ Cardinality(B) \in Nat
    BY <1>1, FS_CardinalityType
<1>3. CASE pc[t] \notin L /\ l \in L
  <2>1. B = A \cup {t} /\ t \notin A
      BY <1>3
  <2>2. Cardinality(B) = Cardinality(A) + 1
      BY <1>1, <2>1, FS_AddElement
  <2>3. Bit(l \in L) = 1 /\ Bit(pc[t] \in L) = 0
      BY <1>3 DEF Bit
  <2> QED
      BY <1>2, <2>2, <2>3
<1>4. CASE pc[t] \in L /\ l \notin L
  <2>1. B = A \ {t} /\ t \in A
      BY <1>4
  <2>2. Cardinality(B) = Cardinality(A) - 1
      BY ZenonT(60), <1>1, <2>1, FS_RemoveElement
  <2>3. Bit(l \in L) = 0 /\ Bit(pc[t] \in L) = 1
      BY <1>4 DEF Bit
  <2> QED
      BY <1>2, <2>2, <2>3
<1>5. CASE pc[t] \in L <=> l \in L
  <2>1. B = A
      BY <1>5
  <2>2. Cardinality(B) = Cardinality(A)
      BY <2>1
  <2>3. \/ Bit(l \in L) = 1 /\ Bit(pc[t] \in L) = 1
        \/ Bit(l \in L) = 0 /\ Bit(pc[t] \in L) = 0
      BY <1>5 DEF Bit
  <2> QED
      BY <1>2, <2>2, <2>3
<1> QED
    BY <1>2, <1>3, <1>4, <1>5

(* In particular, for the threads that ask for a ticket and for those that *)
(* may still report.                                                       *)
LEMMA CountMoves ==
    ASSUME CallerTypes, NEW t \in IOThreads, NEW l, Goto(t, l)
    PROVE  /\ Cardinality(Requesting) \in Nat /\ Cardinality(Requesting)' \in Nat
           /\ Cardinality(Reportable) \in Nat /\ Cardinality(Reportable)' \in Nat
           /\ Cardinality(Requesting)' = Cardinality(Requesting)
                 + Bit(l = "request") - Bit(pc[t] = "request")
           /\ Cardinality(Reportable)' = Cardinality(Reportable)
                 + Bit(l \in ReportPlaces) - Bit(pc[t] \in ReportPlaces)
<1>1. pc \in [IOThreads -> Places] /\ pc' = [pc EXCEPT ![t] = l]
    BY DEF CallerTypes, Goto
<1>2. /\ Requesting = {u \in IOThreads : pc[u] \in {"request"}}
      /\ Requesting' = {u \in IOThreads : pc'[u] \in {"request"}}
      /\ Reportable = {u \in IOThreads : pc[u] \in ReportPlaces}
      /\ Reportable' = {u \in IOThreads : pc'[u] \in ReportPlaces}
    BY DEF Requesting, Reportable, ReportPlaces
<1>3. /\ Cardinality(Requesting) \in Nat /\ Cardinality(Requesting') \in Nat
      /\ Cardinality(Requesting') = Cardinality(Requesting)
            + Bit(l \in {"request"}) - Bit(pc[t] \in {"request"})
    BY <1>1, <1>2, CountIn
<1>4. /\ Cardinality(Reportable) \in Nat /\ Cardinality(Reportable') \in Nat
      /\ Cardinality(Reportable') = Cardinality(Reportable)
            + Bit(l \in ReportPlaces) - Bit(pc[t] \in ReportPlaces)
    BY <1>1, <1>2, CountIn
<1>5. (l \in {"request"}) = (l = "request") /\ (pc[t] \in {"request"}) = (pc[t] = "request")
    OBVIOUS
<1> QED
    BY <1>3, <1>4, <1>5

(* Each RPC uses up one of the calls and reports that allow it. *)
LEMMA CountsStep ==
    ASSUME ServerTypes, ProxyTypes, CallerTypes, Counts, [Next]_vars
    PROVE  Counts'
<1> DEFINE q == Cardinality(Requesting)
           p == Cardinality(Reportable)
<1>1. /\ tickets \in Nat /\ recorded \in Nat /\ instance \in Nat /\ outages \in Nat
      /\ bypassed \in Nat /\ calls \in Nat /\ reports \in Nat /\ detached \in Nat
    BY SchedulerAssumption DEF ServerTypes, ProxyTypes, CallerTypes
<1>2. q \in Nat /\ p \in Nat
  <2>1. IsFiniteSet(Requesting) /\ IsFiniteSet(Reportable)
      BY SchedulerAssumption, FS_Subset DEF Requesting, Reportable
  <2> QED
      BY <2>1, FS_CardinalityType
<1>3. /\ tickets + q <= calls /\ bypassed + q <= calls
      /\ recorded + p + detached <= calls + reports
      /\ instance <= outages + (IF up THEN 2 ELSE 1)
    BY DEF Counts
<1>4. pc' = pc => q' = q /\ p' = p
    BY DEF Requesting, Reportable
<1> SUFFICES /\ tickets' + q' <= calls' /\ bypassed' + q' <= calls'
             /\ recorded' + p' + detached' <= calls' + reports'
             /\ instance' <= outages' + (IF up' THEN 2 ELSE 1)
    BY DEF Counts
<1> DEFINE Goal == /\ tickets' + q' <= calls' /\ bypassed' + q' <= calls'
                   /\ recorded' + p' + detached' <= calls' + reports'
                   /\ instance' <= outages' + (IF up' THEN 2 ELSE 1)
<1> HIDE DEF q, p
<1> USE <1>1, <1>2, <1>3, <1>4 DEF Goto, server, network, proxy, callers
<1>5. CASE Background \/ UNCHANGED vars
  <2>1. /\ tickets' = tickets /\ recorded' = recorded /\ instance' = instance
        /\ bypassed' = bypassed /\ calls' = calls /\ reports' = reports
        /\ detached' = detached /\ pc' = pc
      BY <1>5, BackgroundStep
  <2>2. \/ UNCHANGED <<up, outages>>
        \/ up /\ ~up' /\ outages' = outages + 1
        \/ ~up /\ up' /\ outages' = outages
    <3>1. CASE ProbeStep
        BY <3>1 DEF ProbeStep, ProbeWakes, ProbeFails, ProbeSucceeds, ProbeResets, ProbeClears
    <3>2. CASE OutageBegins
        BY <3>2 DEF OutageBegins
    <3>3. CASE OutageEnds
        BY <3>3 DEF OutageEnds
    <3>4. CASE Stop \/ LockAndJoin \/ Joined
        BY <3>4 DEF Stop, LockAndJoin, Joined
    <3>5. CASE UNCHANGED vars
        BY <3>5 DEF vars
    <3> QED
        BY <1>5, <3>1, <3>2, <3>3, <3>4, <3>5 DEF Background
  <2> QED
      BY <2>1, <2>2
<1>6. CASE SchedulerRestarts
  <2>1. /\ ~up /\ up' /\ outages' = outages /\ instance' = instance + 1 /\ tickets' = 0
        /\ recorded' = 0 /\ pc' = pc
        /\ bypassed' = bypassed /\ calls' = calls /\ reports' = reports /\ detached' = detached
      BY <1>6 DEF SchedulerRestarts
  <2> QED
      BY <2>1
<1>7. CASE StoreReportIOAsync
    BY <1>7 DEF StoreReportIOAsync
<1>8. CASE StoreReportIO
    BY <1>8 DEF StoreReportIO, HandleIOCompletion
<1>9. ASSUME NEW t \in IOThreads, CallStep(t) \/ \E ch \in Channels : RequestIO(t, ch)
      PROVE  Goal
  <2> DEFINE Moves(l) == /\ q' \in Nat /\ p' \in Nat
                         /\ q' = q + Bit(l = "request") - Bit(pc[t] = "request")
                         /\ p' = p + Bit(l \in ReportPlaces) - Bit(pc[t] \in ReportPlaces)
  <2>0. ASSUME NEW l, pc' = [pc EXCEPT ![t] = l] PROVE Moves(l)
      BY <2>0, CountMoves DEF q, p
  <2> USE DEF Bit, ReportPlaces
  <2>1. ASSUME NEW ch \in Channels, RequestIO(t, ch) PROVE Goal
    <3>1. CASE state = "BYPASS"
      <4>1. Moves("io")
          BY <2>1, <3>1, <2>0 DEF RequestIO
      <4> QED
          BY <2>1, <3>1, <4>1 DEF RequestIO, MakeBypassResponse
    <3>2. CASE state # "BYPASS"
      <4>1. Moves("request")
          BY <2>1, <3>2, <2>0 DEF RequestIO
      <4> QED
          BY <2>1, <3>2, <4>1 DEF RequestIO
    <3> QED
        BY <3>1, <3>2
  <2>2. CASE RequestOk(t)
    <3>1. Moves("io")
        BY <2>2, <2>0 DEF RequestOk
    <3> QED
        BY <2>2, <3>1 DEF RequestOk, HandleRequestIO
  <2>3. CASE RequestFails(t)
    <3>1. Moves(AfterFailure("io", "bypass_io"))
        BY <2>3, <2>0 DEF RequestFails
    <3>2. q' = q - 1 /\ p' = p /\ q' \in Nat
        BY <2>3, <3>1 DEF RequestFails, AfterFailure
    <3>3. (tickets' = tickets \/ tickets' = tickets + 1) /\ bypassed' = bypassed + 1
        BY <2>3 DEF RequestFails, MakeBypassResponse, HandleRequestIO, NotExecuted
    <3>4. /\ recorded' = recorded
          /\ calls' = calls /\ reports' = reports /\ detached' = detached
        BY <2>3 DEF RequestFails, HandleRequestIO, NotExecuted
    <3>5. instance' <= outages' + (IF up' THEN 2 ELSE 1)
      <4>1. instance' = instance /\ up' = up /\ outages' = outages
          BY <2>3 DEF RequestFails, HandleRequestIO, NotExecuted, TooLate
      <4> QED
          BY <4>1
    <3>6. tickets' + q' <= calls' /\ bypassed' + q' <= calls'
        BY <3>2, <3>3, <3>4
    <3>7. recorded' + p' + detached' <= calls' + reports'
        BY <3>2, <3>3, <3>4
    <3> QED
        BY <3>4, <3>5, <3>6, <3>7
  <2>4. CASE ReportIOCompletion(t)
    <3>1. \E l \in {"idle", "report"} : Moves(l)
        BY <2>4, <2>0 DEF ReportIOCompletion, MoveOn
    <3>2. q' = q /\ (p' = p \/ p' = p - 1) /\ p' \in Nat
        BY <2>4, <3>1 DEF ReportIOCompletion
    <3>3. /\ tickets' = tickets /\ bypassed' = bypassed /\ recorded' = recorded
          /\ calls' = calls /\ reports' = reports /\ detached' = detached
        BY <2>4 DEF ReportIOCompletion
    <3>4. instance' = instance /\ up' = up /\ outages' = outages
        BY <2>4 DEF ReportIOCompletion
    <3>5. recorded' + p' + detached' <= calls' + reports'
      <4>1. CASE p' = p
          BY <3>3, <4>1
      <4>2. CASE p' = p - 1
          BY <3>3, <4>2
      <4> QED
          BY <3>2, <4>1, <4>2
    <3>6. tickets' + q' <= calls' /\ bypassed' + q' <= calls'
        BY <3>2, <3>3
    <3>7. instance' <= outages' + (IF up' THEN 2 ELSE 1)
        BY <3>4
    <3> QED
        BY <3>5, <3>6, <3>7
  <2>5. CASE ReportOk(t)
    <3>1. Moves("idle")
        BY <2>5, <2>0 DEF ReportOk, MoveOn
    <3> QED
        BY <2>5, <3>1 DEF ReportOk, HandleIOCompletion
  <2>6. CASE ReportFails(t)
    <3>1. Moves(AfterFailure("idle", "bypass_idle"))
        BY <2>6, <2>0 DEF ReportFails, MoveOn
    <3>2. q' = q /\ p' = p - 1 /\ p' \in Nat
        BY <2>6, <3>1 DEF ReportFails, AfterFailure
    <3>3. (recorded' = recorded \/ recorded' = recorded + 1) /\ tickets' = tickets
        BY <2>6 DEF ReportFails, HandleIOCompletion, NotExecuted
    <3>4. instance' <= outages' + (IF up' THEN 2 ELSE 1)
      <4>1. instance' = instance /\ up' = up /\ outages' = outages
          BY <2>6 DEF ReportFails, HandleIOCompletion, NotExecuted, TooLate
      <4> QED
          BY <4>1
    <3>5. /\ calls' = calls /\ reports' = reports /\ detached' = detached
          /\ bypassed' = bypassed
        BY <2>6 DEF ReportFails
    <3>6. tickets' + q' <= calls' /\ bypassed' + q' <= calls'
        BY <3>2, <3>3, <3>5
    <3>7. recorded' + p' + detached' <= calls' + reports'
        BY <3>2, <3>3, <3>5
    <3> QED
        BY <3>4, <3>5, <3>6, <3>7
  <2>7. CASE EnterBypass(t)
    <3>1. \/ pc[t] = "bypass_io" /\ Moves("start_io")
          \/ pc[t] = "bypass_idle" /\ Moves("start_idle")
        BY <2>7, <2>0 DEF EnterBypass
    <3> QED
        BY <2>7, <3>1 DEF EnterBypass
  <2>8. CASE StartReconnectProbe(t)
    <3>1. \/ pc[t] = "start_io" /\ Moves("io")
          \/ pc[t] = "start_idle" /\ Moves("idle")
        BY <2>8, <2>0 DEF StartReconnectProbe, MoveOn
    <3> QED
        BY <2>8, <3>1 DEF StartReconnectProbe
  <2> QED
      BY <1>9, <2>1, <2>2, <2>3, <2>4, <2>5, <2>6, <2>7, <2>8 DEF CallStep
<1> QED
    BY <1>5, <1>6, <1>7, <1>8, <1>9, StepCases

----------------------------------------------------------------------------
(* The parts together, in the initial states and over a step. *)
LEMMA InvInit == Init => Inv
<1> SUFFICES ASSUME Init PROVE Inv
    OBVIOUS
<1>1. ServerTypes
    BY SchedulerAssumption DEF Init, ServerTypes
<1>2. ProxyTypes
  <2>1. started \in BOOLEAN /\ terminated \in BOOLEAN /\ late \in BOOLEAN
      BY DEF Init
  <2>2. state \in {"CONNECTED", "BYPASS"} /\ probe \in {"none", "sleep"}
      BY DEF Init
  <2> QED
      BY <2>1, <2>2 DEF Init, ProxyTypes
<1>3. CallerTypes
    BY SchedulerAssumption DEF Init, CallerTypes, Places
<1>4. EntryTypes
    BY DEF Init, EntryTypes
<1>5. AllPlaced
    BY SchedulerAssumption DEF Init, AllPlaced, Placed, Inside, Issued
<1>6. CallsUnique /\ EntriesOwned /\ NoPhantomIO
    BY DEF Init, CallsUnique, EntriesOwned, NoPhantomIO, Inside
<1>7. Counts
  <2>1. Requesting = {} /\ Reportable = {}
      BY DEF Init, Requesting, Reportable
  <2>2. Cardinality(Requesting) = 0 /\ Cardinality(Reportable) = 0
      BY <2>1, FS_EmptySet
  <2> QED
      BY <2>2 DEF Init, Counts
<1>8. ProbeKnown /\ BypassProbed
    BY DEF Init, ProbeKnown, BypassProbed
<1> QED
    BY <1>1, <1>2, <1>3, <1>4, <1>5, <1>6, <1>7, <1>8 DEF Inv, Types

LEMMA InvStep == Inv /\ [Next]_vars => Inv'
    BY ServerTypesStep, ProxyTypesStep, CallerTypesStep, EntryTypesStep, PlacedStep,
       CallsUniqueStep, EntriesOwnedStep, CountsStep, NoPhantomStep, ProbeKnownStep,
       BypassProbedStep DEF Inv, Types

LEMMA Invariance == Spec => []Inv
    BY InvInit, InvStep, PTL DEF Spec

(* The variables keep their types and the counters their bounds: there are *)
(* never more tickets than calls, so a ticket of ticket_counter_ does not  *)
(* reach the bit that marks a bypass ticket, and NodeStats records no      *)
(* completion twice.                                                       *)
THEOREM TypeCorrect == Spec => []TypeOK
<1>1. Inv => TypeOK
  <2> SUFFICES ASSUME Inv PROVE TypeOK
      OBVIOUS
  <2>1. Cardinality(Requesting) \in Nat /\ Cardinality(Reportable) \in Nat
    <3>1. IsFiniteSet(Requesting) /\ IsFiniteSet(Reportable)
        BY SchedulerAssumption, FS_Subset DEF Requesting, Reportable
    <3> QED
        BY <3>1, FS_CardinalityType
  <2>2. /\ instance \in Nat \ {0} /\ tickets \in Nat /\ recorded \in Nat /\ bypassed \in Nat
        /\ calls \in 0 .. MaxCalls /\ reports \in 0 .. MaxReports /\ detached \in 0 .. reports
        /\ outages \in 0 .. MaxOutages
        /\ MaxCalls \in Nat /\ MaxReports \in Nat /\ MaxOutages \in Nat
      BY SchedulerAssumption DEF Inv, Types, ServerTypes, ProxyTypes, CallerTypes
  <2>3. /\ tickets + Cardinality(Requesting) <= calls
        /\ bypassed + Cardinality(Requesting) <= calls
        /\ recorded + Cardinality(Reportable) + detached <= calls + reports
        /\ instance <= outages + 2
    <3>1. instance <= outages + (IF up THEN 2 ELSE 1)
        BY DEF Inv, Counts
    <3> QED
        BY <2>2, <3>1 DEF Inv, Counts
  <2>4. /\ tickets \in 0 .. MaxCalls /\ tickets <= calls /\ bypassed \in 0 .. MaxCalls
        /\ recorded \in 0 .. calls + reports /\ instance \in 1 .. MaxOutages + 2
      BY <2>1, <2>2, <2>3
  <2>5. ssd \subseteq Entries /\ net \subseteq Entries
    <3> SUFFICES ASSUME NEW e \in ssd \cup net
                 PROVE  e \in Entries
        OBVIOUS
    <3>1. e \in Entry /\ e.ticket < tickets /\ e.call \in 1 .. calls
        BY DEF Inv, Types, EntryTypes
    <3>2. e.ticket \in 0 .. MaxCalls /\ e.call \in 1 .. MaxCalls
        BY <2>2, <2>4, <3>1 DEF Entry
    <3> QED
        BY <3>1, <3>2 DEF Entry, Entries
  <2>6. /\ issuer \in [IOThreads -> 0 .. instance] /\ call \in [IOThreads -> 0 .. MaxCalls]
        /\ lost \subseteq 1 .. MaxCalls
      BY <2>2 DEF Inv, Types, CallerTypes, EntryTypes, AllPlaced, Placed
  <2>7. /\ up \in BOOLEAN /\ started \in BOOLEAN /\ terminated \in BOOLEAN /\ late \in BOOLEAN
        /\ timeouts \in 0 .. MaxTimeouts
      BY DEF Inv, Types, ServerTypes, ProxyTypes
  <2>8. /\ state \in {"CONNECTED", "BYPASS"} /\ failures \in Nat
        /\ probe \in {"none", "sleep", "heartbeat", "reset", "clear", "exit"}
        /\ dtor \in {"none", "lock", "join", "done"}
      BY DEF Inv, Types, ProxyTypes
  <2>9. /\ pc \in [IOThreads -> Places] /\ ticket \in [IOThreads -> Nat]
        /\ chan \in [IOThreads -> Channels \cup {NoChannel}]
      BY DEF Inv, Types, CallerTypes
  <2> QED
      BY <2>2, <2>4, <2>5, <2>6, <2>7, <2>8, <2>9 DEF TypeOK, Places
<1> QED
    BY <1>1, Invariance, PTL

(* Every IO in active_ios_ is going on, or its end could not be reported.  *)
THEOREM NoPhantomIOHolds == Spec => []NoPhantomIO
<1>1. Inv => NoPhantomIO
    BY DEF Inv
<1> QED
    BY <1>1, Invariance, PTL

(* In BYPASS the probe thread is on duty or about to be started, unless a  *)
(* failure was acted on after the probe had stored CONNECTED.              *)
THEOREM BypassProbedHolds == Spec => []BypassProbed
<1>1. Inv => BypassProbed
    BY DEF Inv
<1> QED
    BY <1>1, Invariance, PTL

(* Why an entry e may leave the lists in a step. *)
MayLeave(e) ==
    \/ instance' # instance
    \/ e.ticket = 0 /\ detached' < detached
    \/ \E t \in IOThreads :
          /\ pc[t] = "report" /\ pc'[t] # "report"
          /\ ticket[t] = e.ticket
          /\ call[t] = e.call \/ issuer[t] \in 1 .. instance - 1

(* A report with the thread's ticket takes the thread's own entry, or that *)
(* of a later scheduler's ticket: never one for a bypass ticket.           *)
LEMMA ReportTakesOwn ==
    ASSUME Inv, NEW t \in IOThreads, NEW e \in ssd \cup net,
           pc[t] = "report", ticket[t] = e.ticket
    PROVE  call[t] = e.call \/ issuer[t] \in 1 .. instance - 1
<1>1. Issued(t) /\ Placed(t) /\ Owned(e, t)
    BY DEF Inv, Types, AllPlaced, EntriesOwned, Issued
<1>2. issuer[t] \in Nat /\ issuer[t] <= instance /\ instance \in Nat
    BY <1>1 DEF Inv, Types, ServerTypes, CallerTypes, Placed
<1>3. CASE issuer[t] = instance
    BY <1>1, <1>3 DEF Owned
<1>4. CASE issuer[t] = 0
  <2>1. ticket[t] >= HighBit /\ HighBit \in Nat /\ MaxCalls < HighBit /\ MaxCalls \in Nat
      BY <1>1, <1>4, SchedulerAssumption DEF Placed
  <2>2. e.ticket \in Nat /\ e.ticket < tickets
      BY DEF Inv, Types, EntryTypes, Entry
  <2>3. tickets <= MaxCalls /\ tickets \in Nat
    <3>1. Cardinality(Requesting) \in Nat
      <4>1. IsFiniteSet(Requesting)
          BY SchedulerAssumption, FS_Subset DEF Requesting
      <4> QED
          BY <4>1, FS_CardinalityType
    <3>2. tickets \in Nat /\ calls \in 0 .. MaxCalls /\ tickets + Cardinality(Requesting) <= calls
        BY DEF Inv, Types, ServerTypes, CallerTypes, Counts
    <3> QED
        BY <2>1, <3>1, <3>2
  <2> QED
      BY <2>1, <2>2, <2>3
<1>5. CASE issuer[t] # instance /\ issuer[t] # 0
    BY <1>2, <1>5
<1> QED
    BY <1>3, <1>4, <1>5

LEMMA LeaveStep ==
    ASSUME Inv, [Next]_vars, NEW e \in ssd \cup net, e \notin ssd' \cup net'
    PROVE  MayLeave(e)
<1> USE DEF Goto, server, network, proxy, callers
<1>0. detached \in Nat /\ instance \in Nat /\ pc \in [IOThreads -> Places]
    BY SchedulerAssumption DEF Inv, Types, ServerTypes, CallerTypes
<1>1. CASE Background \/ UNCHANGED vars
    BY <1>1, BackgroundStep
<1>2. CASE SchedulerRestarts
    BY <1>0, <1>2 DEF SchedulerRestarts, MayLeave
<1>3. CASE StoreReportIOAsync
    BY <1>3 DEF StoreReportIOAsync
<1>4. CASE StoreReportIO
  <2>1. e.ticket = 0
      BY <1>4 DEF StoreReportIO, HandleIOCompletion, OnIODone
  <2>2. detached' < detached
      BY <1>0, <1>4 DEF StoreReportIO
  <2> QED
      BY <2>1, <2>2 DEF MayLeave
<1>5. ASSUME NEW t \in IOThreads, CallStep(t) \/ \E ch \in Channels : RequestIO(t, ch)
      PROVE  MayLeave(e)
  <2>1. ASSUME NEW ch \in Channels, RequestIO(t, ch) PROVE MayLeave(e)
      BY <2>1 DEF RequestIO
  <2>2. CASE RequestOk(t)
      BY <2>2 DEF RequestOk, HandleRequestIO, OnIOStart
  <2>3. CASE RequestFails(t)
      BY <2>3 DEF RequestFails, NotExecuted, HandleRequestIO, OnIOStart
  <2>4. CASE ReportIOCompletion(t) \/ EnterBypass(t) \/ StartReconnectProbe(t)
      BY <2>4 DEF ReportIOCompletion, EnterBypass, StartReconnectProbe
  <2>5. CASE ReportOk(t) \/ ReportFails(t)
    <3>1. pc[t] = "report" /\ pc'[t] # "report"
        BY <1>0, <2>5 DEF ReportOk, ReportFails, MoveOn, AfterFailure
    <3>2. ticket[t] = e.ticket
        BY <2>5 DEF ReportOk, ReportFails, NotExecuted, HandleIOCompletion, OnIODone
    <3> QED
        BY <3>1, <3>2, ReportTakesOwn DEF MayLeave
  <2> QED
      BY <1>5, <2>1, <2>2, <2>3, <2>4, <2>5 DEF CallStep
<1> QED
    BY <1>1, <1>2, <1>3, <1>4, <1>5, StepCases

(* An entry leaves active_ios_ by its own completion, by a store's report  *)
(* without ticket, by a ticket of an earlier scheduler, or when the        *)
(* scheduler starts anew; never by a bypass ticket.                        *)
THEOREM CountedUntilReportedHolds == Spec => CountedUntilReported
<1>1. Inv /\ [Next]_vars =>
         [\A e \in (ssd \cup net) \ (ssd' \cup net') :
             \/ instance' # instance
             \/ e.ticket = 0 /\ detached' < detached
             \/ \E t \in IOThreads :
                   /\ pc[t] = "report" /\ pc'[t] # "report"
                   /\ ticket[t] = e.ticket
                   /\ call[t] = e.call \/ issuer[t] \in 1 .. instance - 1]_vars
    BY LeaveStep DEF MayLeave
<1> QED
    BY <1>1, Invariance, PTL DEF Spec, CountedUntilReported
=============================================================================
