--------------------------- MODULE SchedulerProxy ---------------------------
(***************************************************************************)
(* SchedulerProxy, shared by the IO threads of a process, and the scheduler*)
(* process behind it: HandleRequestIO and HandleIOCompletion with the      *)
(* ticket counter of PassthroughPolicy and the active IOs of the two       *)
(* bandwidth accumulators.  Scheduler outages, restarts and RPC timeouts   *)
(* put the proxy in BYPASS; a probe thread brings it back.                 *)
(*                                                                         *)
(* A step is one RPC with the update of consecutive_failures_ that follows *)
(* its outcome, one access to state_, or one locked section.  The          *)
(* constructor is Init: DISCONNECTED is never seen after it, and stub_ is  *)
(* never null, because Channel::Init of a socket path does not connect.    *)
(* Sizes, time stamps and the windows of NodeStats, which only feed a log, *)
(* are left out: NodeStats counts the completions it is told of.           *)
(***************************************************************************)
EXTENDS Integers, FiniteSets

CONSTANTS IOThreads,
          Channels,     \* channels in use, of the values in IOChannel
          MaxFailures,  \* max_consecutive_failures_ (3)
          HighBit,      \* 2^63, the mark of a bypass ticket
          MaxCalls,     \* bound: IOs begun
          MaxReports,   \* bound: reports of StoreReportIOAsync
          MaxOutages,   \* bound: outages of the scheduler
          MaxTimeouts   \* bound: RPCs that time out although they are executed

IOChannel == {"LOCAL_SSD_READ", "LOCAL_SSD_WRITE", "NET_TX_READ", "NET_RX_READ"}
NoChannel == "none"

ASSUME SchedulerAssumption ==
    /\ IsFiniteSet(IOThreads)
    /\ Channels \subseteq IOChannel
    /\ MaxFailures \in Nat \ {0}
    /\ {HighBit, MaxCalls, MaxReports, MaxOutages, MaxTimeouts} \subseteq Nat
    /\ MaxCalls < HighBit

VARIABLES
    \* the scheduler process
    up,         \* it can be reached
    instance,   \* how often it has been started
    tickets,    \* ticket_counter_
    ssd, net,   \* active_ios_ of the accumulators: tickets and whose call
    recorded,   \* completions in NodeStats
    outages, timeouts,
    \* the proxy
    state, failures,
    started,    \* reconnect_started_
    probe,      \* where the thread in reconnect_thread_ is
    bypassed,   \* g_bypass_ticket_counter
    terminated, \* std::terminate was called
    dtor,       \* where the destructor is; it holds reconnect_mutex_ in "join"
    \* its callers
    pc,
    chan,       \* channel of the request being sent
    ticket,
    issuer,     \* auxiliary: the scheduler instance that issued the ticket, or 0
    call,       \* auxiliary: number of the call a thread is in
    calls,      \* IOs begun
    reports,    \* reports begun
    detached,   \* threads of StoreReportIOAsync with their RPC still to do
    lost,       \* auxiliary: calls of which the scheduler was not told the end
    late        \* auxiliary: BYPASS was stored when the probe had already
                \* stored CONNECTED and was on its way out

server == <<instance, tickets, ssd, net, recorded>>
network == <<up, outages, timeouts>>
proxy == <<state, failures, started, probe, bypassed, terminated, late>>
callers == <<chan, ticket, issuer, call, calls>>
vars == <<up, instance, tickets, ssd, net, recorded, outages, timeouts, state,
          failures, started, probe, bypassed, terminated, dtor, pc, chan, ticket,
          issuer, call, calls, reports, detached, lost, late>>

Alive == ~terminated /\ dtor = "none"
Goto(t, l) == pc' = [pc EXCEPT ![t] = l]

(* A thread moves on; the locals of its IO die when it returns. *)
MoveOn(t, l) ==
    /\ Goto(t, l)
    /\ IF l = "idle"
       THEN /\ ticket' = [ticket EXCEPT ![t] = 0]
            /\ issuer' = [issuer EXCEPT ![t] = 0]
            /\ call' = [call EXCEPT ![t] = 0]
       ELSE UNCHANGED <<ticket, issuer, call>>
    /\ UNCHANGED chan

(* SchedulerProxy's constructor: an initial probe, BYPASS if it fails. *)
Init ==
    /\ up \in BOOLEAN
    /\ instance = 1
    /\ tickets = 0
    /\ ssd = {} /\ net = {}
    /\ recorded = 0
    /\ outages = 0 /\ timeouts = 0
    /\ state = IF up THEN "CONNECTED" ELSE "BYPASS"
    /\ failures = 0
    /\ started = ~up
    /\ probe = IF up THEN "none" ELSE "sleep"
    /\ bypassed = 0
    /\ terminated = FALSE
    /\ dtor = "none"
    /\ pc = [t \in IOThreads |-> "idle"]
    /\ chan = [t \in IOThreads |-> NoChannel]
    /\ ticket = [t \in IOThreads |-> 0]
    /\ issuer = [t \in IOThreads |-> 0]
    /\ call = [t \in IOThreads |-> 0]
    /\ calls = 0 /\ reports = 0 /\ detached = 0
    /\ lost = {}
    /\ late = FALSE

----------------------------------------------------------------------------
(* The scheduler process *)

ConsumesSSD(ch) == ch # "NET_TX_READ"
IsNet(ch) == ch \in {"NET_TX_READ", "NET_RX_READ"}

OnIOStart(tk, ch, c) ==
    /\ ssd' = IF ConsumesSSD(ch) THEN ssd \cup {[ticket |-> tk, call |-> c]} ELSE ssd
    /\ net' = IF IsNet(ch) THEN net \cup {[ticket |-> tk, call |-> c]} ELSE net

(* The entry with this ticket, if there is one, leaves both lists. *)
OnIODone(tk) ==
    /\ ssd' = {e \in ssd : e.ticket # tk}
    /\ net' = {e \in net : e.ticket # tk}

(* Mutants of HandleIOCompletion: the network list is not told; the        *)
(* statistics count the completion twice.                                  *)
HandleIOCompletionSsdOnly(tk) ==
    /\ recorded' = recorded + 1
    /\ ssd' = {e \in ssd : e.ticket # tk}
    /\ UNCHANGED <<net, instance, tickets>>

HandleIOCompletionTwice(tk) ==
    /\ recorded' = recorded + 2
    /\ OnIODone(tk)
    /\ UNCHANGED <<instance, tickets>>

HandleRequestIO(t) ==
    /\ tickets' = tickets + 1
    /\ OnIOStart(tickets, chan[t], call[t])
    /\ UNCHANGED <<instance, recorded>>

HandleIOCompletion(tk) ==
    /\ recorded' = recorded + 1
    /\ OnIODone(tk)
    /\ UNCHANGED <<instance, tickets>>

OutageBegins ==
    /\ up
    /\ outages < MaxOutages
    /\ up' = FALSE
    /\ outages' = outages + 1
    /\ UNCHANGED <<server, timeouts, proxy, dtor, pc, callers, reports, detached, lost>>

OutageEnds ==
    /\ ~up
    /\ up' = TRUE
    /\ UNCHANGED <<server, outages, timeouts, proxy, dtor, pc, callers, reports,
                   detached, lost>>

(* The process was restarted: its tickets start again at 0. *)
SchedulerRestarts ==
    /\ ~up
    /\ up' = TRUE
    /\ instance' = instance + 1
    /\ tickets' = 0
    /\ ssd' = {} /\ net' = {}
    /\ recorded' = 0
    /\ UNCHANGED <<outages, timeouts, proxy, dtor, pc, callers, reports, detached, lost>>

(* How an RPC fails: it does not arrive, or its answer comes too late. *)
NotExecuted == ~up /\ UNCHANGED <<server, network>>

TooLate ==
    /\ up
    /\ timeouts < MaxTimeouts
    /\ timeouts' = timeouts + 1
    /\ UNCHANGED <<up, outages>>

----------------------------------------------------------------------------
(* RequestIO and ReportIOCompletion *)

(* Mutant of NextBypassTicket: the high bit is not set. *)
NextBypassTicketPlain == bypassed

NextBypassTicket == HighBit + bypassed

MakeBypassResponse(t) ==
    /\ ticket' = [ticket EXCEPT ![t] = NextBypassTicket]
    /\ issuer' = [issuer EXCEPT ![t] = 0]
    /\ bypassed' = bypassed + 1

RequestIO(t, ch) ==
    /\ Alive
    /\ pc[t] = "idle"
    /\ calls < MaxCalls
    /\ calls' = calls + 1
    /\ call' = [call EXCEPT ![t] = calls']
    /\ IF state = "BYPASS"
       THEN MakeBypassResponse(t) /\ Goto(t, "io") /\ UNCHANGED chan
       ELSE /\ chan' = [chan EXCEPT ![t] = ch]
            /\ Goto(t, "request")
            /\ UNCHANGED <<ticket, issuer, bypassed>>
    /\ UNCHANGED <<server, network, state, failures, started, probe, terminated, dtor,
                   reports, detached, lost, late>>

RequestOk(t) ==
    /\ ~terminated
    /\ pc[t] = "request"
    /\ up
    /\ HandleRequestIO(t)
    /\ failures' = 0
    /\ ticket' = [ticket EXCEPT ![t] = tickets]
    /\ issuer' = [issuer EXCEPT ![t] = instance]
    /\ chan' = [chan EXCEPT ![t] = NoChannel]
    /\ Goto(t, "io")
    /\ UNCHANGED <<network, state, started, probe, bypassed, terminated, late, dtor,
                   call, calls, reports, detached, lost>>

(* Where a thread goes after a failed RPC: at the limit of failures it     *)
(* has BYPASS to enter first.                                              *)
AfterFailure(below, limit) == IF failures + 1 >= MaxFailures THEN limit ELSE below

RequestFails(t) ==
    /\ ~terminated
    /\ pc[t] = "request"
    /\ \/ NotExecuted
       \/ TooLate /\ HandleRequestIO(t)
    /\ lost' = lost \cup {call[t]}
    /\ failures' = failures + 1
    /\ MakeBypassResponse(t)
    /\ chan' = [chan EXCEPT ![t] = NoChannel]
    /\ Goto(t, AfterFailure("io", "bypass_io"))
    /\ UNCHANGED <<state, started, probe, terminated, late, dtor, call, calls,
                   reports, detached>>

(* Once the IO is done: in BYPASS its end is not reported. *)
ReportIOCompletion(t) ==
    /\ ~terminated
    /\ pc[t] = "io"
    /\ MoveOn(t, IF state = "BYPASS" THEN "idle" ELSE "report")
    /\ lost' = IF state = "BYPASS" THEN lost \cup {call[t]} ELSE lost
    /\ UNCHANGED <<server, network, proxy, dtor, calls, reports, detached>>

ReportOk(t) ==
    /\ ~terminated
    /\ pc[t] = "report"
    /\ up
    /\ HandleIOCompletion(ticket[t])
    /\ failures' = 0
    /\ MoveOn(t, "idle")
    /\ UNCHANGED <<network, state, started, probe, bypassed, terminated, late, dtor,
                   calls, reports, detached, lost>>

ReportFails(t) ==
    /\ ~terminated
    /\ pc[t] = "report"
    /\ \/ NotExecuted
       \/ TooLate /\ HandleIOCompletion(ticket[t])
    /\ lost' = lost \cup {call[t]}
    /\ failures' = failures + 1
    /\ MoveOn(t, AfterFailure("idle", "bypass_idle"))
    /\ UNCHANGED <<state, started, probe, bypassed, terminated, late, dtor, calls,
                   reports, detached>>

(* The store to state_, after the failure was counted. *)
EnterBypass(t) ==
    /\ ~terminated
    /\ pc[t] \in {"bypass_io", "bypass_idle"}
    /\ state' = "BYPASS"
    /\ late' = (late \/ probe \in {"reset", "clear"})
    /\ Goto(t, IF pc[t] = "bypass_io" THEN "start_io" ELSE "start_idle")
    /\ UNCHANGED <<server, network, failures, started, probe, bypassed, terminated, dtor,
                   callers, reports, detached, lost>>

(* Assigning a new thread to reconnect_thread_ calls std::terminate while  *)
(* the old one has not been joined, also when it has returned.             *)
StartReconnectProbe(t) ==
    /\ ~terminated
    /\ pc[t] \in {"start_io", "start_idle"}
    /\ started' = TRUE
    /\ probe' = IF started \/ probe = "exit" THEN probe ELSE "sleep"
    /\ terminated' = (~started /\ probe = "exit")
    /\ MoveOn(t, IF pc[t] = "start_io" THEN "io" ELSE "idle")
    /\ UNCHANGED <<server, network, state, failures, bypassed, late, dtor, calls,
                   reports, detached, lost>>

----------------------------------------------------------------------------
(* StoreReportIOAsync: a detached thread, whose report carries no ticket   *)
(* (0 on the scheduler's side) and whose failure is not counted            *)

StoreReportIOAsync ==
    /\ Alive
    /\ state # "BYPASS"
    /\ reports < MaxReports
    /\ reports' = reports + 1
    /\ detached' = detached + 1
    /\ UNCHANGED <<server, network, proxy, dtor, pc, callers, lost>>

StoreReportIO ==
    /\ detached > 0
    /\ detached' = detached - 1
    /\ IF up THEN HandleIOCompletion(0) ELSE UNCHANGED server
    /\ UNCHANGED <<network, proxy, dtor, pc, callers, reports, lost>>

----------------------------------------------------------------------------
(* The probe thread *)

Stopped == dtor # "none"

ProbeWakes ==
    /\ probe = "sleep" /\ ~terminated
    /\ probe' = IF Stopped THEN "exit" ELSE "heartbeat"
    /\ UNCHANGED <<server, network, state, failures, started, bypassed, terminated, late,
                   dtor, pc, callers, reports, detached, lost>>

(* Mutant of ProbeFails: the thread gives up after one failed probe. *)
ProbeFailsGivesUp ==
    /\ probe = "heartbeat" /\ ~terminated
    /\ ~up
    /\ probe' = "exit"
    /\ UNCHANGED <<server, network, state, failures, started, bypassed, terminated, late,
                   dtor, pc, callers, reports, detached, lost>>

(* ProbeScheduler: Connect and a heartbeat. *)
ProbeFails ==
    /\ probe = "heartbeat" /\ ~terminated
    /\ ~up
    /\ probe' = IF Stopped THEN "exit" ELSE "sleep"
    /\ UNCHANGED <<server, network, state, failures, started, bypassed, terminated, late,
                   dtor, pc, callers, reports, detached, lost>>

ProbeSucceeds ==
    /\ probe = "heartbeat" /\ ~terminated
    /\ up
    /\ state' = "CONNECTED"
    /\ probe' = "reset"
    /\ UNCHANGED <<server, network, failures, started, bypassed, terminated, late, dtor,
                   pc, callers, reports, detached, lost>>

ProbeResets ==
    /\ probe = "reset" /\ ~terminated
    /\ failures' = 0
    /\ probe' = "clear"
    /\ UNCHANGED <<server, network, state, started, bypassed, terminated, late, dtor,
                   pc, callers, reports, detached, lost>>

(* Needs reconnect_mutex_, which the destructor holds while it joins. *)
ProbeClears ==
    /\ probe = "clear" /\ ~terminated
    /\ dtor # "join"
    /\ started' = FALSE
    /\ probe' = "exit"
    /\ UNCHANGED <<server, network, state, failures, bypassed, terminated, late, dtor,
                   pc, callers, reports, detached, lost>>

(* The destructor, once nobody calls the proxy any more. *)
Stop ==
    /\ Alive
    /\ \A t \in IOThreads : pc[t] = "idle"
    /\ dtor' = "lock"
    /\ UNCHANGED <<server, network, proxy, pc, callers, reports, detached, lost>>

LockAndJoin ==
    /\ dtor = "lock"
    /\ dtor' = "join"
    /\ UNCHANGED <<server, network, proxy, pc, callers, reports, detached, lost>>

(* Mutant of Joined: a thread that was never started is joined too. *)
JoinedAlways ==
    /\ dtor = "join"
    /\ probe = "exit"
    /\ dtor' = "done"
    /\ UNCHANGED <<server, network, proxy, pc, callers, reports, detached, lost>>

Joined ==
    /\ dtor = "join"
    /\ probe \in {"none", "exit"}
    /\ dtor' = "done"
    /\ UNCHANGED <<server, network, proxy, pc, callers, reports, detached, lost>>

----------------------------------------------------------------------------
CallStep(t) ==
    \/ RequestOk(t) \/ RequestFails(t) \/ ReportIOCompletion(t) \/ ReportOk(t)
    \/ ReportFails(t) \/ EnterBypass(t) \/ StartReconnectProbe(t)

ProbeStep == ProbeWakes \/ ProbeFails \/ ProbeSucceeds \/ ProbeResets \/ ProbeClears

Next ==
    \/ \E t \in IOThreads : CallStep(t) \/ \E ch \in Channels : RequestIO(t, ch)
    \/ StoreReportIOAsync \/ StoreReportIO
    \/ ProbeStep
    \/ OutageBegins \/ OutageEnds \/ SchedulerRestarts
    \/ Stop \/ LockAndJoin \/ Joined

(* Threads keep running; neither an outage nor its end is promised. *)
Fairness ==
    /\ \A t \in IOThreads : WF_vars(CallStep(t))
    /\ WF_vars(ProbeStep)
    /\ WF_vars(LockAndJoin \/ Joined)

Spec == Init /\ [][Next]_vars /\ Fairness

----------------------------------------------------------------------------
Entries == [ticket : 0 .. MaxCalls, call : 1 .. MaxCalls]

TypeOK ==
    /\ up \in BOOLEAN /\ started \in BOOLEAN /\ terminated \in BOOLEAN /\ late \in BOOLEAN
    /\ instance \in 1 .. MaxOutages + 2
    /\ tickets \in 0 .. MaxCalls
    /\ ssd \subseteq Entries /\ net \subseteq Entries
    /\ recorded \in 0 .. calls + reports
    /\ outages \in 0 .. MaxOutages /\ timeouts \in 0 .. MaxTimeouts
    /\ state \in {"CONNECTED", "BYPASS"}
    /\ failures \in Nat
    /\ probe \in {"none", "sleep", "heartbeat", "reset", "clear", "exit"}
    /\ bypassed \in 0 .. MaxCalls
    /\ dtor \in {"none", "lock", "join", "done"}
    /\ pc \in [IOThreads -> {"idle", "request", "io", "report", "bypass_io", "bypass_idle",
                             "start_io", "start_idle"}]
    /\ chan \in [IOThreads -> Channels \cup {NoChannel}]
    /\ ticket \in [IOThreads -> Nat]
    /\ issuer \in [IOThreads -> 0 .. instance]
    /\ call \in [IOThreads -> 0 .. MaxCalls]
    /\ calls \in 0 .. MaxCalls /\ reports \in 0 .. MaxReports
    /\ detached \in 0 .. reports
    /\ lost \subseteq 1 .. MaxCalls

(* Every IO the accumulators count as active is going on, or its end could *)
(* not be reported (BYPASS, a failed RPC): HandleIOCompletion clears both  *)
(* lists, whatever channel the IO used.                                    *)
NoPhantomIO ==
    \A e \in ssd \cup net :
        e.call \in lost \/ \E t \in IOThreads : pc[t] # "idle" /\ call[t] = e.call

(* An IO stops being counted only when its own completion is reported, or  *)
(* through the two ambiguities the tickets have: a store's report carries  *)
(* ticket 0, and a restarted scheduler issues the same tickets again.      *)
(* A bypass ticket never takes another IO's entry.                         *)
CountedUntilReported ==
    [][\A e \in (ssd \cup net) \ (ssd' \cup net') :
          \/ instance' # instance
          \/ e.ticket = 0 /\ detached' < detached
          \/ \E t \in IOThreads :
                /\ pc[t] = "report" /\ pc'[t] # "report"
                /\ ticket[t] = e.ticket
                /\ call[t] = e.call \/ issuer[t] \in 1 .. instance - 1]_vars

(* In BYPASS somebody is looking for the scheduler, or about to start the  *)
(* probe: the one exception is a failure that was counted before and acted *)
(* on after the probe thread had stored CONNECTED, which StartReconnect-   *)
(* Probe leaves without a probe.                                           *)
BypassProbed ==
    (state = "BYPASS" /\ ~terminated /\ dtor = "none") =>
        \/ probe \in {"sleep", "heartbeat"}
        \/ \E t \in IOThreads : pc[t] \in {"start_io", "start_idle"}
        \/ late

(* The destructor returns, unless it takes reconnect_mutex_ while the probe*)
(* thread, having reached the scheduler, still has to take it.             *)
DestructorReturns ==
    dtor = "lock" ~> dtor = "done" \/ (dtor = "join" /\ probe = "clear")

(* The proxy reconnects whenever the scheduler comes back; in particular   *)
(* an outage never brings the process down.                                *)
NeverTerminates == ~terminated
=============================================================================
