------------------------------ MODULE SseStream ------------------------------
(***************************************************************************)
(* The HTTP side (app/main.py): POST /v1/stream with its worker thread,    *)
(* the queue between the worker and the generator of the response,         *)
(* POST /internal/tasks/sql-optimization, and the two TaskServiceProviders *)
(* that build the services on first use.                                   *)
(*                                                                         *)
(*   kind      per request: what the route makes of its body               *)
(*   client    per request: the connection of the client                   *)
(*   pc        per request: the worker thread (the handler for "record")   *)
(*   events    per request: the queue                                      *)
(*   sent      per request: the events the client has been sent            *)
(*   outcome   per request: how its task ended                             *)
(*   service   per provider: _service                                      *)
(*   lock      per provider: which thread holds _lock                      *)
(*   used      per request: the service it got                             *)
(*   built     history, per provider: how often the factory was called     *)
(*                                                                         *)
(* An event is a record of its name and what it tells about the task.      *)
(* Heartbeats, which the generator yields while the queue is empty, tell   *)
(* nothing and are left out.                                               *)
(***************************************************************************)
EXTENDS Naturals, Sequences, FiniteSets

CONSTANTS
  MaxRequests,   \* how many requests arrive (bound)
  MaxProgress,   \* progress events per task (bound)
  ReportLengths  \* into how many chunks a report may be cut (bound)

ASSUME HttpAssumption == MaxRequests \in Nat /\ ReportLengths \subseteq Nat

VARIABLES kind, client, pc, events, sent, outcome, service, lock, used, built

worker == <<pc, events, outcome, used>>
provider == <<service, lock, built>>
vars == <<kind, client, pc, events, sent, outcome, service, lock, used, built>>

(* Requests are numbered in the order of their arrival. *)
Request == 1 .. MaxRequests

NoRequest == 0

Provider == {"sql", "fault"}

(* A statement; a fault description; a body without either (answered with  *)
(* error_stream); a request to record a task.                              *)
Kind == {"sql", "fault", "refused", "record"}

(* Which provider serves it. *)
providerOf(r) == IF kind[r] = "fault" THEN "fault" ELSE "sql"

NoService == "none"

(* What a provider may hold: what its factory builds, or the SQL-only      *)
(* OptimizationTaskService of the except branch.                           *)
Service == {"full", "sql_only"}

Outcome == {"none", "completed", "failed", "blocked", "raised"}

Event(name) == [event |-> name, n |-> 0]

ReportChunk(n) == [event |-> "markdown", n |-> n]

(* SCHEMA_REQUIRED_MESSAGE_TEMPLATE, sent as markdown. *)
Prompt == [event |-> "prompt", n |-> 0]

(* _build_final_event and the final event after a prompt. *)
Final(result) ==
  Event(IF result = "completed" THEN "final_completed" ELSE "final_failed")

Init ==
  /\ kind = [r \in Request |-> "none"]
  /\ client = [r \in Request |-> "idle"]
  /\ pc = [r \in Request |-> "idle"]
  /\ events = [r \in Request |-> <<>>]
  /\ sent = [r \in Request |-> <<>>]
  /\ outcome = [r \in Request |-> "none"]
  /\ service = [p \in Provider |-> NoService]
  /\ lock = [p \in Provider |-> NoRequest]
  /\ used = [r \in Request |-> NoService]
  /\ built = [p \in Provider |-> 0]

Arrives(r) == client[r] = "idle" /\ \A q \in 1 .. r - 1 : client[q] # "idle"

Goto(r, place) == pc' = [pc EXCEPT ![r] = place]

Put(r, event) == events' = [events EXCEPT ![r] = Append(@, event)]

Send(r, event) == sent' = [sent EXCEPT ![r] = Append(@, event)]

GetReturns(r, s) ==
  /\ used' = [used EXCEPT ![r] = s]
  /\ Goto(r, "run")

-----------------------------------------------------------------------------
(* Variants: each is one definition below with a plausible bug.  No action *)
(* uses them; each property fails with one of them in place of the         *)
(* definition it varies.                                                   *)

(* get() without the second look at _service. *)
NoSecondLook(r) ==
  /\ pc[r] = "lock" /\ lock[providerOf(r)] = NoRequest
  /\ lock' = [lock EXCEPT ![providerOf(r)] = r]
  /\ Goto(r, "build")
  /\ UNCHANGED <<kind, client, sent, events, outcome, used, service, built>>

(* A raising factory leaves the lock taken. *)
FactoryRaisesOut(r) ==
  /\ pc[r] = "build"
  /\ built' = [built EXCEPT ![providerOf(r)] = @ + 1]
  /\ outcome' = [outcome EXCEPT ![r] = "raised"]
  /\ Put(r, Event("error"))
  /\ Goto(r, "finally")
  /\ UNCHANGED <<kind, client, sent, used, service, lock>>

(* No return after the final event that follows a prompt. *)
FinalTwice(r) ==
  /\ pc[r] = "final"
  /\ Put(r, Final(outcome[r]))
  /\ outcome' = [outcome EXCEPT ![r] = "failed"]
  /\ Goto(r, IF outcome[r] = "blocked" THEN "final" ELSE "finally")
  /\ UNCHANGED <<kind, client, sent, used, provider>>

(* The branch of the prompt falls through to the report. *)
PromptFallsThrough(r) ==
  /\ pc[r] = "prompt"
  /\ Put(r, Prompt)
  /\ Goto(r, "report")
  /\ UNCHANGED <<kind, client, sent, outcome, used, provider>>

(* The error event without the end of the stream. *)
RaisesWithoutDone(r) ==
  /\ pc[r] = "run"
  /\ outcome' = [outcome EXCEPT ![r] = "raised"]
  /\ Put(r, Event("error"))
  /\ Goto(r, "ended")
  /\ UNCHANGED <<kind, client, sent, used, provider>>

-----------------------------------------------------------------------------
(* dingtalk_graph_stream decides what to do with the body. *)
Receive(r, k) ==
  /\ Arrives(r) /\ k # "record"
  /\ kind' = [kind EXCEPT ![r] = k]
  /\ client' = [client EXCEPT ![r] = "accepted"]
  /\ UNCHANGED <<worker, sent, provider>>

(* create_sql_optimization_task: the handler itself calls get(). *)
ReceiveRecord(r) ==
  /\ Arrives(r)
  /\ kind' = [kind EXCEPT ![r] = "record"]
  /\ client' = [client EXCEPT ![r] = "waiting"]
  /\ Goto(r, "get")
  /\ UNCHANGED <<events, sent, outcome, used, provider>>

(* The generator is asked for its first event: only now is the worker      *)
(* started.  error_stream has no worker, all it will send is known.        *)
Open(r) ==
  /\ client[r] = "accepted"
  /\ client' = [client EXCEPT ![r] = "reading"]
  /\ Send(r, Event("ready"))
  /\ IF kind[r] = "refused"
       THEN /\ events' = [events EXCEPT ![r] = <<Event("error"), Event("done")>>]
            /\ Goto(r, "ended")
       ELSE /\ Goto(r, "get")
            /\ UNCHANGED events
  /\ UNCHANGED <<kind, outcome, used, provider>>

-----------------------------------------------------------------------------
(* TaskServiceProvider.get. *)

(* The first look, without the lock. *)
GetWithoutLock(r) ==
  /\ pc[r] = "get"
  /\ IF service[providerOf(r)] # NoService
       THEN GetReturns(r, service[providerOf(r)])
       ELSE Goto(r, "lock") /\ UNCHANGED used
  /\ UNCHANGED <<kind, client, sent, events, outcome, provider>>

(* The second look, with the lock. *)
TakeLock(r) ==
  /\ pc[r] = "lock" /\ lock[providerOf(r)] = NoRequest
  /\ IF service[providerOf(r)] # NoService
       THEN GetReturns(r, service[providerOf(r)]) /\ UNCHANGED lock
       ELSE /\ lock' = [lock EXCEPT ![providerOf(r)] = r]
            /\ Goto(r, "build")
            /\ UNCHANGED used
  /\ UNCHANGED <<kind, client, sent, events, outcome, service, built>>

(* _build_task_service or _build_fault_task_service returns or raises; in  *)
(* both cases what the provider holds from now on is an instance.          *)
Build(r) ==
  /\ pc[r] = "build"
  /\ built' = [built EXCEPT ![providerOf(r)] = @ + 1]
  /\ \E s \in Service :
       /\ service' = [service EXCEPT ![providerOf(r)] = s]
       /\ GetReturns(r, s)
  /\ lock' = [lock EXCEPT ![providerOf(r)] = NoRequest]
  /\ UNCHANGED <<kind, client, sent, events, outcome>>

-----------------------------------------------------------------------------
(* run_task, with run_sql or run_diagnosis. *)

(* An OptimizationTaskService has no run_diagnosis. *)
CanRun(r) == kind[r] \in Provider /\ ~(kind[r] = "fault" /\ used[r] = "sql_only")

(* How many events of that name the task of r has put so far. *)
Emitted(r, name) ==
  LET stream == sent[r] \o events[r]
  IN  Cardinality({i \in DOMAIN stream : stream[i].event = name})

EmitProgress(r) ==
  /\ pc[r] = "run" /\ CanRun(r) /\ Emitted(r, "progress") < MaxProgress
  /\ Put(r, Event("progress"))
  /\ UNCHANGED <<kind, client, sent, pc, outcome, used, provider>>

(* The service raises, or the tables of a blocked statement cannot be      *)
(* named (TablesUnreadable of Conversation): the except branch.            *)
TaskRaises(r) ==
  /\ pc[r] = "run" /\ kind[r] \in Provider
  /\ outcome' = [outcome EXCEPT ![r] = "raised"]
  /\ Put(r, Event("error"))
  /\ Goto(r, "finally")
  /\ UNCHANGED <<kind, client, sent, used, provider>>

(* The task is over.  A statement may have ended on a route blocker, as    *)
(* the error of the task or in its report.                                 *)
TaskReturns(r) ==
  /\ pc[r] = "run" /\ CanRun(r)
  /\ \E result \in {"completed", "failed", "blocked"} :
       /\ result = "blocked" => kind[r] = "sql"
       /\ outcome' = [outcome EXCEPT ![r] = result]
       /\ Goto(r, IF result = "blocked" THEN "prompt" ELSE
                  IF result = "completed" THEN "report" ELSE "final")
  /\ UNCHANGED <<kind, client, sent, events, used, provider>>

PutPrompt(r) ==
  /\ pc[r] = "prompt"
  /\ Put(r, Prompt)
  /\ Goto(r, "final")
  /\ UNCHANGED <<kind, client, sent, outcome, used, provider>>

ChunksPut(r) == Emitted(r, "markdown")

(* The chunks of the report, one put each. *)
PutReport(r) ==
  /\ pc[r] = "report"
  /\ \/ /\ \E n \in ReportLengths : ChunksPut(r) < n
        /\ Put(r, ReportChunk(ChunksPut(r) + 1))
        /\ UNCHANGED pc
     \/ /\ ChunksPut(r) \in ReportLengths
        /\ Goto(r, "final")
        /\ UNCHANGED events
  /\ UNCHANGED <<kind, client, sent, outcome, used, provider>>

PutFinal(r) ==
  /\ pc[r] = "final"
  /\ Put(r, Final(outcome[r]))
  /\ Goto(r, "finally")
  /\ UNCHANGED <<kind, client, sent, outcome, used, provider>>

PutDone(r) ==
  /\ pc[r] = "finally"
  /\ Put(r, Event("done"))
  /\ Goto(r, "ended")
  /\ UNCHANGED <<kind, client, sent, outcome, used, provider>>

(* create_task_record, then the response. *)
Record(r) ==
  /\ pc[r] = "run" /\ kind[r] = "record"
  /\ client' = [client EXCEPT ![r] = "closed"]
  /\ Goto(r, "ended")
  /\ UNCHANGED <<kind, sent, events, outcome, used, provider>>

Work(r) ==
  \/ GetWithoutLock(r) \/ TakeLock(r) \/ Build(r)
  \/ EmitProgress(r) \/ TaskRaises(r) \/ TaskReturns(r)
  \/ PutPrompt(r) \/ PutReport(r) \/ PutFinal(r) \/ PutDone(r) \/ Record(r)

-----------------------------------------------------------------------------
(* The generator takes an event; "done" becomes "end" and closes it. *)
Yield(r) ==
  /\ client[r] = "reading" /\ events[r] # <<>>
  /\ events' = [events EXCEPT ![r] = Tail(@)]
  /\ IF Head(events[r]).event = "done"
       THEN Send(r, Event("end")) /\ client' = [client EXCEPT ![r] = "closed"]
       ELSE Send(r, Head(events[r])) /\ UNCHANGED client
  /\ UNCHANGED <<kind, pc, outcome, used, provider>>

(* The client is gone and the generator is dropped, possibly before its    *)
(* first event.  Nobody tells the worker.                                  *)
Disconnect(r) ==
  /\ client[r] \in {"accepted", "reading"}
  /\ client' = [client EXCEPT ![r] = "gone"]
  /\ UNCHANGED <<kind, worker, sent, provider>>

Next ==
  \E r \in Request :
    \/ \E k \in Kind : Receive(r, k)
    \/ ReceiveRecord(r) \/ Open(r) \/ Yield(r) \/ Disconnect(r)
    \/ Work(r)

Spec == Init /\ [][Next]_vars

(* Threads are scheduled, and the server pulls the generator of a client   *)
(* that is connected.  No request has to arrive, no client has to leave.   *)
Fairness ==
  \A r \in Request : WF_vars(Open(r)) /\ WF_vars(Yield(r)) /\ WF_vars(Work(r))

FairSpec == Spec /\ Fairness

-----------------------------------------------------------------------------
EventName ==
  {"ready", "progress", "markdown", "prompt", "final_completed", "final_failed",
   "error", "done", "end"}

EventType == [event : EventName, n : Nat]

Connection == {"idle", "accepted", "waiting", "reading", "closed", "gone"}

Place == {"idle", "get", "lock", "build", "run", "prompt", "report", "final",
          "finally", "ended"}

(* The variables keep their types; a lock is held while a factory runs. *)
TypeOK ==
  /\ kind \in [Request -> Kind \union {"none"}]
  /\ client \in [Request -> Connection]
  /\ pc \in [Request -> Place]
  /\ events \in [Request -> Seq(EventType)]
  /\ sent \in [Request -> Seq(EventType)]
  /\ outcome \in [Request -> Outcome]
  /\ service \in [Provider -> Service \union {NoService}]
  /\ lock \in [Provider -> {NoRequest} \union Request]
  /\ \A p \in Provider, r \in Request :
       lock[p] = r => pc[r] = "build" /\ providerOf(r) = p
  /\ used \in [Request -> Service \union {NoService}]
  /\ built \in [Provider -> Nat]

(* The parts of a stream: ready, progress, the report or the prompt, one   *)
(* verdict, the end.                                                       *)
Rank(name) ==
  CASE name = "ready" -> 1
    [] name = "progress" -> 2
    [] name \in {"markdown", "prompt"} -> 3
    [] name \in {"final_completed", "final_failed", "error"} -> 4
    [] name \in {"end", "done"} -> 5

(* e may come before f: only progress and the report have several events.  *)
Before(e, f) ==
  \/ Rank(e.event) < Rank(f.event)
  \/ Rank(e.event) = Rank(f.event) /\ Rank(e.event) \in {2, 3}

(* What a client has read is the beginning of a stream whose parts follow  *)
(* in order with one verdict at most, and it has the whole stream when it  *)
(* has read the end: nothing comes after it and nothing is missing.        *)
StreamIsWellFormed ==
  \A r \in Request :
    LET stream == sent[r]
    IN  /\ \A i, j \in DOMAIN stream : i < j => Before(stream[i], stream[j])
        /\ stream # <<>> => stream[1].event = "ready"
        /\ client[r] = "closed" /\ kind[r] # "record" =>
             /\ stream[Len(stream)].event = "end"
             /\ Rank(stream[Len(stream) - 1].event) = 4
             /\ pc[r] = "ended" /\ events[r] = <<>>

(* The verdict fits to what was shown before it: a completed task has its  *)
(* whole report shown, in order; a prompt is followed by the verdict that  *)
(* the task failed; and after a part of a report there is no error.        *)
VerdictFitsReport ==
  \A r \in Request :
    LET stream == sent[r]
        shown == {i \in DOMAIN stream : stream[i].event \in {"markdown", "prompt"}}
        Nth(i) == Cardinality({j \in shown : j <= i})
        Verdict(name) == \E i \in DOMAIN stream : stream[i].event = name
    IN  /\ Verdict("final_completed") =>
             /\ Cardinality(shown) \in ReportLengths
             /\ \A i \in shown : stream[i] = ReportChunk(Nth(i))
        /\ Verdict("final_failed") => shown = {} \/ \E i \in shown : shown = {i} /\ stream[i] = Prompt
        /\ Verdict("error") => shown = {}

(* However many requests arrive while a service is being built, its        *)
(* factory runs once, and all of them get the same service, also when the  *)
(* factory has failed.                                                     *)
OneServicePerProvider ==
  /\ \A p \in Provider : built[p] <= 1
  /\ \A r \in Request :
       used[r] # NoService => used[r] = service[providerOf(r)]

(* A client that stays connected reads the end of its stream, and the      *)
(* worker of a stream comes to its end whether or not anybody still reads. *)
EveryRequestEnds ==
  \A r \in Request :
    client[r] = "accepted" ~>
      client[r] \in {"closed", "gone"} /\ pc[r] \in {"idle", "ended"}
=============================================================================
