---------------------------- MODULE TaskService ----------------------------
(***************************************************************************)
(* OptimizationTaskService.run_sql, FaultDiagnosisTaskService.run_diagnosis*)
(* and create_task_record, called by several threads of one process that   *)
(* share the task repository (Postgres), the report composer and the Qwen  *)
(* gateway; and get_task, called by anybody.                               *)
(*                                                                         *)
(*   pc, task, outcome   per thread: where it stands, its task, and how    *)
(*                       the workflow ended                                *)
(*   kind                per task: what was asked for                      *)
(*   writing, event      per thread: the append_event under way            *)
(*   row, events         optimization_tasks.status, optimization_events    *)
(*   about               per task: whose case retrieval its debug event    *)
(*                       shows                                             *)
(*   last_debug          the composer's last_case_retrieval_debug          *)
(*   slot, usages        the gateway's thread-local task_id and records;   *)
(*                       records that a thread is storing                  *)
(*   stored              agent_token_usage rows per task                   *)
(*   calls, returned     history: Qwen calls answered for a task, and what *)
(*                       its caller was told                               *)
(*   read                the caller of get_task                            *)
(*                                                                         *)
(* Every statement of the repository is a step of its own: asyncpg commits *)
(* each of them, nothing opens a transaction.                              *)
(***************************************************************************)
EXTENDS Integers, Sequences, Functions

CONSTANTS
  Thread, Task,
  NoTask,      \* None
  MaxCalls,    \* Qwen calls that answer per task (bound)
  MaxFaults    \* how many statements fail, crashes included (bound)

ASSUME ConstantsAssumption ==
  /\ NoTask \notin Task
  /\ MaxCalls \in Nat
  /\ MaxFaults \in Nat

VARIABLES
  pc, task, outcome, kind, writing, event,
  row, events, about, last_debug,
  slot, usages, stored,
  calls, returned, read, faults

thread == <<pc, task, outcome, kind>>
write  == <<writing, event>>
log    == <<row, events, about>>
gateway == <<slot, usages, stored, calls>>
vars == <<pc, task, outcome, kind, writing, event, row, events, about,
          last_debug, slot, usages, stored, calls, returned, read, faults>>

Kind == {"none", "sql", "fault", "record"}

Lifecycle == INSTANCE TaskLifecycle

Status == Lifecycle!Status

(* The workflow graph is running. *)
Running == {"graph", "compose", "report", "fallback", "reported"}

PC == {"idle", "create", "received", "start", "parsing", "diagnosing",
       "generating", "usage", "store", "debug", "close", "return"}
        \union Running

(* UsageSlot of a gateway with plain attributes (a variant, see below). *)
SharedSlot(th) == CHOOSE other \in Thread : TRUE

(* threading.local(): a slot of its own for each thread. *)
UsageSlot(th) == th

NoAnswer == [task |-> NoTask, status |-> "absent"]

EmptySlot == [task |-> NoTask, records |-> <<>>]

Init ==
  /\ pc = [th \in Thread |-> "idle"]
  /\ task = [th \in Thread |-> NoTask]
  /\ outcome = [th \in Thread |-> "none"]
  /\ kind = [t \in Task |-> "none"]
  /\ writing = [th \in Thread |-> "no"]
  /\ event = [th \in Thread |-> "received"]
  /\ row = [t \in Task |-> "absent"]
  /\ events = [t \in Task |-> <<>>]
  /\ about = [t \in Task |-> NoTask]
  /\ last_debug = NoTask
  /\ slot = [th \in Thread |-> EmptySlot]
  /\ usages = [th \in Thread |-> <<>>]
  /\ stored = [t \in Task |-> 0]
  /\ calls = [t \in Task |-> 0]
  /\ returned = [t \in Task |-> "no"]
  /\ read = NoAnswer
  /\ faults = 0

Fault ==
  /\ faults < MaxFaults
  /\ faults' = faults + 1

(* th stands at one of `places' and is not inside append_event. *)
At(th, places) == pc[th] \in places /\ writing[th] = "no"

Goto(th, place) == pc' = [pc EXCEPT ![th] = place]

Kindof(th) == kind[task[th]]

(* append_event(s) is called; th continues at `place' when it is over. *)
Emit(th, s, place) ==
  /\ event' = [event EXCEPT ![th] = s]
  /\ writing' = [writing EXCEPT ![th] = "insert"]
  /\ Goto(th, place)

-----------------------------------------------------------------------------
(* Variants: each is one definition below (UsageSlot above) with a         *)
(* plausible bug.  No action uses them; each property fails with one of    *)
(* them in place of the definition it varies.                              *)

(* WriteFails that ignores a failed INSERT and goes on to the UPDATE. *)
InsertFailureIgnored(th) ==
  /\ writing[th] = "insert" /\ Fault
  /\ writing' = [writing EXCEPT ![th] = "update"]
  /\ UNCHANGED <<thread, event, log, last_debug, gateway, returned, read>>

(* WriteFails that is not caught: the thread ends. *)
WriteFailureRaised(th) ==
  /\ writing[th] # "no" /\ Fault
  /\ writing' = [writing EXCEPT ![th] = "no"]
  /\ task' = [task EXCEPT ![th] = NoTask]
  /\ Goto(th, "idle")
  /\ UNCHANGED <<outcome, kind, event, log, last_debug, gateway, returned,
                 read>>

(* GraphFails that only returns. *)
FailureUnrecorded(th) ==
  /\ At(th, Running)
  /\ outcome' = [outcome EXCEPT ![th] = "error"]
  /\ Goto(th, "usage")
  /\ UNCHANGED <<task, kind, write, log, last_debug, gateway, returned, read,
                 faults>>

(* UsageStored that falls through to the end of run_sql after an error. *)
NoReturnInExcept(th) ==
  /\ At(th, {"store"}) /\ usages[th] = <<>>
  /\ Goto(th, IF Kindof(th) = "sql" THEN "debug" ELSE "close")
  /\ UNCHANGED <<task, outcome, kind, write, log, last_debug, gateway,
                 returned, read, faults>>

(* Close that does not look for a blocker, ... *)
CloseCompleted(th) ==
  /\ At(th, {"close"})
  /\ Emit(th, "completed", "return")
  /\ UNCHANGED <<task, outcome, kind, log, last_debug, gateway, returned,
                 read, faults>>

(* ... and one that records the outcome instead of a status. *)
CloseWithOutcome(th) ==
  /\ At(th, {"close"})
  /\ Emit(th, outcome[th], "return")
  /\ UNCHANGED <<task, outcome, kind, log, last_debug, gateway, returned,
                 read, faults>>

-----------------------------------------------------------------------------
(* append_event: an INSERT, then an UPDATE of the status column.  Whatever *)
(* goes wrong is logged by the caller and the task goes on.                *)

InsertEvent(th) ==
  /\ writing[th] = "insert" /\ row[task[th]] # "absent"
  /\ events' = [events EXCEPT ![task[th]] = Append(@, event[th])]
  /\ writing' = [writing EXCEPT ![th] = "update"]
  /\ UNCHANGED <<thread, event, row, about, last_debug, gateway, returned,
                 read, faults>>

(* The foreign key to optimization_tasks: no event without its task. *)
InsertRefused(th) ==
  /\ writing[th] = "insert" /\ row[task[th]] = "absent"
  /\ writing' = [writing EXCEPT ![th] = "no"]
  /\ UNCHANGED <<thread, event, log, last_debug, gateway, returned, read,
                 faults>>

UpdateStatus(th) ==
  /\ writing[th] = "update"
  /\ row' = [row EXCEPT ![task[th]] = event[th]]
  /\ writing' = [writing EXCEPT ![th] = "no"]
  /\ UNCHANGED <<thread, event, events, about, last_debug, gateway, returned,
                 read, faults>>

WriteFails(th) ==
  /\ writing[th] # "no" /\ Fault
  /\ writing' = [writing EXCEPT ![th] = "no"]
  /\ UNCHANGED <<thread, event, log, last_debug, gateway, returned, read>>

-----------------------------------------------------------------------------
(* _record_task_received. *)

(* A request arrives and gets an id of its own (uuid4). *)
Start(th, t, k) ==
  /\ At(th, {"idle"}) /\ kind[t] = "none" /\ k # "none"
  /\ kind' = [kind EXCEPT ![t] = k]
  /\ task' = [task EXCEPT ![th] = t]
  /\ Goto(th, "create")
  /\ UNCHANGED <<outcome, write, log, last_debug, gateway, returned, read, faults>>

CreateTask(th) ==
  /\ At(th, {"create"})
  /\ row' = [row EXCEPT ![task[th]] = "received"]
  /\ Goto(th, "received")
  /\ UNCHANGED <<task, outcome, kind, write, events, about, last_debug,
                 gateway, returned, read, faults>>

(* One try holds both calls: without the row the event is not attempted. *)
CreateFails(th) ==
  /\ At(th, {"create"}) /\ Fault
  /\ Goto(th, IF Kindof(th) = "record" THEN "return" ELSE "start")
  /\ UNCHANGED <<task, outcome, kind, write, log, last_debug, gateway,
                 returned, read>>

Received(th) ==
  /\ At(th, {"received"})
  /\ Emit(th, "received", IF Kindof(th) = "record" THEN "return" ELSE "start")
  /\ UNCHANGED <<task, outcome, kind, log, last_debug, gateway, returned,
                 read, faults>>

-----------------------------------------------------------------------------
(* The task runner and its progress messages. *)

StartUsage(th) ==
  /\ At(th, {"start"})
  /\ slot' = [slot EXCEPT ![UsageSlot(th)] =
                [task |-> task[th], records |-> <<>>]]
  /\ Goto(th, IF Kindof(th) = "sql" THEN "parsing" ELSE "graph")
  /\ UNCHANGED <<task, outcome, kind, write, log, last_debug, usages, stored,
                 calls, returned, read, faults>>

Parsing(th) ==
  /\ At(th, {"parsing"})
  /\ Emit(th, "parsing_sql", "graph")
  /\ UNCHANGED <<task, outcome, kind, log, last_debug, gateway, returned,
                 read, faults>>

(* A Qwen call of the workflow answers: _record_usage. *)
QwenAnswers(th) ==
  /\ \/ At(th, {"compose", "report"})
     \/ At(th, {"graph"}) /\ Kindof(th) = "fault"
  /\ calls[task[th]] < MaxCalls
  /\ calls' = [calls EXCEPT ![task[th]] = @ + 1]
  /\ slot' = [slot EXCEPT ![UsageSlot(th)].records =
                IF slot[UsageSlot(th)].task = NoTask THEN @
                ELSE Append(@, slot[UsageSlot(th)].task)]
  /\ UNCHANGED <<thread, write, log, last_debug, usages, stored, returned,
                 read, faults>>

(* A route blocker in the evidence ends the graph without findings and     *)
(* report: no more progress, and the composer was not called.              *)
Blocked(th) ==
  /\ At(th, {"graph"}) /\ Kindof(th) = "sql"
  /\ outcome' = [outcome EXCEPT ![th] = "blocked"]
  /\ Goto(th, "usage")
  /\ UNCHANGED <<task, kind, write, log, last_debug, gateway, returned, read,
                 faults>>

(* compose() of the shared composer. *)
BeginCompose(th) ==
  /\ At(th, {"graph"}) /\ Kindof(th) = "sql"
  /\ last_debug' = NoTask
  /\ Goto(th, "compose")
  /\ UNCHANGED <<task, outcome, kind, write, log, gateway, returned, read,
                 faults>>

RecordDebug(th) ==
  /\ At(th, {"compose", "fallback"})
  /\ last_debug' = task[th]
  /\ Goto(th, IF pc[th] = "compose" THEN "report" ELSE "reported")
  /\ UNCHANGED <<task, outcome, kind, write, log, gateway, returned, read,
                 faults>>

(* No report from Qwen: the fallback retrieves the cases again. *)
QwenReportFails(th) ==
  /\ At(th, {"report"})
  /\ Goto(th, "fallback")
  /\ UNCHANGED <<task, outcome, kind, write, log, last_debug, gateway,
                 returned, read, faults>>

GraphDone(th) ==
  /\ \/ At(th, {"report", "reported"})
     \/ At(th, {"graph"}) /\ Kindof(th) = "fault"
  /\ outcome' = [outcome EXCEPT ![th] = "done"]
  /\ Goto(th, IF Kindof(th) = "sql" THEN "diagnosing" ELSE "generating")
  /\ UNCHANGED <<task, kind, write, log, last_debug, gateway, returned, read,
                 faults>>

Diagnosing(th) ==
  /\ At(th, {"diagnosing"})
  /\ Emit(th, "diagnosing", "generating")
  /\ UNCHANGED <<task, outcome, kind, log, last_debug, gateway, returned,
                 read, faults>>

Generating(th) ==
  /\ At(th, {"generating"})
  /\ Emit(th, "generating_report", "usage")
  /\ UNCHANGED <<task, outcome, kind, log, last_debug, gateway, returned,
                 read, faults>>

(* except Exception: the failure is recorded before the usage (finally). *)
GraphFails(th) ==
  /\ At(th, Running)
  /\ outcome' = [outcome EXCEPT ![th] = "error"]
  /\ Emit(th, "failed", "usage")
  /\ UNCHANGED <<task, kind, log, last_debug, gateway, returned, read, faults>>

-----------------------------------------------------------------------------
(* _record_collected_token_usage. *)

FinishUsage(th) ==
  /\ At(th, {"usage"})
  /\ usages' = [usages EXCEPT ![th] = slot[UsageSlot(th)].records]
  /\ slot' = [slot EXCEPT ![UsageSlot(th)] = EmptySlot]
  /\ Goto(th, "store")
  /\ UNCHANGED <<task, outcome, kind, write, log, last_debug, stored, calls,
                 returned, read, faults>>

(* append_token_usage, with a foreign key like that of the events. *)
StoreUsage(th) ==
  /\ At(th, {"store"}) /\ usages[th] # <<>>
  /\ stored' = [stored EXCEPT ![Head(usages[th])] =
                  IF row[Head(usages[th])] = "absent" THEN @ ELSE @ + 1]
  /\ usages' = [usages EXCEPT ![th] = Tail(@)]
  /\ UNCHANGED <<thread, write, log, last_debug, slot, calls, returned, read,
                 faults>>

StoreFails(th) ==
  /\ At(th, {"store"}) /\ usages[th] # <<>> /\ Fault
  /\ usages' = [usages EXCEPT ![th] = Tail(@)]
  /\ UNCHANGED <<thread, write, log, last_debug, slot, stored, calls,
                 returned, read>>

UsageStored(th) ==
  /\ At(th, {"store"}) /\ usages[th] = <<>>
  /\ Goto(th, CASE outcome[th] = "error"                       -> "return"
                [] outcome[th] # "error" /\ Kindof(th) = "sql" -> "debug"
                [] OTHER                                       -> "close")
  /\ UNCHANGED <<task, outcome, kind, write, log, last_debug, gateway,
                 returned, read, faults>>

-----------------------------------------------------------------------------
(* After the runner. *)

(* _record_case_retrieval_debug_event: whatever the composer did last. *)
RecordDebugEvent(th) ==
  /\ At(th, {"debug"})
  /\ IF last_debug = NoTask
       THEN Goto(th, "close") /\ UNCHANGED <<write, about>>
       ELSE /\ Emit(th, "retrieving_cases", "close")
            /\ about' = [about EXCEPT ![task[th]] = last_debug]
  /\ UNCHANGED <<task, outcome, kind, row, events, last_debug, gateway,
                 returned, read, faults>>

Close(th) ==
  /\ At(th, {"close"})
  /\ Emit(th, IF outcome[th] = "done" THEN "completed" ELSE "failed", "return")
  /\ UNCHANGED <<task, outcome, kind, log, last_debug, gateway, returned,
                 read, faults>>

(* OptimizationTaskExecution, or the bare id of create_task_record. *)
Return(th) ==
  /\ At(th, {"return"})
  /\ returned' = [returned EXCEPT ![task[th]] =
                    CASE Kindof(th) = "record" -> "id"
                      [] outcome[th] = "done"  -> "completed"
                      [] OTHER                 -> "failed"]
  /\ task' = [task EXCEPT ![th] = NoTask]
  /\ outcome' = [outcome EXCEPT ![th] = "none"]
  /\ event' = [event EXCEPT ![th] = "received"]
  /\ Goto(th, "idle")
  /\ UNCHANGED <<kind, writing, log, last_debug, gateway, read, faults>>

-----------------------------------------------------------------------------
(* The process dies and is started again; the database stays. *)
Crash ==
  /\ Fault
  /\ \E th \in Thread : pc[th] # "idle"
  /\ returned' = [t \in Task |->
                    IF \E th \in Thread : task[th] = t THEN "lost"
                    ELSE returned[t]]
  /\ pc' = [th \in Thread |-> "idle"]
  /\ task' = [th \in Thread |-> NoTask]
  /\ writing' = [th \in Thread |-> "no"]
  /\ slot' = [th \in Thread |-> EmptySlot]
  /\ usages' = [th \in Thread |-> <<>>]
  /\ last_debug' = NoTask
  /\ outcome' = [th \in Thread |-> "none"]
  /\ event' = [th \in Thread |-> "received"]
  /\ UNCHANGED <<kind, log, stored, calls, read>>

-----------------------------------------------------------------------------
(* get_task: the row is selected first, the events afterwards; the answer  *)
(* is read.status with the events of the moment of the second statement.   *)

ReadRow(t) ==
  /\ row[t] # "absent"
  /\ read.task = NoTask
  /\ read' = [task |-> t, status |-> row[t]]
  /\ UNCHANGED <<thread, write, log, last_debug, gateway, returned, faults>>

ReadEvents ==
  /\ read.task # NoTask
  /\ read' = NoAnswer
  /\ UNCHANGED <<thread, write, log, last_debug, gateway, returned, faults>>

-----------------------------------------------------------------------------
Step(th) ==
  \/ InsertEvent(th) \/ InsertRefused(th) \/ UpdateStatus(th)
  \/ CreateTask(th) \/ Received(th)
  \/ StartUsage(th) \/ Parsing(th)
  \/ QwenAnswers(th) \/ Blocked(th) \/ BeginCompose(th) \/ RecordDebug(th)
  \/ QwenReportFails(th) \/ GraphDone(th) \/ Diagnosing(th) \/ Generating(th)
  \/ GraphFails(th)
  \/ FinishUsage(th) \/ StoreUsage(th) \/ UsageStored(th)
  \/ RecordDebugEvent(th) \/ Close(th) \/ Return(th)

Trouble(th) == WriteFails(th) \/ CreateFails(th) \/ StoreFails(th)

Next ==
  \/ \E th \in Thread : Step(th) \/ Trouble(th)
  \/ \E th \in Thread, t \in Task, k \in Kind : Start(th, t, k)
  \/ Crash
  \/ \E t \in Task : ReadRow(t)
  \/ ReadEvents

Spec == Init /\ [][Next]_vars

(* Threads are scheduled, and the calls they make return.  No request has  *)
(* to arrive, nobody has to poll, nothing has to fail.                     *)
Fairness == \A th \in Thread : WF_vars(Step(th))

FairSpec == Spec /\ Fairness

-----------------------------------------------------------------------------
(* Properties. *)

(* The variables keep their types. *)
TypeOK ==
  /\ pc \in [Thread -> PC]
  /\ task \in [Thread -> Task \union {NoTask}]
  /\ outcome \in [Thread -> {"none", "blocked", "done", "error"}]
  /\ kind \in [Task -> Kind]
  /\ writing \in [Thread -> {"no", "insert", "update"}]
  /\ event \in [Thread -> Status]
  /\ row \in [Task -> Status \union {"absent"}]
  /\ events \in [Task -> Seq(Status)]
  /\ about \in [Task -> Task \union {NoTask}]
  /\ last_debug \in Task \union {NoTask}
  /\ slot \in [Thread -> [task : Task \union {NoTask}, records : Seq(Task)]]
  /\ usages \in [Thread -> Seq(Task)]
  /\ stored \in [Task -> Nat]
  /\ calls \in [Task -> Nat]
  /\ returned \in [Task -> {"no", "id", "completed", "failed", "lost"}]
  /\ read \in [task : Task \union {NoTask}, status : Status \union {"absent"}]
  /\ faults \in Nat

Logged(t) == Range(events[t])

(* The record never contradicts what the caller was told, whatever failed  *)
(* to be recorded.                                                         *)
RecordAgreesWithReturn ==
  \A t \in Task :
    /\ returned[t] = "completed" => "failed" \notin Logged(t) \union {row[t]}
    /\ returned[t] = "failed" => "completed" \notin Logged(t) \union {row[t]}
    /\ returned[t] = "id" => Logged(t) \subseteq {"received"}

(* Tokens are booked on the task that spent them, although all threads     *)
(* share one gateway, and never twice.                                     *)
UsageIsOwn == \A t \in Task : stored[t] <= calls[t]

(* As long as nothing went wrong, a task that was returned is completely   *)
(* on record: its end, its status and its tokens.                          *)
RecordIsComplete ==
  \A t \in Task :
    faults = 0 /\ returned[t] \in {"completed", "failed"} =>
      /\ events[t] # <<>>
      /\ Lifecycle!Newest(events[t]) = returned[t]
      /\ row[t] = returned[t]
      /\ stored[t] = calls[t]

(* A reader that polls between the statements of a writer never sees a     *)
(* status whose event is missing from the list it gets with it.            *)
StatusIsExplained ==
  read.task # NoTask /\ read.status # "received" =>
    read.status \in Logged(read.task)

(* Every task that was accepted comes back to its caller, unless the       *)
(* process dies: no failing statement makes it hang or vanish.             *)
EveryTaskReturns ==
  \A t \in Task : kind[t] # "none" ~> returned[t] # "no"

(* The record of a task keeps the promise of TaskLifecycle. *)
ImplementsLifecycle == Lifecycle!Spec

-----------------------------------------------------------------------------
(* What a test says and the code does not do. *)

(* test_optimization_task_service.py:167: after a success the debug event  *)
(* of the case retrieval is on record, and shows what the composer found   *)
(* for this task.                                                          *)
DebugShowsOwnRetrieval ==
  \A t \in Task :
    faults = 0 /\ kind[t] = "sql" /\ returned[t] = "completed" =>
      "retrieving_cases" \in Logged(t) /\ about[t] = t

=============================================================================
