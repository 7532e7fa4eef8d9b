------------------------------ MODULE MCAlarm -------------------------------
(***************************************************************************)
(* The process of the alarm worker, explored in one run: the loop over the *)
(* binlog (AlarmBinlog), and the tasks it runs to diagnose (TaskService).  *)
(* The loop takes a task as a whole, which is right if every task returns: *)
(* the two share no variable, and the task is followed while the loop      *)
(* waits.                                                                  *)
(***************************************************************************)
EXTENDS AlarmBinlog

CONSTANTS Thread, Task, NoTask, MaxCalls, MaxTaskFaults

VARIABLES
  taskPc, task, outcome, kind, writing, event,
  row, events, about, last_debug,
  slot, usages, stored,
  calls, returned, read, taskFaults

taskVars == <<taskPc, task, outcome, kind, writing, event, row, events, about,
              last_debug, slot, usages, stored, calls, returned, read,
              taskFaults>>

Tasks == INSTANCE TaskService
           WITH pc <- taskPc, faults <- taskFaults, MaxFaults <- MaxTaskFaults

MCInit == Init /\ Tasks!Init

LoopStep == Tasks!Init /\ Next /\ UNCHANGED taskVars

(* The reader waits for a first alarm, and the loop has nothing to do. *)
AtRest == pc = "stream" /\ binlog = <<>> /\ faults = 0

TaskStep == AtRest /\ Tasks!Next /\ UNCHANGED vars

MCSpec ==
  /\ MCInit
  /\ [][LoopStep \/ TaskStep]_<<vars, taskVars>>
  /\ WF_vars(Work) /\ Tasks!Fairness

(* Every task that was accepted comes back to its caller, unless the       *)
(* process dies: no failing statement makes it hang or vanish.  About the  *)
(* try around each write of the record in both services.                   *)
EveryTaskReturns == Tasks!EveryTaskReturns

=============================================================================
