--------------------------- MODULE TaskLifecycle ---------------------------
(***************************************************************************)
(* What the task record promises to whoever polls it: the events of a task *)
(* move strictly forward through the stages of the work, so that a task    *)
(* ends at most once and nothing follows its end; and the status column    *)
(* only ever takes the value of the newest event.  It does not promise     *)
(* that every stage, or the end, is recorded.                              *)
(***************************************************************************)
EXTENDS Integers, Sequences

CONSTANT Task

VARIABLES
  row,      \* row[t]: the status column of task t; "absent": no such row
  events    \* events[t]: the statuses of its events, oldest first

vars == <<row, events>>

(* The stages in the order in which a task goes through them. *)
Rank == [received |-> 1, parsing_sql |-> 2, diagnosing |-> 3,
         generating_report |-> 4, retrieving_cases |-> 5,
         completed |-> 6, failed |-> 6]

Status == DOMAIN Rank

Newest(log) == log[Len(log)]

Follows(s, log) == log = <<>> \/ Rank[Newest(log)] < Rank[s]

Init ==
  /\ row = [t \in Task |-> "absent"]
  /\ events = [t \in Task |-> <<>>]

Create(t) ==
  /\ row[t] = "absent"
  /\ row' = [row EXCEPT ![t] = "received"]
  /\ UNCHANGED events

Log(t, s) ==
  /\ row[t] # "absent"
  /\ Follows(s, events[t])
  /\ events' = [events EXCEPT ![t] = Append(@, s)]
  /\ UNCHANGED row

Sync(t) ==
  /\ events[t] # <<>>
  /\ row' = [row EXCEPT ![t] = Newest(events[t])]
  /\ UNCHANGED events

Next ==
  \E t \in Task :
    \/ Create(t)
    \/ \E s \in Status : Log(t, s)
    \/ Sync(t)

Spec == Init /\ [][Next]_vars
=============================================================================
