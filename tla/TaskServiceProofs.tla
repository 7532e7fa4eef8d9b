------------------------- MODULE TaskServiceProofs -------------------------
(***************************************************************************)
(* Proofs about TaskService for any number of threads, tasks, Qwen calls   *)
(* and faults.                                                             *)
(***************************************************************************)
EXTENDS TaskService, TLAPS

-----------------------------------------------------------------------------
(* The inductive invariant. *)

(* A thread at work has a task of its own, one that was accepted and not   *)
(* returned yet; a task that no request created is blank.                  *)
Owned ==
  /\ \A th \in Thread :
       /\ task[th] = NoTask <=> pc[th] = "idle"
       /\ pc[th] \in {"idle", "create"} => writing[th] = "no"
       /\ pc[th] = "create" => row[task[th]] = "absent"
       /\ pc[th] # "idle" =>
            kind[task[th]] # "none" /\ returned[task[th]] = "no"
  /\ \A th, other \in Thread :
       task[th] = task[other] /\ task[th] # NoTask => th = other
  /\ \A t \in Task :
       kind[t] = "none" => row[t] = "absent" /\ returned[t] = "no"

(* No event without a row, and no status without its event. *)
Backed ==
  \A t \in Task :
    /\ row[t] = "absent" => events[t] = <<>>
    /\ row[t] \in {"absent", "received"} \union Logged(t)

(* The outcome is known from the end of the graph on; a bare record has    *)
(* none.                                                                   *)
OutcomeKnown ==
  \A th \in Thread :
    /\ pc[th] \in {"diagnosing", "generating"} => outcome[th] = "done"
    /\ pc[th] \in {"usage", "store", "debug", "close"} => outcome[th] # "none"
    /\ outcome[th] # "none" =>
         pc[th] \in {"diagnosing", "generating", "usage", "store", "debug",
                     "close", "return"}
    /\ outcome[th] = "error" => pc[th] \in {"usage", "store", "return"}
    /\ pc[th] # "idle" =>
         IF kind[task[th]] = "record"
           THEN pc[th] \in {"create", "received", "return"} /\ outcome[th] = "none"
           ELSE pc[th] = "return" => outcome[th] # "none"

(* The rank that all events a thread may still emit have at least. *)
Floor(th) ==
  IF outcome[th] = "error" \/ pc[th] = "return" THEN 7
  ELSE IF pc[th] = "close" THEN 6
  ELSE IF pc[th] \in {"usage", "store", "debug"} THEN 5
  ELSE IF pc[th] = "generating" THEN 4
  ELSE IF pc[th] \in Running \union {"diagnosing"} THEN 3
  ELSE IF pc[th] \in {"start", "parsing"} THEN 2
  ELSE 1

Rank(s) == Lifecycle!Rank[s]

Newest(t) == Lifecycle!Newest(events[t])

Below(t, rank) == events[t] = <<>> \/ Rank(Newest(t)) < rank

(* What is on record of a task lies below what is being written, and that  *)
(* below what is still to come.                                            *)
Ordered(th) ==
  /\ writing[th] = "no" => Below(task[th], Floor(th))
  /\ writing[th] # "no" => Rank(event[th]) < Floor(th)
  /\ writing[th] = "insert" => Below(task[th], Rank(event[th]))
  /\ writing[th] = "update" =>
       events[task[th]] # <<>> /\ Newest(task[th]) = event[th]

InOrder == \A th \in Thread : task[th] # NoTask => Ordered(th)

(* The statuses on record of a thread's task, or about to be. *)
Told(th) ==
  Logged(task[th]) \union (IF writing[th] = "no" THEN {} ELSE {event[th]})

(* No end is written that the answer will contradict, ... *)
Agreeing(th) ==
  /\ "completed" \in Told(th) => outcome[th] = "done"
  /\ "failed" \in Told(th) => outcome[th] \in {"blocked", "error"}
  /\ kind[task[th]] = "record" => Told(th) \subseteq {"received"}

(* ... and none was. *)
Settled(t) ==
  /\ returned[t] = "completed" => "failed" \notin Logged(t)
  /\ returned[t] = "failed" => "completed" \notin Logged(t)
  /\ returned[t] = "id" => Logged(t) \subseteq {"received"}

Agreed ==
  /\ \A th \in Thread : task[th] # NoTask => Agreeing(th)
  /\ \A t \in Task : Settled(t)

(* The usage at hand was spent by the thread's own task, and is not booked *)
(* yet.                                                                    *)
Collecting == Running \union {"parsing", "diagnosing", "generating", "usage"}

Accounted(th) ==
  /\ slot[th].task \in {NoTask, task[th]}
  /\ \A i \in DOMAIN slot[th].records : slot[th].records[i] = task[th]
  /\ \A i \in DOMAIN usages[th] : usages[th][i] = task[th]
  /\ pc[th] \notin Collecting => slot[th] = EmptySlot
  /\ pc[th] # "store" => usages[th] = <<>>
  /\ task[th] # NoTask =>
       stored[task[th]] + Len(slot[th].records) + Len(usages[th])
         <= calls[task[th]]

Booked == (\A th \in Thread : Accounted(th)) /\ UsageIsOwn

IInv ==
  /\ TypeOK /\ Owned /\ Backed /\ OutcomeKnown /\ InOrder /\ Agreed /\ Booked
  /\ StatusIsExplained


-----------------------------------------------------------------------------
(* An appended event is the newest one, and the others stay. *)
LEMMA AppendFacts ==
  ASSUME NEW s \in Seq(Status), NEW e \in Status
  PROVE  /\ Append(s, e) \in Seq(Status) /\ Append(s, e) # <<>>
         /\ Append(s, e)[Len(Append(s, e))] = e
         /\ Range(Append(s, e)) = Range(s) \union {e}
<1>1. /\ Append(s, e) \in Seq(Status) /\ Append(s, e) # <<>>
      /\ Len(Append(s, e)) = Len(s) + 1
      /\ Len(s) \in Nat
      /\ DOMAIN s = 1 .. Len(s)
      /\ DOMAIN Append(s, e) = 1 .. Len(s) + 1
      /\ \A i \in 1 .. Len(s) : Append(s, e)[i] = s[i]
      /\ Append(s, e)[Len(s) + 1] = e
  OBVIOUS
<1>2. \A i \in 1 .. Len(s) + 1 : i \in 1 .. Len(s) \/ i = Len(s) + 1
  BY <1>1
<1>3. \A i \in 1 .. Len(s) : i \in 1 .. Len(s) + 1
  BY <1>1
<1>4. Len(s) + 1 \in 1 .. Len(s) + 1
  BY <1>1
<1>5. Range(Append(s, e)) \subseteq Range(s) \union {e}
  BY <1>1, <1>2 DEF Range
<1>6. Range(s) \union {e} \subseteq Range(Append(s, e))
  BY <1>1, <1>3, <1>4 DEF Range
<1> QED
  BY <1>1, <1>5, <1>6

LEMMA InsertAppends ==
  ASSUME TypeOK, Owned, NEW th \in Thread, InsertEvent(th)
  PROVE  /\ task[th] \in Task /\ event[th] \in Status
         /\ events'[task[th]] # <<>>
         /\ Lifecycle!Newest(events'[task[th]]) = event[th]
         /\ Range(events'[task[th]]) = Range(events[task[th]]) \union {event[th]}
         /\ \A t \in Task \ {task[th]} : events'[t] = events[t]
<1>1. /\ task[th] \in Task /\ event[th] \in Status
      /\ events[task[th]] \in Seq(Status) /\ task' = task
      /\ events' = [events EXCEPT ![task[th]] =
                      Append(events[task[th]], event[th])]
      /\ DOMAIN events = Task
  BY DEF InsertEvent, TypeOK, Owned, thread
<1>2. events'[task[th]] = Append(events[task[th]], event[th])
  BY <1>1
<1>3. \A t \in Task \ {task[th]} : events'[t] = events[t]
  BY <1>1
<1> QED
  BY <1>1, <1>2, <1>3, AppendFacts DEF Lifecycle!Newest

LEMMA NewestInRange ==
  ASSUME NEW s \in Seq(Status), s # <<>>
  PROVE  Lifecycle!Newest(s) \in Range(s) /\ Lifecycle!Newest(s) \in Status
<1>1. Len(s) \in DOMAIN s
  OBVIOUS
<1> QED
  BY <1>1 DEF Lifecycle!Newest, Range


LEMMA TypeStep ==
  ASSUME TypeOK, Owned, [Next]_vars
  PROVE  TypeOK'
<1> USE DEF TypeOK, UsageSlot, EmptySlot, NoAnswer, Kind, Status, Lifecycle!Status,
           Lifecycle!Rank, At, Goto, Kindof, Emit, Fault, thread, write, log,
           gateway, PC, Running
<1>1. ASSUME NEW th \in Thread, InsertEvent(th) PROVE TypeOK'
  <2>1. /\ task[th] \in Task /\ event[th] \in Status
        /\ events[task[th]] \in Seq(Status)
    BY <1>1 DEF InsertEvent, Owned
  <2>2. Append(events[task[th]], event[th]) \in Seq(Status)
    BY <2>1
  <2>3. events' \in [Task -> Seq(Status)]
    BY <1>1, <2>1, <2>2 DEF InsertEvent
  <2> QED
    BY <1>1, <2>3 DEF InsertEvent
<1>2. ASSUME NEW th \in Thread, InsertRefused(th) PROVE TypeOK'
  BY <1>2 DEF InsertRefused
<1>3. ASSUME NEW th \in Thread, UpdateStatus(th) PROVE TypeOK'
  BY <1>3 DEF UpdateStatus
<1>4. ASSUME NEW th \in Thread, WriteFails(th) PROVE TypeOK'
  BY <1>4 DEF WriteFails
<1>5. ASSUME NEW th \in Thread, CreateTask(th) PROVE TypeOK'
  BY <1>5 DEF CreateTask
<1>6. ASSUME NEW th \in Thread, CreateFails(th) PROVE TypeOK'
  BY <1>6, SMTT(30) DEF CreateFails
<1>7. ASSUME NEW th \in Thread, Received(th) PROVE TypeOK'
  BY <1>7 DEF Received
<1>8. ASSUME NEW th \in Thread, StartUsage(th) PROVE TypeOK'
  BY <1>8, SMTT(30) DEF StartUsage
<1>9. ASSUME NEW th \in Thread, Parsing(th) PROVE TypeOK'
  BY <1>9 DEF Parsing
<1>10. ASSUME NEW th \in Thread, QwenAnswers(th) PROVE TypeOK'
  <2>1. /\ task[th] \in Task /\ calls[task[th]] \in Nat
        /\ slot[th].task \in Task \union {NoTask}
        /\ slot[th].records \in Seq(Task)
    BY <1>10 DEF QwenAnswers, Owned
  <2>2. calls' \in [Task -> Nat]
    BY <1>10, <2>1 DEF QwenAnswers
  <2> DEFINE records == IF slot[th].task = NoTask THEN slot[th].records
                        ELSE Append(slot[th].records, slot[th].task)
  <2>3. records \in Seq(Task)
    BY <2>1
  <2>4. slot' = [slot EXCEPT ![th].records = records]
    BY <1>10 DEF QwenAnswers
  <2>5. [slot[th] EXCEPT !.records = records]
          \in [task : Task \union {NoTask}, records : Seq(Task)]
    <3> HIDE DEF records
    <3>1. slot[th] \in [task : Task \union {NoTask}, records : Seq(Task)]
      OBVIOUS
    <3> QED
      BY <2>3, <3>1
  <2>6. slot' \in [Thread -> [task : Task \union {NoTask}, records : Seq(Task)]]
    <3> HIDE DEF records
    <3> QED
      BY <2>4, <2>5
  <2> QED
    BY <1>10, <2>2, <2>6 DEF QwenAnswers
<1>11. ASSUME NEW th \in Thread, Blocked(th) PROVE TypeOK'
  BY <1>11 DEF Blocked
<1>12. ASSUME NEW th \in Thread, BeginCompose(th) PROVE TypeOK'
  BY <1>12 DEF BeginCompose
<1>13. ASSUME NEW th \in Thread, RecordDebug(th) PROVE TypeOK'
  BY <1>13 DEF RecordDebug
<1>14. ASSUME NEW th \in Thread, QwenReportFails(th) PROVE TypeOK'
  BY <1>14 DEF QwenReportFails
<1>15. ASSUME NEW th \in Thread, GraphDone(th) PROVE TypeOK'
  BY <1>15 DEF GraphDone
<1>16. ASSUME NEW th \in Thread, Diagnosing(th) PROVE TypeOK'
  BY <1>16 DEF Diagnosing
<1>17. ASSUME NEW th \in Thread, Generating(th) PROVE TypeOK'
  BY <1>17 DEF Generating
<1>18. ASSUME NEW th \in Thread, GraphFails(th) PROVE TypeOK'
  BY <1>18 DEF GraphFails
<1>19. ASSUME NEW th \in Thread, FinishUsage(th) PROVE TypeOK'
  BY <1>19 DEF FinishUsage
<1>20. ASSUME NEW th \in Thread, StoreUsage(th) PROVE TypeOK'
  <2>1. usages[th] \in Seq(Task) /\ usages[th] # <<>>
    BY <1>20 DEF StoreUsage
  <2>2. Head(usages[th]) \in Task /\ Tail(usages[th]) \in Seq(Task)
    BY <2>1
  <2>3. stored' \in [Task -> Nat]
    <3>1. stored \in [Task -> Nat]
      OBVIOUS
    <3> HIDE DEF TypeOK
    <3>2. \/ stored' = stored
          \/ stored' = [stored EXCEPT ![Head(usages[th])] =
                         stored[Head(usages[th])] + 1]
      <4>1. stored[Head(usages[th])] \in Nat
        BY <2>2, <3>1
      <4> QED
        BY <1>20, <2>2, <3>1, <4>1 DEF StoreUsage
    <3>3. stored[Head(usages[th])] + 1 \in Nat
      BY <2>2, <3>1
    <3> QED
      BY <3>1, <3>2, <3>3
  <2>4. usages' \in [Thread -> Seq(Task)]
    <3>1. usages' = [usages EXCEPT ![th] = Tail(usages[th])]
      BY <1>20 DEF StoreUsage
    <3> QED
      BY <2>2, <3>1
  <2> QED
    BY <1>20, <2>3, <2>4 DEF StoreUsage
<1>21. ASSUME NEW th \in Thread, StoreFails(th) PROVE TypeOK'
  <2>1. usages[th] \in Seq(Task) /\ usages[th] # <<>>
    BY <1>21 DEF StoreFails
  <2>2. Tail(usages[th]) \in Seq(Task)
    BY <2>1
  <2>3. usages' \in [Thread -> Seq(Task)]
    <3>1. usages' = [usages EXCEPT ![th] = Tail(usages[th])]
      BY <1>21 DEF StoreFails
    <3> QED
      BY <2>2, <3>1
  <2> QED
    <3>1. /\ UNCHANGED <<thread, write, log, last_debug, slot, stored, calls,
                         returned, read>>
          /\ faults' = faults + 1
      BY <1>21 DEF StoreFails
    <3> QED
      BY <2>3, <3>1
<1>22. ASSUME NEW th \in Thread, UsageStored(th) PROVE TypeOK'
  BY <1>22 DEF UsageStored
<1>23. ASSUME NEW th \in Thread, RecordDebugEvent(th) PROVE TypeOK'
  <2>1. task[th] \in Task
    BY <1>23 DEF RecordDebugEvent, Owned
  <2>2. CASE last_debug = NoTask
    <3>1. /\ pc' = [pc EXCEPT ![th] = "close"] /\ "close" \in PC
          /\ UNCHANGED <<write, about>>
      BY <1>23, <2>2 DEF RecordDebugEvent
    <3>2. /\ UNCHANGED <<task, outcome, kind, row, events, last_debug, gateway,
                         returned, read, faults>>
      BY <1>23 DEF RecordDebugEvent
    <3> HIDE DEF PC
    <3> QED
      BY <3>1, <3>2
  <2>3. CASE last_debug # NoTask
    <3>1. "retrieving_cases" \in Status /\ last_debug \in Task
      BY <2>3
    <3>2. about' \in [Task -> Task \union {NoTask}]
      <4>1. about' = [about EXCEPT ![task[th]] = last_debug]
        BY <1>23, <2>3 DEF RecordDebugEvent
      <4> QED
        BY <3>1, <4>1
    <3>3. /\ event' = [event EXCEPT ![th] = "retrieving_cases"]
          /\ pc' = [pc EXCEPT ![th] = "close"]
          /\ writing' = [writing EXCEPT ![th] = "insert"]
      BY <1>23, <2>3 DEF RecordDebugEvent
    <3> QED
      BY <1>23, <3>2, <3>3 DEF RecordDebugEvent
  <2> QED
    BY <2>2, <2>3
<1>24. ASSUME NEW th \in Thread, Close(th) PROVE TypeOK'
  BY <1>24 DEF Close
<1>25. ASSUME NEW th \in Thread, Return(th) PROVE TypeOK'
  BY <1>25 DEF Return
<1>26. ASSUME NEW th \in Thread, NEW t \in Task, NEW k \in Kind,
            Start(th, t, k)
     PROVE  TypeOK'
  BY <1>26 DEF Start
<1>27. CASE Crash
  BY <1>27 DEF Crash
<1>28. ASSUME NEW t \in Task, ReadRow(t) PROVE TypeOK'
  BY <1>28 DEF ReadRow
<1>29. CASE ReadEvents
  BY <1>29 DEF ReadEvents
<1>30. CASE UNCHANGED vars
  BY <1>30 DEF vars
<1> HIDE DEF TypeOK
<1> QED
  BY <1>1, <1>2, <1>3, <1>4, <1>5, <1>6, <1>7, <1>8, <1>9, <1>10, <1>11,
     <1>12, <1>13, <1>14, <1>15, <1>16, <1>17, <1>18, <1>19, <1>20,
     <1>21, <1>22, <1>23, <1>24, <1>25, <1>26, <1>27, <1>28, <1>29, <1>30
     DEF Next, Step, Trouble


LEMMA OwnedStep ==
  ASSUME TypeOK, Owned, [Next]_vars
  PROVE  Owned'
<1> USE DEF TypeOK, Owned, Kind, At, Goto, Kindof, Emit, Fault, thread, write, log,
           gateway, PC, Running
<1>1. ASSUME NEW th \in Thread, InsertEvent(th) PROVE Owned'
  BY <1>1 DEF InsertEvent
<1>2. ASSUME NEW th \in Thread, InsertRefused(th) PROVE Owned'
  BY <1>2 DEF InsertRefused
<1>3. ASSUME NEW th \in Thread, UpdateStatus(th) PROVE Owned'
  BY <1>3 DEF UpdateStatus
<1>4. ASSUME NEW th \in Thread, WriteFails(th) PROVE Owned'
  BY <1>4 DEF WriteFails
<1>5. ASSUME NEW th \in Thread, CreateTask(th) PROVE Owned'
  BY <1>5 DEF CreateTask
<1>6. ASSUME NEW th \in Thread, CreateFails(th) PROVE Owned'
  BY <1>6 DEF CreateFails
<1>7. ASSUME NEW th \in Thread, Received(th) PROVE Owned'
  BY <1>7 DEF Received
<1>8. ASSUME NEW th \in Thread, StartUsage(th) PROVE Owned'
  BY <1>8 DEF StartUsage
<1>9. ASSUME NEW th \in Thread, Parsing(th) PROVE Owned'
  BY <1>9 DEF Parsing
<1>10. ASSUME NEW th \in Thread, QwenAnswers(th) PROVE Owned'
  BY <1>10 DEF QwenAnswers
<1>11. ASSUME NEW th \in Thread, Blocked(th) PROVE Owned'
  BY <1>11 DEF Blocked
<1>12. ASSUME NEW th \in Thread, BeginCompose(th) PROVE Owned'
  BY <1>12 DEF BeginCompose
<1>13. ASSUME NEW th \in Thread, RecordDebug(th) PROVE Owned'
  BY <1>13 DEF RecordDebug
<1>14. ASSUME NEW th \in Thread, QwenReportFails(th) PROVE Owned'
  BY <1>14 DEF QwenReportFails
<1>15. ASSUME NEW th \in Thread, GraphDone(th) PROVE Owned'
  BY <1>15 DEF GraphDone
<1>16. ASSUME NEW th \in Thread, Diagnosing(th) PROVE Owned'
  BY <1>16 DEF Diagnosing
<1>17. ASSUME NEW th \in Thread, Generating(th) PROVE Owned'
  BY <1>17 DEF Generating
<1>18. ASSUME NEW th \in Thread, GraphFails(th) PROVE Owned'
  BY <1>18 DEF GraphFails
<1>19. ASSUME NEW th \in Thread, FinishUsage(th) PROVE Owned'
  BY <1>19 DEF FinishUsage
<1>20. ASSUME NEW th \in Thread, StoreUsage(th) PROVE Owned'
  BY <1>20, SMTT(30) DEF StoreUsage
<1>21. ASSUME NEW th \in Thread, StoreFails(th) PROVE Owned'
  BY <1>21, SMTT(30) DEF StoreFails
<1>22. ASSUME NEW th \in Thread, UsageStored(th) PROVE Owned'
  BY <1>22, SMTT(30) DEF UsageStored
<1>23. ASSUME NEW th \in Thread, RecordDebugEvent(th) PROVE Owned'
  BY <1>23, SMTT(30) DEF RecordDebugEvent
<1>24. ASSUME NEW th \in Thread, Close(th) PROVE Owned'
  BY <1>24 DEF Close
<1>25. ASSUME NEW th \in Thread, Return(th) PROVE Owned'
  BY <1>25 DEF Return
<1>26. ASSUME NEW th \in Thread, NEW t \in Task, NEW k \in Kind,
            Start(th, t, k)
     PROVE  Owned'
  <2>1. /\ \A other \in Thread : task[other] # t
        /\ row[t] = "absent" /\ returned[t] = "no" /\ t # NoTask
    BY <1>26, ConstantsAssumption DEF Start
  <2>2. /\ task' = [task EXCEPT ![th] = t] /\ pc' = [pc EXCEPT ![th] = "create"]
        /\ kind' = [kind EXCEPT ![t] = k] /\ k # "none"
        /\ writing[th] = "no" /\ UNCHANGED <<writing, row, returned>>
    BY <1>26 DEF Start
  <2>3. ASSUME NEW other \in Thread, other # th
        PROVE  /\ task'[other] = task[other] /\ pc'[other] = pc[other]
               /\ task[other] # NoTask => kind'[task[other]] = kind[task[other]]
    <3>1. task'[other] = task[other] /\ pc'[other] = pc[other]
      BY <2>2, <2>3
    <3>2. task[other] # t /\ task[other] \in Task \union {NoTask}
      BY <2>1
    <3> QED
      BY <2>2, <3>1, <3>2
  <2>4. task'[th] = t /\ pc'[th] = "create" /\ kind'[t] # "none"
    BY <2>2
  <2>5. \A u \in Task : kind'[u] = "none" => kind[u] = "none"
    BY <2>2
  <2>6. ASSUME NEW one \in Thread, NEW two \in Thread,
               task'[one] = task'[two], task'[one] # NoTask
        PROVE  one = two
    <3>1. one # th /\ two # th => task[one] = task[two] /\ task[one] # NoTask
      BY <2>3, <2>6
    <3>2. one # th /\ two # th => one = two
      BY <3>1
    <3>3. one = th /\ two # th => FALSE
      BY <2>1, <2>3, <2>4, <2>6
    <3>4. one # th /\ two = th => FALSE
      BY <2>1, <2>3, <2>4, <2>6
    <3> QED
      BY <3>2, <3>3, <3>4
  <2>7. ASSUME NEW u \in Task, kind'[u] = "none"
        PROVE  row'[u] = "absent" /\ returned'[u] = "no"
    BY <2>2, <2>5, <2>7
  <2> QED
    BY <2>1, <2>2, <2>3, <2>4, <2>6, <2>7
<1>27. CASE Crash
  <2>1. /\ pc' = [th \in Thread |-> "idle"] /\ task' = [th \in Thread |-> NoTask]
        /\ writing' = [th \in Thread |-> "no"] /\ UNCHANGED <<kind, row>>
        /\ returned' = [t \in Task |->
                          IF \E th \in Thread : task[th] = t THEN "lost"
                          ELSE returned[t]]
    BY <1>27 DEF Crash
  <2>2. ASSUME NEW t \in Task, kind[t] = "none"
        PROVE  returned'[t] = "no"
    BY <2>1, <2>2, ConstantsAssumption
  <2> QED
    BY <2>1, <2>2
<1>28. ASSUME NEW t \in Task, ReadRow(t) PROVE Owned'
  BY <1>28 DEF ReadRow
<1>29. CASE ReadEvents
  BY <1>29 DEF ReadEvents
<1>30. CASE UNCHANGED vars
  BY <1>30 DEF vars
<1> HIDE DEF Owned
<1> QED
  BY <1>1, <1>2, <1>3, <1>4, <1>5, <1>6, <1>7, <1>8, <1>9, <1>10, <1>11,
     <1>12, <1>13, <1>14, <1>15, <1>16, <1>17, <1>18, <1>19, <1>20,
     <1>21, <1>22, <1>23, <1>24, <1>25, <1>26, <1>27, <1>28, <1>29, <1>30
     DEF Next, Step, Trouble


LEMMA OutcomeStep ==
  ASSUME TypeOK, Owned, OutcomeKnown, [Next]_vars
  PROVE  OutcomeKnown'
<1> USE DEF TypeOK, Owned, OutcomeKnown, Kind, At, Goto, Kindof, Emit, Fault, thread,
           write, log, gateway, PC, Running
<1>1. ASSUME NEW th \in Thread, InsertEvent(th) PROVE OutcomeKnown'
  BY <1>1 DEF InsertEvent
<1>2. ASSUME NEW th \in Thread, InsertRefused(th) PROVE OutcomeKnown'
  BY <1>2 DEF InsertRefused
<1>3. ASSUME NEW th \in Thread, UpdateStatus(th) PROVE OutcomeKnown'
  BY <1>3 DEF UpdateStatus
<1>4. ASSUME NEW th \in Thread, WriteFails(th) PROVE OutcomeKnown'
  BY <1>4 DEF WriteFails
<1>5. ASSUME NEW th \in Thread, CreateTask(th) PROVE OutcomeKnown'
  BY <1>5, SMTT(30) DEF CreateTask
<1>6. ASSUME NEW th \in Thread, CreateFails(th) PROVE OutcomeKnown'
  BY <1>6 DEF CreateFails
<1>7. ASSUME NEW th \in Thread, Received(th) PROVE OutcomeKnown'
  BY <1>7 DEF Received
<1>8. ASSUME NEW th \in Thread, StartUsage(th) PROVE OutcomeKnown'
  BY <1>8 DEF StartUsage
<1>9. ASSUME NEW th \in Thread, Parsing(th) PROVE OutcomeKnown'
  BY <1>9 DEF Parsing
<1>10. ASSUME NEW th \in Thread, QwenAnswers(th) PROVE OutcomeKnown'
  BY <1>10 DEF QwenAnswers
<1>11. ASSUME NEW th \in Thread, Blocked(th) PROVE OutcomeKnown'
  BY <1>11 DEF Blocked
<1>12. ASSUME NEW th \in Thread, BeginCompose(th) PROVE OutcomeKnown'
  BY <1>12 DEF BeginCompose
<1>13. ASSUME NEW th \in Thread, RecordDebug(th) PROVE OutcomeKnown'
  BY <1>13 DEF RecordDebug
<1>14. ASSUME NEW th \in Thread, QwenReportFails(th) PROVE OutcomeKnown'
  BY <1>14 DEF QwenReportFails
<1>15. ASSUME NEW th \in Thread, GraphDone(th) PROVE OutcomeKnown'
  BY <1>15 DEF GraphDone
<1>16. ASSUME NEW th \in Thread, Diagnosing(th) PROVE OutcomeKnown'
  BY <1>16 DEF Diagnosing
<1>17. ASSUME NEW th \in Thread, Generating(th) PROVE OutcomeKnown'
  BY <1>17 DEF Generating
<1>18. ASSUME NEW th \in Thread, GraphFails(th) PROVE OutcomeKnown'
  BY <1>18 DEF GraphFails
<1>19. ASSUME NEW th \in Thread, FinishUsage(th) PROVE OutcomeKnown'
  BY <1>19 DEF FinishUsage
<1>20. ASSUME NEW th \in Thread, StoreUsage(th) PROVE OutcomeKnown'
  BY <1>20 DEF StoreUsage
<1>21. ASSUME NEW th \in Thread, StoreFails(th) PROVE OutcomeKnown'
  BY <1>21 DEF StoreFails
<1>22. ASSUME NEW th \in Thread, UsageStored(th) PROVE OutcomeKnown'
  BY <1>22 DEF UsageStored
<1>23. ASSUME NEW th \in Thread, RecordDebugEvent(th) PROVE OutcomeKnown'
  BY <1>23 DEF RecordDebugEvent
<1>24. ASSUME NEW th \in Thread, Close(th) PROVE OutcomeKnown'
  BY <1>24 DEF Close
<1>25. ASSUME NEW th \in Thread, Return(th) PROVE OutcomeKnown'
  BY <1>25 DEF Return
<1>26. ASSUME NEW th \in Thread, NEW t \in Task, NEW k \in Kind,
            Start(th, t, k)
     PROVE  OutcomeKnown'
  BY <1>26 DEF Start
<1>27. CASE Crash
  BY <1>27 DEF Crash
<1>28. ASSUME NEW t \in Task, ReadRow(t) PROVE OutcomeKnown'
  BY <1>28 DEF ReadRow
<1>29. CASE ReadEvents
  BY <1>29 DEF ReadEvents
<1>30. CASE UNCHANGED vars
  BY <1>30 DEF vars
<1> HIDE DEF OutcomeKnown
<1> QED
  BY <1>1, <1>2, <1>3, <1>4, <1>5, <1>6, <1>7, <1>8, <1>9, <1>10, <1>11,
     <1>12, <1>13, <1>14, <1>15, <1>16, <1>17, <1>18, <1>19, <1>20,
     <1>21, <1>22, <1>23, <1>24, <1>25, <1>26, <1>27, <1>28, <1>29, <1>30
     DEF Next, Step, Trouble

(* Three steps change what is on record. *)
LEMMA RecordSteps ==
  ASSUME [Next]_vars
  PROVE  \/ \E th \in Thread : InsertEvent(th)
         \/ \E th \in Thread : UpdateStatus(th)
         \/ \E th \in Thread : CreateTask(th)
         \/ UNCHANGED <<row, events>>
<1>1. ASSUME NEW th \in Thread, Step(th) \/ Trouble(th), ~InsertEvent(th),
             ~UpdateStatus(th), ~CreateTask(th)
      PROVE  UNCHANGED <<row, events>>
  BY <1>1 DEF Step, Trouble, log, InsertRefused, WriteFails, CreateFails,
     Received, StartUsage, Parsing, QwenAnswers, Blocked, BeginCompose,
     RecordDebug, QwenReportFails, GraphDone, Diagnosing, Generating,
     GraphFails, FinishUsage, StoreUsage, StoreFails, UsageStored,
     RecordDebugEvent, Close, Return
<1>2. ASSUME \/ \E th \in Thread, t \in Task, k \in Kind : Start(th, t, k)
             \/ Crash
             \/ \E t \in Task : ReadRow(t)
             \/ ReadEvents
             \/ UNCHANGED vars
      PROVE  UNCHANGED <<row, events>>
  BY <1>2 DEF Start, Crash, ReadRow, ReadEvents, vars, log
<1> QED
  BY <1>1, <1>2 DEF Next

LEMMA UpdateFollows ==
  ASSUME TypeOK, Owned, InOrder, NEW th \in Thread, UpdateStatus(th)
  PROVE  /\ task[th] \in Task /\ events' = events
         /\ row' = [row EXCEPT ![task[th]] = event[th]]
         /\ events[task[th]] # <<>>
         /\ Lifecycle!Newest(events[task[th]]) = event[th]
<1>1. /\ task[th] \in Task /\ task[th] # NoTask /\ writing[th] = "update"
      /\ row' = [row EXCEPT ![task[th]] = event[th]] /\ events' = events
  BY ConstantsAssumption DEF UpdateStatus, Owned, TypeOK
<1> QED
  BY <1>1 DEF InOrder, Ordered, Newest

LEMMA BackedStep ==
  ASSUME TypeOK, Owned, InOrder, Backed, [Next]_vars
  PROVE  Backed'
<1>1. ASSUME NEW th \in Thread, InsertEvent(th) PROVE Backed'
  <2>1. row' = row /\ row[task[th]] # "absent"
    BY <1>1 DEF InsertEvent
  <2> QED
    BY <1>1, <2>1, InsertAppends DEF Backed, Logged
<1>2. ASSUME NEW th \in Thread, UpdateStatus(th) PROVE Backed'
  <2>1. /\ events' = events /\ event[th] \in Range(events[task[th]])
        /\ event[th] # "absent"
    <3>1. events[task[th]] \in Seq(Status) /\ event[th] \in Status
      BY <1>2, UpdateFollows DEF TypeOK
    <3>2. "absent" \notin Status
      BY DEF Status, Lifecycle!Status, Lifecycle!Rank
    <3> QED
      BY <1>2, <3>1, <3>2, UpdateFollows, NewestInRange
  <2>2. /\ row'[task[th]] = event[th]
        /\ \A t \in Task \ {task[th]} : row'[t] = row[t]
    BY <1>2, UpdateFollows DEF TypeOK
  <2> QED
    BY <2>1, <2>2 DEF Backed, Logged
<1>3. ASSUME NEW th \in Thread, CreateTask(th) PROVE Backed'
  BY <1>3 DEF CreateTask, TypeOK, Backed, Logged
<1>4. ASSUME UNCHANGED <<row, events>> PROVE Backed'
  BY <1>4 DEF Backed, Logged
<1> QED
  BY <1>1, <1>2, <1>3, <1>4, RecordSteps

LEMMA ExplainedStep ==
  ASSUME TypeOK, Owned, Backed, StatusIsExplained, [Next]_vars
  PROVE  StatusIsExplained'
<1>1. ASSUME NEW t \in Task PROVE Logged(t) \subseteq Logged(t)'
  <2>1. ASSUME NEW th \in Thread, InsertEvent(th)
        PROVE  Logged(t) \subseteq Logged(t)'
    BY <2>1, InsertAppends DEF Logged
  <2>2. ASSUME NEW th \in Thread, UpdateStatus(th) \/ CreateTask(th)
        PROVE  events' = events
    BY <2>2 DEF UpdateStatus, CreateTask
  <2> QED
    BY <2>1, <2>2, RecordSteps DEF Logged
<1>2. CASE read' = read
  BY <1>1, <1>2 DEF StatusIsExplained, TypeOK, Logged
<1>3. ASSUME NEW t \in Task, ReadRow(t) PROVE StatusIsExplained'
  BY <1>3 DEF ReadRow, log, StatusIsExplained, Backed, Logged
<1>4. CASE ReadEvents
  BY <1>4 DEF ReadEvents, NoAnswer, StatusIsExplained
<1>5. \/ read' = read
      \/ \E t \in Task : ReadRow(t)
      \/ ReadEvents
  <2>1. ASSUME NEW th \in Thread, Step(th) \/ Trouble(th) PROVE read' = read
    BY <2>1 DEF Step, Trouble, InsertEvent, InsertRefused, UpdateStatus,
       WriteFails, CreateTask, CreateFails, Received, StartUsage, Parsing,
       QwenAnswers, Blocked, BeginCompose, RecordDebug, QwenReportFails,
       GraphDone, Diagnosing, Generating, GraphFails, FinishUsage,
       StoreUsage, StoreFails, UsageStored, RecordDebugEvent, Close, Return
  <2> QED
    BY <2>1 DEF Next, Start, Crash, vars
<1> QED
  BY <1>2, <1>3, <1>4, <1>5

LEMMA LifecycleStep ==
  ASSUME TypeOK, Owned, InOrder, [Next]_vars
  PROVE  [Lifecycle!Next]_<<row, events>>
<1>1. ASSUME NEW th \in Thread, InsertEvent(th) PROVE Lifecycle!Next
  <2>1. /\ task[th] \in Task /\ task[th] # NoTask /\ event[th] \in Status
        /\ row[task[th]] # "absent" /\ writing[th] = "insert"
        /\ events' = [events EXCEPT ![task[th]] = Append(@, event[th])]
        /\ row' = row
    BY <1>1, InsertAppends, ConstantsAssumption DEF InsertEvent
  <2>2. Lifecycle!Follows(event[th], events[task[th]])
    BY <2>1 DEF InOrder, Ordered, Below, Rank, Newest, Lifecycle!Follows
  <2>3. Lifecycle!Log(task[th], event[th])
    BY <2>1, <2>2 DEF Lifecycle!Log
  <2> QED
    BY <2>1, <2>3 DEF Lifecycle!Next, Status
<1>2. ASSUME NEW th \in Thread, UpdateStatus(th) PROVE Lifecycle!Next
  BY <1>2, UpdateFollows DEF Lifecycle!Next, Lifecycle!Sync
<1>3. ASSUME NEW th \in Thread, CreateTask(th) PROVE Lifecycle!Next
  <2>1. /\ task[th] \in Task /\ row[task[th]] = "absent"
        /\ row' = [row EXCEPT ![task[th]] = "received"] /\ events' = events
    BY <1>3 DEF CreateTask, At, Owned, TypeOK
  <2> QED
    BY <2>1 DEF Lifecycle!Next, Lifecycle!Create
<1> QED
  BY <1>1, <1>2, <1>3, RecordSteps

-----------------------------------------------------------------------------
(* What the steps of a thread have in common. *)

LEMMA RankValues ==
  /\ Rank("received") = 1 /\ Rank("parsing_sql") = 2 /\ Rank("diagnosing") = 3
  /\ Rank("generating_report") = 4 /\ Rank("retrieving_cases") = 5
  /\ Rank("completed") = 6 /\ Rank("failed") = 6
  /\ \A s \in Status : Rank(s) \in 1 .. 6
BY DEF Rank, Status, Lifecycle!Rank, Lifecycle!Status

(* A step of a thread leaves the other threads and tasks alone. *)
Only(th) ==
  /\ \A other \in Thread \ {th} :
       /\ pc'[other] = pc[other] /\ task'[other] = task[other]
       /\ outcome'[other] = outcome[other]
       /\ writing'[other] = writing[other] /\ event'[other] = event[other]
       /\ slot'[other] = slot[other] /\ usages'[other] = usages[other]
  /\ \A t \in Task \ {task[th]} :
       /\ events'[t] = events[t] /\ row'[t] = row[t]
       /\ calls'[t] = calls[t] /\ returned'[t] = returned[t]
  /\ kind' = kind

LEMMA StepIsLocal ==
  ASSUME TypeOK, NEW th \in Thread, Step(th) \/ Trouble(th)
  PROVE  Only(th)
<1> USE DEF TypeOK, Only, At, Goto, Emit, thread, write, log, gateway, UsageSlot
<1>1. CASE InsertEvent(th)
  BY <1>1 DEF InsertEvent
<1>2. CASE InsertRefused(th)
  BY <1>2 DEF InsertRefused
<1>3. CASE UpdateStatus(th)
  BY <1>3 DEF UpdateStatus
<1>4. CASE WriteFails(th)
  BY <1>4 DEF WriteFails
<1>5. CASE CreateTask(th)
  BY <1>5 DEF CreateTask
<1>6. CASE CreateFails(th)
  BY <1>6 DEF CreateFails
<1>7. CASE Received(th)
  BY <1>7 DEF Received
<1>8. CASE StartUsage(th)
  BY <1>8 DEF StartUsage
<1>9. CASE Parsing(th)
  BY <1>9 DEF Parsing
<1>10. CASE QwenAnswers(th)
  BY <1>10 DEF QwenAnswers
<1>11. CASE Blocked(th)
  BY <1>11 DEF Blocked
<1>12. CASE BeginCompose(th)
  BY <1>12 DEF BeginCompose
<1>13. CASE RecordDebug(th)
  BY <1>13 DEF RecordDebug
<1>14. CASE QwenReportFails(th)
  BY <1>14 DEF QwenReportFails
<1>15. CASE GraphDone(th)
  BY <1>15 DEF GraphDone
<1>16. CASE Diagnosing(th)
  BY <1>16 DEF Diagnosing
<1>17. CASE Generating(th)
  BY <1>17 DEF Generating
<1>18. CASE GraphFails(th)
  BY <1>18 DEF GraphFails
<1>19. CASE FinishUsage(th)
  BY <1>19 DEF FinishUsage
<1>20. CASE StoreUsage(th)
  BY <1>20 DEF StoreUsage
<1>21. CASE StoreFails(th)
  BY <1>21 DEF StoreFails
<1>22. CASE UsageStored(th)
  BY <1>22 DEF UsageStored
<1>23. CASE RecordDebugEvent(th)
  BY <1>23 DEF RecordDebugEvent
<1>24. CASE Close(th)
  BY <1>24 DEF Close
<1>25. CASE Return(th)
  BY <1>25 DEF Return
<1> QED
  BY <1>1, <1>2, <1>3, <1>4, <1>5, <1>6, <1>7, <1>8, <1>9, <1>10,
     <1>11, <1>12, <1>13, <1>14, <1>15, <1>16, <1>17, <1>18, <1>19,
     <1>20, <1>21, <1>22, <1>23, <1>24, <1>25
     DEF Step, Trouble

LEMMA Busy ==
  ASSUME TypeOK, Owned, NEW th \in Thread, Step(th) \/ Trouble(th)
  PROVE  task[th] \in Task /\ task[th] # NoTask /\ returned[task[th]] = "no"
<1>1. pc[th] # "idle"
  BY DEF Owned, Running, At, Step, Trouble, InsertEvent, InsertRefused,
     UpdateStatus, WriteFails, CreateTask, CreateFails, Received, StartUsage,
     Parsing, QwenAnswers, Blocked, BeginCompose, RecordDebug,
     QwenReportFails, GraphDone, Diagnosing, Generating, GraphFails,
     FinishUsage, StoreUsage, StoreFails, UsageStored, RecordDebugEvent,
     Close, Return
<1> QED
  BY <1>1 DEF TypeOK, Owned

(* The outcome is decided once. *)
Steady(th) ==
  /\ UNCHANGED <<events, returned>> /\ task'[th] = task[th]
  /\ outcome[th] = "none" \/ outcome'[th] = outcome[th]

(* A step that has nothing to do with append_event, ... *)
Quiet(th) ==
  /\ Steady(th) /\ writing[th] = "no" /\ writing'[th] = "no"
  /\ Floor(th) <= Floor(th)'

(* ... one that calls it, and ... *)
Calls(th, s) ==
  /\ Steady(th) /\ writing[th] = "no" /\ writing'[th] = "insert"
  /\ event'[th] = s
  /\ Floor(th) <= Rank(s) /\ Rank(s) < Floor(th)'
  /\ s = "completed" => outcome'[th] = "done"
  /\ s = "failed" => outcome'[th] \in {"blocked", "error"}
  /\ kind[task[th]] = "record" => s = "received"

(* ... one that ends it without an INSERT. *)
Ends(th) ==
  /\ writing[th] # "no" /\ writing'[th] = "no"
  /\ UNCHANGED <<events, returned, thread>>

LEMMA StepKinds ==
  ASSUME TypeOK, Owned, OutcomeKnown, NEW th \in Thread,
         Step(th) \/ Trouble(th)
  PROVE  \/ InsertEvent(th) \/ Return(th) \/ Ends(th) \/ Quiet(th)
         \/ \E s \in Status : Calls(th, s)
<1>1. /\ task[th] \in Task
      /\ {"received", "parsing_sql", "diagnosing", "generating_report",
          "retrieving_cases", "completed", "failed"} \subseteq Status
  BY Busy DEF Status, Lifecycle!Status, Lifecycle!Rank
<1> USE DEF At, Goto, Kindof, Fault, thread, write, log, gateway, Running
<1>2. CASE InsertRefused(th)
  BY <1>2 DEF InsertRefused, Ends, TypeOK
<1>3. CASE UpdateStatus(th)
  BY <1>3 DEF UpdateStatus, Ends, TypeOK
<1>4. CASE WriteFails(th)
  BY <1>4 DEF WriteFails, Ends, TypeOK
<1>5. CASE CreateTask(th)
  BY <1>5 DEF CreateTask, Quiet, Steady, Floor, OutcomeKnown, TypeOK
<1>6. CASE CreateFails(th)
  BY <1>6 DEF CreateFails, Quiet, Steady, Floor, OutcomeKnown, TypeOK
<1>7. CASE StartUsage(th)
  BY <1>7 DEF StartUsage, Quiet, Steady, Floor, OutcomeKnown, TypeOK
<1>8. CASE QwenAnswers(th)
  BY <1>8 DEF QwenAnswers, Quiet, Steady, Floor, OutcomeKnown, TypeOK
<1>9. CASE BeginCompose(th)
  BY <1>9 DEF BeginCompose, Quiet, Steady, Floor, OutcomeKnown, TypeOK
<1>10. CASE RecordDebug(th)
  BY <1>10 DEF RecordDebug, Quiet, Steady, Floor, OutcomeKnown, TypeOK
<1>11. CASE QwenReportFails(th)
  BY <1>11 DEF QwenReportFails, Quiet, Steady, Floor, OutcomeKnown, TypeOK
<1>12. CASE FinishUsage(th)
  BY <1>12 DEF FinishUsage, Quiet, Steady, Floor, OutcomeKnown, TypeOK
<1>13. CASE StoreUsage(th)
  BY <1>13 DEF StoreUsage, Quiet, Steady, Floor, OutcomeKnown, TypeOK
<1>14. CASE StoreFails(th)
  BY <1>14 DEF StoreFails, Quiet, Steady, Floor, OutcomeKnown, TypeOK
<1>15. CASE Blocked(th)
  <2>1. pc[th] = "graph" /\ outcome[th] = "none"
    BY <1>15 DEF Blocked, OutcomeKnown, Owned
  <2>2. /\ pc'[th] = "usage" /\ outcome'[th] = "blocked"
        /\ UNCHANGED <<events, returned, task, writing>> /\ writing[th] = "no"
    BY <1>15 DEF Blocked, TypeOK
  <2> QED
    BY <2>1, <2>2 DEF Quiet, Steady, Floor
<1>16. CASE GraphDone(th)
  <2>1. pc[th] \in Running /\ outcome[th] = "none"
    BY <1>16 DEF GraphDone, OutcomeKnown, Owned
  <2>2. /\ pc'[th] \in {"diagnosing", "generating"} /\ outcome'[th] = "done"
        /\ UNCHANGED <<events, returned, task, writing>> /\ writing[th] = "no"
    BY <1>16 DEF GraphDone, TypeOK
  <2> QED
    BY <2>1, <2>2 DEF Quiet, Steady, Floor
<1>17. CASE UsageStored(th)
  <2>1. pc[th] = "store"
    BY <1>17 DEF UsageStored, OutcomeKnown, Owned
  <2>2. /\ \/ pc'[th] = "return"
           \/ pc'[th] \in {"debug", "close"} /\ outcome[th] # "error"
        /\ outcome'[th] = outcome[th]
        /\ UNCHANGED <<events, returned, task, writing>> /\ writing[th] = "no"
    BY <1>17 DEF UsageStored, TypeOK
  <2> QED
    BY <2>1, <2>2 DEF Quiet, Steady, Floor
<1>18. CASE Received(th)
  <2>1. pc[th] = "received" /\ outcome[th] = "none"
    BY <1>18 DEF Received, OutcomeKnown, Owned
  <2>2. /\ pc'[th] \in {"start", "return"} /\ outcome'[th] = outcome[th]
        /\ writing'[th] = "insert" /\ event'[th] = "received"
        /\ UNCHANGED <<events, returned, task>> /\ writing[th] = "no"
    BY <1>18 DEF Received, Emit, TypeOK
  <2>3. Calls(th, "received")
    BY <2>1, <2>2, RankValues DEF Calls, Steady, Floor
  <2> QED
    BY <1>1, <2>3
<1>19. CASE Parsing(th)
  <2>1. pc[th] = "parsing" /\ outcome[th] = "none" /\ kind[task[th]] # "record"
    BY <1>19 DEF Parsing, OutcomeKnown, Owned
  <2>2. /\ pc'[th] = "graph" /\ outcome'[th] = outcome[th]
        /\ writing'[th] = "insert" /\ event'[th] = "parsing_sql"
        /\ UNCHANGED <<events, returned, task>> /\ writing[th] = "no"
    BY <1>19 DEF Parsing, Emit, TypeOK
  <2>3. Calls(th, "parsing_sql")
    BY <2>1, <2>2, RankValues DEF Calls, Steady, Floor
  <2> QED
    BY <1>1, <2>3
<1>20. CASE Diagnosing(th)
  <2>1. pc[th] = "diagnosing" /\ outcome[th] # "error" /\ kind[task[th]] # "record"
    BY <1>20 DEF Diagnosing, OutcomeKnown, Owned
  <2>2. /\ pc'[th] = "generating" /\ outcome'[th] = outcome[th]
        /\ writing'[th] = "insert" /\ event'[th] = "diagnosing"
        /\ UNCHANGED <<events, returned, task>> /\ writing[th] = "no"
    BY <1>20 DEF Diagnosing, Emit, TypeOK
  <2>3. Calls(th, "diagnosing")
    BY <2>1, <2>2, RankValues DEF Calls, Steady, Floor
  <2> QED
    BY <1>1, <2>3
<1>21. CASE Generating(th)
  <2>1. pc[th] = "generating" /\ outcome[th] # "error" /\ kind[task[th]] # "record"
    BY <1>21 DEF Generating, OutcomeKnown, Owned
  <2>2. /\ pc'[th] = "usage" /\ outcome'[th] = outcome[th]
        /\ writing'[th] = "insert" /\ event'[th] = "generating_report"
        /\ UNCHANGED <<events, returned, task>> /\ writing[th] = "no"
    BY <1>21 DEF Generating, Emit, TypeOK
  <2>3. Calls(th, "generating_report")
    BY <2>1, <2>2, RankValues DEF Calls, Steady, Floor
  <2> QED
    BY <1>1, <2>3
<1>22. CASE GraphFails(th)
  <2>1. pc[th] \in Running /\ outcome[th] = "none" /\ kind[task[th]] # "record"
    BY <1>22 DEF GraphFails, OutcomeKnown, Owned
  <2>2. /\ pc'[th] = "usage" /\ outcome'[th] = "error"
        /\ writing'[th] = "insert" /\ event'[th] = "failed"
        /\ UNCHANGED <<events, returned, task>> /\ writing[th] = "no"
    BY <1>22 DEF GraphFails, Emit, TypeOK
  <2>3. Calls(th, "failed")
    BY <2>1, <2>2, RankValues DEF Calls, Steady, Floor
  <2> QED
    BY <1>1, <2>3
<1>23. CASE RecordDebugEvent(th)
  <2>1. pc[th] = "debug" /\ outcome[th] # "error" /\ kind[task[th]] # "record"
    BY <1>23 DEF RecordDebugEvent, OutcomeKnown, Owned
  <2>2. /\ pc'[th] = "close" /\ outcome'[th] = outcome[th]
        /\ \/ writing'[th] = "no"
           \/ writing'[th] = "insert" /\ event'[th] = "retrieving_cases"
        /\ UNCHANGED <<events, returned, task>> /\ writing[th] = "no"
    BY <1>23 DEF RecordDebugEvent, Emit, TypeOK
  <2>3. CASE writing'[th] = "no"
    BY <2>1, <2>2, <2>3 DEF Quiet, Steady, Floor
  <2>4. CASE writing'[th] = "insert" /\ event'[th] = "retrieving_cases"
    <3>1. Calls(th, "retrieving_cases")
      BY <2>1, <2>2, <2>4, RankValues DEF Calls, Steady, Floor
    <3> QED
      BY <1>1, <3>1
  <2> QED
    BY <2>2, <2>3, <2>4
<1>24. CASE Close(th)
  <2> DEFINE s == IF outcome[th] = "done" THEN "completed" ELSE "failed"
  <2>1. /\ pc[th] = "close" /\ outcome[th] \in {"done", "blocked"}
        /\ kind[task[th]] # "record"
    BY <1>24 DEF Close, OutcomeKnown, Owned, TypeOK
  <2>2. /\ pc'[th] = "return" /\ outcome'[th] = outcome[th]
        /\ writing'[th] = "insert" /\ event'[th] = s
        /\ UNCHANGED <<events, returned, task>> /\ writing[th] = "no"
    BY <1>24 DEF Close, Emit, TypeOK
  <2>3. Calls(th, s)
    BY <2>1, <2>2, RankValues DEF Calls, Steady, Floor
  <2> QED
    BY <1>1, <2>3
<1> QED
  BY <1>2, <1>3, <1>4, <1>5, <1>6, <1>7, <1>8, <1>9, <1>10, <1>11,
     <1>12, <1>13, <1>14, <1>15, <1>16, <1>17, <1>18, <1>19, <1>20,
     <1>21, <1>22, <1>23, <1>24
     DEF Step, Trouble

-----------------------------------------------------------------------------
(* InOrder is inductive. *)

LEMMA OrderFrame ==
  ASSUME TypeOK, Owned, InOrder, NEW th \in Thread, Only(th),
         task'[th] # NoTask => Ordered(th)'
  PROVE  InOrder'
<1> SUFFICES ASSUME NEW other \in Thread, other # th, task'[other] # NoTask
             PROVE  Ordered(other)'
  BY DEF InOrder
<1>1. /\ task[other] \in Task \ {task[th]}
      /\ events'[task[other]] = events[task[other]]
      /\ pc'[other] = pc[other] /\ task'[other] = task[other]
      /\ outcome'[other] = outcome[other]
      /\ writing'[other] = writing[other] /\ event'[other] = event[other]
  BY DEF Only, Owned, TypeOK
<1>2. Floor(other)' = Floor(other)
  BY <1>1 DEF Floor
<1>3. Newest(task[other])' = Newest(task[other])
  BY <1>1 DEF Newest, Lifecycle!Newest
<1>4. Ordered(other)
  BY <1>1 DEF InOrder
<1> QED
  BY <1>1, <1>2, <1>3, <1>4 DEF Ordered, Below, Newest, Rank

(* A bound on the newest event can be raised. *)
LEMMA BelowUp ==
  ASSUME TypeOK, NEW t \in Task, NEW a \in Int, NEW b \in Int, a <= b,
         Below(t, a)
  PROVE  Below(t, b)
<1>1. events[t] # <<>> => Rank(Newest(t)) \in Int
  BY NewestInRange, RankValues DEF TypeOK, Newest
<1> QED
  BY <1>1 DEF Below

LEMMA BelowSame ==
  ASSUME NEW t, NEW a, events'[t] = events[t], Below(t, a)
  PROVE  Below(t, a)'
BY DEF Below, Newest, Rank, Lifecycle!Newest

LEMMA FloorInt ==
  ASSUME NEW th \in Thread
  PROVE  Floor(th) \in Int /\ Floor(th)' \in Int
BY DEF Floor

LEMMA OrderStep ==
  ASSUME TypeOK, Owned, Backed, OutcomeKnown, InOrder, [Next]_vars
  PROVE  InOrder'
<1>1. ASSUME NEW th \in Thread, Step(th) \/ Trouble(th) PROVE InOrder'
  <2>1. task[th] \in Task /\ Ordered(th) /\ Only(th)
    BY <1>1, Busy, StepIsLocal DEF InOrder
  <2>2. Rank(event[th]) \in Int /\ \A s \in Status : Rank(s) \in Int
    BY RankValues DEF TypeOK
  <2>3. ASSUME InsertEvent(th) PROVE Ordered(th)'
    <3>1. /\ writing[th] = "insert" /\ writing'[th] = "update"
          /\ UNCHANGED <<event, pc, task, outcome>>
      BY <2>3 DEF InsertEvent, thread, TypeOK
    <3>2. Floor(th)' = Floor(th)
      BY <3>1 DEF Floor
    <3> QED
      BY <2>1, <2>3, <3>1, <3>2, InsertAppends DEF Ordered, Newest, Rank
  <2>4. ASSUME Ends(th) PROVE Ordered(th)'
    <3>1. Rank(event[th]) < Floor(th)
      BY <2>1, <2>4 DEF Ends, Ordered
    <3>2. Below(task[th], Floor(th))
      <4>1. CASE writing[th] = "insert"
        BY <2>1, <2>2, <3>1, <4>1, BelowUp, FloorInt DEF Ordered
      <4>2. CASE writing[th] = "update"
        BY <2>1, <3>1, <4>2 DEF Ordered, Below
      <4> QED
        BY <2>4, <4>1, <4>2 DEF Ends, TypeOK
    <3>3. Floor(th)' = Floor(th) /\ task' = task /\ events' = events
      BY <2>4 DEF Ends, thread, Floor
    <3> QED
      BY <2>4, <3>2, <3>3, BelowSame DEF Ends, Ordered
  <2>5. ASSUME Quiet(th) PROVE Ordered(th)'
    <3>1. Below(task[th], Floor(th)')
      BY <2>1, <2>5, BelowUp, FloorInt DEF Quiet, Ordered
    <3> QED
      BY <2>5, <3>1 DEF Quiet, Steady, Ordered, Below, Newest, Rank
  <2>6. ASSUME NEW s \in Status, Calls(th, s) PROVE Ordered(th)'
    <3>1. Below(task[th], Rank(s))
      BY <2>1, <2>2, <2>6, BelowUp, FloorInt DEF Calls, Ordered
    <3> QED
      BY <2>6, <3>1 DEF Calls, Steady, Ordered, Below, Newest, Rank
  <2>7. ASSUME Return(th) PROVE task'[th] = NoTask
    BY <2>7 DEF Return, TypeOK
  <2> QED
    BY <1>1, <2>1, <2>3, <2>4, <2>5, <2>6, <2>7, StepKinds, OrderFrame
<1>2. ASSUME UNCHANGED <<events, pc, task, outcome, writing, event>>
      PROVE  InOrder'
  <2> SUFFICES ASSUME NEW th \in Thread, task[th] # NoTask PROVE Ordered(th)'
    BY <1>2 DEF InOrder
  <2>1. Floor(th)' = Floor(th) /\ Newest(task[th])' = Newest(task[th])
    BY <1>2 DEF Floor, Newest, Lifecycle!Newest
  <2> QED
    BY <1>2, <2>1 DEF InOrder, Ordered, Below, Newest, Rank
<1>3. ASSUME NEW th \in Thread, NEW t \in Task, NEW k \in Kind, Start(th, t, k)
      PROVE  InOrder'
  <2>1. /\ UNCHANGED <<events, outcome, write>>
        /\ task'[th] = t /\ writing[th] = "no" /\ events[t] = <<>>
        /\ \A other \in Thread \ {th} :
             task'[other] = task[other] /\ pc'[other] = pc[other]
    BY <1>3 DEF Start, At, Goto, log, Backed, Owned, TypeOK
  <2>2. Ordered(th)'
    BY <2>1 DEF Ordered, Below, write
  <2>3. ASSUME NEW other \in Thread \ {th}, task'[other] # NoTask
        PROVE  Ordered(other)'
    <3>1. /\ task'[other] = task[other] /\ pc'[other] = pc[other]
          /\ UNCHANGED <<events, outcome, writing, event>>
      BY <2>1 DEF write
    <3>2. /\ Floor(other)' = Floor(other)
          /\ Newest(task[other])' = Newest(task[other])
      BY <3>1 DEF Floor, Newest, Lifecycle!Newest
    <3>3. Ordered(other)
      BY <2>3, <3>1 DEF InOrder
    <3> QED
      BY <3>1, <3>2, <3>3 DEF Ordered, Below, Newest, Rank
  <2> QED
    BY <2>2, <2>3 DEF InOrder
<1>4. CASE Crash
  BY <1>4 DEF Crash, InOrder
<1>5. ASSUME NEW t \in Task, ReadRow(t) PROVE InOrder'
  BY <1>2, <1>5 DEF ReadRow, log, thread, write
<1>6. CASE ReadEvents
  BY <1>2, <1>6 DEF ReadEvents, log, thread, write
<1>7. CASE UNCHANGED vars
  BY <1>2, <1>7 DEF vars
<1> QED
  BY <1>1, <1>3, <1>4, <1>5, <1>6, <1>7 DEF Next

-----------------------------------------------------------------------------
(* Agreed is inductive. *)

LEMMA AgreedFrame ==
  ASSUME TypeOK, Owned, Agreed, NEW th \in Thread, Only(th),
         NEW t \in Task, t = task[th], Settled(t)',
         task'[th] # NoTask => Agreeing(th)'
  PROVE  Agreed'
<1>1. ASSUME NEW other \in Thread, other # th, task'[other] # NoTask
      PROVE  Agreeing(other)'
  <2>1. /\ task[other] \in Task \ {task[th]} /\ kind' = kind
        /\ events'[task[other]] = events[task[other]]
        /\ task'[other] = task[other] /\ outcome'[other] = outcome[other]
        /\ writing'[other] = writing[other] /\ event'[other] = event[other]
    BY <1>1, SMTT(30) DEF Only, Owned, TypeOK
  <2>2. Agreeing(other)
    BY <1>1, <2>1 DEF Agreed
  <2> QED
    BY <2>1, <2>2 DEF Agreeing, Told, Logged
<1>2. ASSUME NEW u \in Task, u # t PROVE Settled(u)'
  <2>1. events'[u] = events[u] /\ returned'[u] = returned[u] /\ Settled(u)
    BY <1>2 DEF Only, Agreed
  <2> QED
    BY <2>1 DEF Settled, Logged
<1> QED
  BY <1>1, <1>2 DEF Agreed

(* A step that tells nothing new and does not revise the outcome, ... *)
LEMMA AgreeingKept ==
  ASSUME NEW th \in Thread, Agreeing(th), Told(th)' \subseteq Told(th),
         outcome[th] = "none" \/ outcome'[th] = outcome[th],
         task'[th] = task[th], kind' = kind
  PROVE  Agreeing(th)'
BY DEF Agreeing

LEMMA AgreedStep ==
  ASSUME TypeOK, Owned, Backed, OutcomeKnown, Agreed, [Next]_vars
  PROVE  Agreed'
<1>1. ASSUME NEW th \in Thread, Step(th) \/ Trouble(th) PROVE Agreed'
  <2>1. /\ task[th] \in Task /\ Agreeing(th) /\ returned[task[th]] = "no"
        /\ Only(th) /\ kind' = kind
    BY <1>1, Busy, StepIsLocal DEF Agreed, Only
  <2>2. ASSUME Agreeing(th)', UNCHANGED returned PROVE Agreed'
    <3>1. \A t \in Task : t = task[th] => Settled(t)'
      BY <2>1, <2>2 DEF Settled
    <3> QED
      BY <2>1, <2>2, <3>1, AgreedFrame
  <2>3. CASE InsertEvent(th)
    <3>1. /\ writing[th] = "insert" /\ writing'[th] = "update"
          /\ UNCHANGED <<task, outcome, event, returned>>
      BY <2>3 DEF InsertEvent, thread, TypeOK
    <3>2. Told(th)' = Told(th)
      BY <2>3, <3>1, InsertAppends DEF Told, Logged
    <3> QED
      BY <2>1, <2>2, <3>1, <3>2, AgreeingKept
  <2>4. CASE Ends(th)
    <3>1. Told(th)' \subseteq Told(th)
      BY <2>4 DEF Ends, thread, Told, Logged
    <3> QED
      BY <2>1, <2>2, <2>4, <3>1, AgreeingKept DEF Ends, thread
  <2>5. CASE Quiet(th)
    <3>1. Told(th)' = Told(th)
      BY <2>5 DEF Quiet, Steady, Told, Logged
    <3> QED
      BY <2>1, <2>2, <2>5, <3>1, AgreeingKept DEF Quiet, Steady
  <2>6. ASSUME NEW s \in Status, Calls(th, s) PROVE Agreed'
    <3>1. Told(th)' = Told(th) \union {s}
      BY <2>6 DEF Calls, Steady, Told, Logged
    <3>2. Agreeing(th)'
      BY <2>1, <2>6, <3>1 DEF Calls, Steady, Agreeing
    <3> QED
      BY <2>2, <2>6, <3>2 DEF Calls, Steady
  <2>7. CASE Return(th)
    <3> DEFINE t == task[th]
    <3>1. /\ events' = events /\ writing[th] = "no" /\ pc[th] = "return"
          /\ \/ kind[t] = "record" /\ returned'[t] = "id"
             \/ outcome[th] = "done" /\ returned'[t] = "completed"
             \/ outcome[th] # "done" /\ returned'[t] = "failed"
      <4>1. /\ events' = events /\ writing[th] = "no" /\ pc[th] = "return"
            /\ returned' = [returned EXCEPT ![t] =
                              CASE kind[t] = "record"     -> "id"
                                [] outcome[th] = "done" -> "completed"
                                [] OTHER                -> "failed"]
        BY <2>7 DEF Return, At, Kindof, log, TypeOK
      <4>2. returned'[t] = CASE kind[t] = "record"     -> "id"
                             [] outcome[th] = "done" -> "completed"
                             [] OTHER                -> "failed"
        BY <2>1, <4>1 DEF TypeOK
      <4> QED
        BY <4>1, <4>2
    <3>2. Told(th) = Range(events[t])
      BY <3>1 DEF Told, Logged
    <3>3. \A u \in Task : u = t => Settled(u)'
      BY <2>1, <3>1, <3>2 DEF Agreeing, Settled, Logged
    <3>4. task'[th] = NoTask
      BY <2>7 DEF Return, At, Kindof, log, TypeOK
    <3> QED
      BY <2>1, <3>3, <3>4, AgreedFrame
  <2> QED
    BY <1>1, <2>3, <2>4, <2>5, <2>6, <2>7, StepKinds
<1>2. ASSUME UNCHANGED <<events, task, outcome, writing, event, kind, returned>>
      PROVE  Agreed'
  <2>1. \A t \in Task : Settled(t)'
    BY <1>2 DEF Agreed, Settled, Logged
  <2>2. ASSUME NEW th \in Thread, task'[th] # NoTask PROVE Agreeing(th)'
    <3>1. Agreeing(th)
      BY <1>2, <2>2 DEF Agreed
    <3> QED
      BY <1>2, <3>1 DEF Agreeing, Told, Logged
  <2> QED
    BY <2>1, <2>2 DEF Agreed
<1>3. ASSUME NEW th \in Thread, NEW t \in Task, NEW k \in Kind, Start(th, t, k)
      PROVE  Agreed'
  <2>1. /\ UNCHANGED <<events, outcome, writing, event, returned>>
        /\ task' = [task EXCEPT ![th] = t] /\ kind' = [kind EXCEPT ![t] = k]
        /\ writing[th] = "no" /\ pc[th] = "idle" /\ kind[t] = "none"
        /\ events[t] = <<>>
    BY <1>3 DEF Start, At, Goto, log, write, Backed, Owned, TypeOK
  <2>2. \A u \in Task : Settled(u)'
    BY <2>1 DEF Agreed, Settled, Logged
  <2>3. Agreeing(th)'
    <3>1. task'[th] = t /\ events'[t] = <<>> /\ writing'[th] = "no"
      BY <2>1 DEF TypeOK
    <3>2. Range(<<>>) = {}
      BY DEF Range
    <3>3. Told(th)' = {}
      BY <3>1, <3>2 DEF Told, Logged
    <3> QED
      BY <3>3 DEF Agreeing
  <2>4. ASSUME NEW other \in Thread, other # th, task'[other] # NoTask
        PROVE  Agreeing(other)'
    <3>1. /\ task'[other] = task[other] /\ task[other] \in Task
          /\ task[other] # t /\ Agreeing(other)
      BY <2>1, <2>4 DEF Agreed, Owned, TypeOK
    <3>2. kind'[task[other]] = kind[task[other]]
      BY <2>1, <3>1 DEF TypeOK
    <3> QED
      BY <2>1, <3>1, <3>2 DEF Agreeing, Told, Logged
  <2> QED
    BY <2>2, <2>3, <2>4 DEF Agreed
<1>4. CASE Crash
  <2>1. /\ task' = [th \in Thread |-> NoTask] /\ events' = events
        /\ returned' = [t \in Task |->
                          IF \E th \in Thread : task[th] = t THEN "lost"
                          ELSE returned[t]]
    BY <1>4 DEF Crash, log
  <2>2. \A t \in Task : Settled(t)'
    BY <2>1 DEF Agreed, Settled, Logged
  <2> QED
    BY <2>1, <2>2 DEF Agreed
<1>5. ASSUME NEW t \in Task, ReadRow(t) PROVE Agreed'
  BY <1>2, <1>5 DEF ReadRow, log, thread, write
<1>6. CASE ReadEvents
  BY <1>2, <1>6 DEF ReadEvents, log, thread, write
<1>7. CASE UNCHANGED vars
  BY <1>2, <1>7 DEF vars
<1> QED
  BY <1>1, <1>3, <1>4, <1>5, <1>6, <1>7 DEF Next

-----------------------------------------------------------------------------
(* Booked is inductive. *)

LEMMA BookedFrame ==
  ASSUME TypeOK, TypeOK', Owned, Booked, NEW th \in Thread, Only(th),
         NEW t \in Task, t = task[th],
         \A u \in Task \ {t} : stored'[u] = stored[u],
         Accounted(th)', stored'[t] <= calls'[t]
  PROVE  Booked'
<1>1. ASSUME NEW other \in Thread, other # th
      PROVE  Accounted(other)'
  <2>1. /\ pc'[other] = pc[other] /\ task'[other] = task[other]
        /\ slot'[other] = slot[other] /\ usages'[other] = usages[other]
    BY <1>1 DEF Only
  <2>2. task[other] # NoTask => task[other] \in Task \ {t}
    BY <1>1 DEF TypeOK, Owned
  <2>3. task[other] # NoTask =>
          /\ stored'[task[other]] = stored[task[other]]
          /\ calls'[task[other]] = calls[task[other]]
    BY <2>2 DEF Only
  <2>4. Accounted(other)
    BY DEF Booked
  <2> QED
    BY <2>1, <2>3, <2>4 DEF Accounted
<1>2. ASSUME NEW u \in Task, u # t PROVE stored'[u] <= calls'[u]
  BY <1>2 DEF Only, Booked, UsageIsOwn
<1> QED
  BY <1>1, <1>2 DEF Booked, UsageIsOwn

(* Seven steps touch the gateway or close a thread's account. *)
LEMMA GatewaySteps ==
  ASSUME TypeOK, Owned, NEW th \in Thread, Accounted(th),
         Step(th) \/ Trouble(th)
  PROVE  \/ StartUsage(th) \/ QwenAnswers(th) \/ FinishUsage(th)
         \/ StoreUsage(th) \/ StoreFails(th) \/ Return(th)
         \/ /\ UNCHANGED gateway /\ task'[th] = task[th]
            /\ Accounted(th)'
<1> DEFINE Apart ==
      /\ UNCHANGED gateway /\ task'[th] = task[th]
      /\ pc'[th] \in Collecting \/ pc[th] \notin Collecting
      /\ pc[th] = "store" => pc'[th] = "store" \/ usages[th] = <<>>
<1> USE DEF At, Goto, thread, TypeOK, Collecting, Running
<1>1. InsertEvent(th) => Apart
  BY DEF InsertEvent, Owned
<1>2. InsertRefused(th) => Apart
  BY DEF InsertRefused, Owned
<1>3. UpdateStatus(th) => Apart
  BY DEF UpdateStatus, Owned
<1>4. WriteFails(th) => Apart
  BY DEF WriteFails, Owned
<1>5. CreateTask(th) => Apart
  BY DEF CreateTask
<1>6. CreateFails(th) => Apart
  BY DEF CreateFails
<1>7. Received(th) => Apart
  BY DEF Received, Emit
<1>8. Parsing(th) => Apart
  BY DEF Parsing, Emit
<1>9. Blocked(th) => Apart
  BY DEF Blocked
<1>10. BeginCompose(th) => Apart
  BY DEF BeginCompose
<1>11. RecordDebug(th) => Apart
  BY DEF RecordDebug
<1>12. QwenReportFails(th) => Apart
  BY DEF QwenReportFails
<1>13. GraphDone(th) => Apart
  BY DEF GraphDone
<1>14. Diagnosing(th) => Apart
  BY DEF Diagnosing, Emit
<1>15. Generating(th) => Apart
  BY DEF Generating, Emit
<1>16. GraphFails(th) => Apart
  BY DEF GraphFails, Emit
<1>17. UsageStored(th) => Apart
  BY DEF UsageStored
<1>18. RecordDebugEvent(th) => Apart
  BY DEF RecordDebugEvent, Emit
<1>19. Close(th) => Apart
  BY DEF Close, Emit
<1>20. Apart => Accounted(th)'
  BY DEF Accounted, gateway
<1> HIDE DEF Apart
<1>21. Apart => UNCHANGED gateway /\ task'[th] = task[th]
  BY DEF Apart
<1> QED
  BY <1>1, <1>2, <1>3, <1>4, <1>5, <1>6, <1>7, <1>8, <1>9, <1>10,
     <1>11, <1>12, <1>13, <1>14, <1>15, <1>16, <1>17, <1>18, <1>19,
     <1>20, <1>21
     DEF Step, Trouble

LEMMA BookedStep ==
  ASSUME TypeOK, TypeOK', Owned, OutcomeKnown, Booked, [Next]_vars
  PROVE  Booked'
<1> USE DEF At, Goto, Kindof, Fault, thread, write, log, gateway, UsageSlot,
            EmptySlot, Running
<1>1. ASSUME NEW th \in Thread, Step(th) \/ Trouble(th) PROVE Booked'
  <2>1. /\ task[th] \in Task /\ Accounted(th)
        /\ stored[task[th]] <= calls[task[th]]
    BY <1>1, Busy DEF Booked, UsageIsOwn
  <2>2. Only(th)
    BY <1>1, StepIsLocal
  <2>3. /\ stored[task[th]] \in Nat /\ calls[task[th]] \in Nat
        /\ slot[th].task \in Task \union {NoTask}
        /\ slot[th] = [task |-> slot[th].task, records |-> slot[th].records]
        /\ slot[th].records \in Seq(Task) /\ usages[th] \in Seq(Task)
    BY <2>1 DEF TypeOK
  <2>4. CASE StartUsage(th)
    <3>1. /\ slot'[th] = [task |-> task[th], records |-> <<>>]
          /\ pc[th] = "start" /\ pc'[th] \in {"parsing", "graph"}
          /\ UNCHANGED <<task, usages, stored, calls>>
      BY <2>4 DEF StartUsage, TypeOK
    <3>2. Accounted(th)'
      <4>1. usages[th] = <<>>
        BY <2>1, <3>1 DEF Accounted
      <4> QED
        BY <2>1, <2>3, <3>1, <4>1 DEF Accounted, Collecting
    <3> QED
      BY <2>1, <2>2, <3>1, <3>2, BookedFrame
  <2>5. CASE QwenAnswers(th)
    <3>1. /\ pc[th] \in {"compose", "report", "graph"}
          /\ UNCHANGED <<pc, task, usages, stored>>
          /\ calls'[task[th]] = calls[task[th]] + 1
          /\ slot' = [slot EXCEPT ![th].records =
                        IF slot[th].task = NoTask THEN slot[th].records
                        ELSE Append(slot[th].records, slot[th].task)]
      BY <2>1, <2>5 DEF QwenAnswers, TypeOK
    <3>2. /\ slot'[th].task = slot[th].task
          /\ \/ slot'[th].records = slot[th].records
             \/ /\ slot[th].task = task[th]
                /\ slot'[th].records = Append(slot[th].records, task[th])
      <4>1. slot[th].task \in {NoTask, task[th]} /\ th \in DOMAIN slot
        BY <2>1 DEF Accounted, TypeOK
      <4>2. slot'[th] = [slot[th] EXCEPT !.records =
                           IF slot[th].task = NoTask THEN slot[th].records
                           ELSE Append(slot[th].records, slot[th].task)]
        BY <3>1, <4>1
      <4>3. /\ slot'[th].task = slot[th].task
            /\ slot'[th].records = IF slot[th].task = NoTask THEN slot[th].records
                                   ELSE Append(slot[th].records, slot[th].task)
        BY <2>3, <4>2
      <4> QED
        BY <4>1, <4>3
    <3>3. \A i \in DOMAIN slot'[th].records : slot'[th].records[i] = task[th]
      <4>1. \A i \in DOMAIN slot[th].records : slot[th].records[i] = task[th]
        BY <2>1 DEF Accounted
      <4> DEFINE records == slot[th].records
      <4>2. records \in Seq(Task) /\ \A i \in DOMAIN records : records[i] = task[th]
        BY <2>3, <4>1
      <4>3. slot'[th].records \in {records, Append(records, task[th])}
        BY <3>2
      <4> HIDE DEF records
      <4>4. \A i \in DOMAIN Append(records, task[th]) :
              Append(records, task[th])[i] = task[th]
        BY <2>1, <4>2
      <4> QED
        BY <4>2, <4>3, <4>4
    <3>4. /\ Len(slot'[th].records) <= Len(slot[th].records) + 1
          /\ Len(slot'[th].records) \in Nat /\ Len(slot[th].records) \in Nat
      BY <2>1, <2>3, <3>2
    <3>5. stored[task[th]] + Len(slot[th].records) + Len(usages[th])
            <= calls[task[th]]
      BY <2>1, ConstantsAssumption DEF Accounted
    <3>6. usages[th] = <<>>
      BY <2>1, <3>1 DEF Accounted
    <3>7. Accounted(th)'
      <4>1. slot'[th].task \in {NoTask, task'[th]} /\ pc'[th] \in Collecting
        BY <2>1, <3>1, <3>2 DEF Accounted, Collecting
      <4>2. stored'[task'[th]] + Len(slot'[th].records) + Len(usages'[th])
              <= calls'[task'[th]]
        BY <2>3, <3>1, <3>4, <3>5, <3>6
      <4> QED
        BY <3>1, <3>3, <3>6, <4>1, <4>2 DEF Accounted
    <3>8. stored'[task[th]] <= calls'[task[th]]
      BY <2>1, <2>3, <3>1
    <3> QED
      BY <2>1, <2>2, <3>1, <3>7, <3>8, BookedFrame
  <2>6. CASE FinishUsage(th)
    <3>1. /\ pc[th] = "usage" /\ pc'[th] = "store"
          /\ UNCHANGED <<task, stored, calls>>
          /\ usages'[th] = slot[th].records /\ slot'[th] = EmptySlot
      BY <2>6 DEF FinishUsage, TypeOK
    <3>2. usages[th] = <<>>
      BY <2>1, <3>1 DEF Accounted
    <3>3. Accounted(th)'
      BY <2>1, <2>3, <3>1, <3>2 DEF Accounted
    <3> QED
      BY <2>1, <2>2, <3>1, <3>3, BookedFrame
  <2>7. CASE StoreUsage(th)
    <3>1. /\ pc[th] = "store" /\ usages[th] # <<>>
          /\ UNCHANGED <<pc, task, slot, calls>>
          /\ usages'[th] = Tail(usages[th])
          /\ stored' = [stored EXCEPT ![Head(usages[th])] =
                          IF row[Head(usages[th])] = "absent"
                            THEN stored[Head(usages[th])]
                            ELSE stored[Head(usages[th])] + 1]
      BY <2>7 DEF StoreUsage, TypeOK
    <3>2. /\ Len(Tail(usages[th])) \in Nat
          /\ Len(Tail(usages[th])) + 1 = Len(usages[th])
          /\ \A i \in DOMAIN Tail(usages[th]) :
               i + 1 \in DOMAIN usages[th]
               /\ Tail(usages[th])[i] = usages[th][i + 1]
          /\ 1 \in DOMAIN usages[th] /\ Head(usages[th]) = usages[th][1]
      BY <2>3, <3>1
    <3>3. Head(usages[th]) = task[th]
      BY <2>1, <3>2 DEF Accounted
    <3>4. /\ \A u \in Task \ {task[th]} : stored'[u] = stored[u]
          /\ \/ stored'[task[th]] = stored[task[th]]
             \/ stored'[task[th]] = stored[task[th]] + 1
      BY <2>1, <3>1, <3>3, SMTT(30) DEF TypeOK
    <3>5. slot[th] = EmptySlot
      BY <2>1, <3>1 DEF Accounted, Collecting
    <3>6. \A i \in DOMAIN usages'[th] : usages'[th][i] = task[th]
      BY <2>1, <3>1, <3>2 DEF Accounted
    <3>7. stored[task[th]] + Len(usages[th]) <= calls[task[th]]
      BY <2>1, <2>3, <3>5, ConstantsAssumption DEF Accounted
    <3>8. /\ stored'[task[th]] + Len(usages'[th]) <= calls[task[th]]
          /\ stored'[task[th]] <= calls'[task[th]]
      BY <2>3, <3>1, <3>2, <3>4, <3>7
    <3>9. Accounted(th)'
      BY <2>1, <2>3, <3>1, <3>2, <3>4, <3>5, <3>6, <3>8 DEF Accounted, Collecting
    <3> QED
      BY <2>1, <2>2, <3>4, <3>8, <3>9, BookedFrame
  <2>8. CASE StoreFails(th)
    <3>1. /\ pc[th] = "store" /\ usages[th] # <<>>
          /\ UNCHANGED <<pc, task, slot, stored, calls>>
          /\ usages'[th] = Tail(usages[th])
      BY <2>8 DEF StoreFails, TypeOK
    <3>2. /\ Len(Tail(usages[th])) \in Nat
          /\ Len(Tail(usages[th])) + 1 = Len(usages[th])
          /\ \A i \in DOMAIN Tail(usages[th]) :
               i + 1 \in DOMAIN usages[th]
               /\ Tail(usages[th])[i] = usages[th][i + 1]
      BY <2>3, <3>1
    <3>3. slot[th] = EmptySlot
      BY <2>1, <3>1 DEF Accounted, Collecting
    <3>4. \A i \in DOMAIN usages'[th] : usages'[th][i] = task[th]
      BY <2>1, <3>1, <3>2 DEF Accounted
    <3>5. stored[task[th]] + Len(usages[th]) <= calls[task[th]]
      BY <2>1, <2>3, <3>3, ConstantsAssumption DEF Accounted
    <3>6. stored[task[th]] + Len(usages'[th]) <= calls[task[th]]
      BY <2>3, <3>1, <3>2, <3>5
    <3>7. Accounted(th)'
      BY <2>1, <2>3, <3>1, <3>2, <3>3, <3>4, <3>6 DEF Accounted, Collecting
    <3> QED
      BY <2>1, <2>2, <3>1, <3>7, BookedFrame
  <2>9. CASE Return(th)
    <3>1. /\ pc[th] = "return" /\ pc'[th] = "idle" /\ task'[th] = NoTask
          /\ UNCHANGED gateway
      BY <2>9 DEF Return, TypeOK
    <3>2. Accounted(th)'
      BY <2>1, <3>1 DEF Accounted, Collecting
    <3> QED
      BY <2>1, <2>2, <3>1, <3>2, BookedFrame
  <2>10. CASE UNCHANGED gateway /\ task'[th] = task[th] /\ Accounted(th)'
    BY <2>1, <2>2, <2>10, BookedFrame DEF gateway
  <2> QED
    BY <1>1, <2>1, GatewaySteps,
       <2>4, <2>5, <2>6, <2>7, <2>8, <2>9, <2>10
<1>2. ASSUME UNCHANGED <<pc, task, gateway>>
      PROVE  Booked'
  <2>1. ASSUME NEW th \in Thread PROVE Accounted(th)'
    BY <1>2 DEF Booked, Accounted
  <2> QED
    BY <1>2, <2>1 DEF Booked, UsageIsOwn
<1>3. ASSUME NEW th \in Thread, NEW t \in Task, NEW k \in Kind, Start(th, t, k)
      PROVE  Booked'
  <2>1. /\ UNCHANGED gateway /\ pc[th] = "idle" /\ kind[t] = "none"
        /\ task' = [task EXCEPT ![th] = t] /\ pc' = [pc EXCEPT ![th] = "create"]
    BY <1>3 DEF Start
  <2>2. Accounted(th)'
    <3>1. /\ slot[th] = EmptySlot /\ usages[th] = <<>>
          /\ stored[t] <= calls[t] /\ stored[t] \in Nat
      BY <2>1 DEF Booked, Accounted, UsageIsOwn, Collecting, TypeOK
    <3>2. task'[th] = t /\ pc'[th] = "create"
      BY <2>1 DEF TypeOK
    <3> QED
      BY <2>1, <3>1, <3>2 DEF Accounted, Collecting
  <2>3. ASSUME NEW other \in Thread, other # th PROVE Accounted(other)'
    <3>1. task'[other] = task[other] /\ pc'[other] = pc[other]
      BY <2>1, <2>3 DEF TypeOK
    <3> QED
      BY <2>1, <3>1 DEF Booked, Accounted
  <2> QED
    BY <2>1, <2>2, <2>3 DEF Booked, UsageIsOwn
<1>4. CASE Crash
  <2>1. /\ slot' = [th \in Thread |-> EmptySlot]
        /\ usages' = [th \in Thread |-> <<>>]
        /\ task' = [th \in Thread |-> NoTask]
        /\ pc' = [th \in Thread |-> "idle"] /\ UNCHANGED <<stored, calls>>
    BY <1>4 DEF Crash
  <2> QED
    BY <2>1 DEF Booked, Accounted, UsageIsOwn, Collecting
<1>5. ASSUME NEW t \in Task, ReadRow(t) PROVE Booked'
  BY <1>2, <1>5 DEF ReadRow
<1>6. CASE ReadEvents
  BY <1>2, <1>6 DEF ReadEvents
<1>7. CASE UNCHANGED vars
  BY <1>2, <1>7 DEF vars
<1> QED
  BY <1>1, <1>3, <1>4, <1>5, <1>6, <1>7 DEF Next

-----------------------------------------------------------------------------
(* The record of a task is complete as long as nothing fails. *)

Present(th) == pc[th] \notin {"idle", "create"} => row[task[th]] # "absent"

Synced(th) ==
  writing[th] = "no" /\ events[task[th]] # <<>> => row[task[th]] = Newest(task[th])

Verdict(th) == IF outcome[th] = "done" THEN "completed" ELSE "failed"

(* No further status will be written after the one at hand. *)
Ending(th) == outcome[th] = "error" \/ (pc[th] = "return" /\ kind[task[th]] # "record")

Ended(th) ==
  Ending(th) => IF writing[th] = "no"
                  THEN events[task[th]] # <<>> /\ Newest(task[th]) = Verdict(th)
                  ELSE event[th] = Verdict(th)

(* Every call is booked, or at hand. *)
Paid(th) ==
  /\ pc[th] \in Collecting => slot[th].task = task[th]
  /\ stored[task[th]] + Len(slot[th].records) + Len(usages[th]) = calls[task[th]]

Complete(th) == Present(th) /\ Synced(th) /\ Ended(th) /\ Paid(th)

Unfailed ==
  faults = 0 =>
    /\ \A th \in Thread : task[th] # NoTask => Complete(th)
    /\ \A t \in Task : kind[t] = "none" => stored[t] = 0 /\ calls[t] = 0
    /\ RecordIsComplete

LEMMA RecordStaysComplete ==
  ASSUME IInv, NEW th \in Thread, Step(th), ~Return(th), Complete(th)
  PROVE  Present(th)' /\ Synced(th)' /\ Ended(th)'
<1> DEFINE Goal == Present(th)' /\ Synced(th)' /\ Ended(th)'
<1>1. /\ task[th] \in Task /\ task[th] # NoTask /\ pc[th] # "idle"
      /\ Owned /\ Backed /\ OutcomeKnown /\ Ordered(th) /\ TypeOK
  BY Busy DEF IInv, InOrder, Owned
<1>2. CASE InsertEvent(th)
  <2>1. /\ UNCHANGED <<pc, task, outcome, kind, event, row>> /\ writing'[th] = "update"
        /\ writing[th] = "insert"
    BY <1>1, <1>2 DEF InsertEvent, thread, TypeOK
  <2> QED BY <2>1 DEF Complete, Present, Synced, Ended, Ending, Verdict
<1>3. ~InsertRefused(th)
  BY <1>1 DEF InsertRefused, Complete, Present, Owned
<1>4. CASE UpdateStatus(th)
  <2>1. /\ UNCHANGED <<pc, task, outcome, kind, event, events>> /\ writing'[th] = "no"
        /\ writing[th] = "update" /\ row'[task[th]] = event[th] /\ event[th] # "absent"
    BY <1>1, <1>4 DEF UpdateStatus, thread, TypeOK, Status, Lifecycle!Status, Lifecycle!Rank
  <2>2. events[task[th]] # <<>> /\ Newest(task[th]) = event[th]
    BY <1>1, <2>1 DEF Ordered
  <2> QED BY <2>1, <2>2 DEF Complete, Present, Synced, Ended, Ending, Verdict, Newest
<1>5. CASE CreateTask(th)
  <2>1. /\ UNCHANGED <<task, outcome, kind, writing, event, events>> /\ pc[th] = "create"
        /\ pc'[th] = "received" /\ row'[task[th]] = "received"
    BY <1>1, <1>5 DEF CreateTask, At, Goto, write, TypeOK
  <2>2. events[task[th]] = <<>> /\ outcome[th] # "error"
    BY <1>1, <2>1 DEF Owned, Backed, OutcomeKnown
  <2> QED BY <2>1, <2>2 DEF Present, Synced, Ended, Ending
(* Steps that begin to write: what is at hand is the verdict at an end. *)
<1>6. ASSUME UNCHANGED <<task, kind, row>>, pc[th] # "create", writing'[th] = "insert",
             Ending(th)' => event'[th] = Verdict(th)'
      PROVE  Goal
  BY <1>1, <1>6 DEF Complete, Present, Synced, Ended
<1> USE DEF At, Goto, Emit, Kindof, log
<1>7. CASE Received(th)
  BY <1>1, <1>6, <1>7 DEF Received, TypeOK, OutcomeKnown, Ending
<1>8. CASE Parsing(th)
  BY <1>1, <1>6, <1>8 DEF Parsing, TypeOK, OutcomeKnown, Ending
<1>9. CASE Diagnosing(th)
  BY <1>1, <1>6, <1>9 DEF Diagnosing, TypeOK, OutcomeKnown, Ending
<1>10. CASE Generating(th)
  BY <1>1, <1>6, <1>10 DEF Generating, TypeOK, OutcomeKnown, Ending
<1>11. CASE GraphFails(th)
  BY <1>1, <1>6, <1>11 DEF GraphFails, TypeOK, Running, Verdict
<1>12. CASE Close(th)
  BY <1>1, <1>6, <1>12 DEF Close, TypeOK, Verdict
<1>13. CASE RecordDebugEvent(th) /\ last_debug # NoTask
  BY <1>1, <1>6, <1>13 DEF RecordDebugEvent, TypeOK, OutcomeKnown, Ending
(* Steps that leave the record alone: an end was one before. *)
<1>14. ASSUME UNCHANGED <<task, kind, row, events, writing, event>>, pc[th] # "create",
              Ending(th)' => Ending(th) /\ outcome' = outcome
       PROVE  Goal
  BY <1>1, <1>14 DEF Complete, Present, Synced, Ended, Verdict, Newest
<1> USE DEF write
<1>15. CASE StartUsage(th) \/ QwenAnswers(th) \/ Blocked(th) \/ BeginCompose(th)
              \/ RecordDebug(th) \/ QwenReportFails(th) \/ GraphDone(th)
  BY <1>1, <1>14, <1>15 DEF StartUsage, QwenAnswers, Blocked, BeginCompose, RecordDebug,
     QwenReportFails, GraphDone, TypeOK, OutcomeKnown, Ending, thread
<1>16. CASE FinishUsage(th) \/ StoreUsage(th)
  BY <1>1, <1>14, <1>16 DEF FinishUsage, StoreUsage, TypeOK, Ending, thread
<1>17. CASE UsageStored(th)
  BY <1>1, <1>14, <1>17 DEF UsageStored, TypeOK, Ending
<1>18. CASE RecordDebugEvent(th) /\ last_debug = NoTask
  BY <1>1, <1>14, <1>18 DEF RecordDebugEvent, TypeOK, Ending
<1> HIDE DEF Goal
<1> QED BY <1>2, <1>3, <1>4, <1>5, <1>7, <1>8, <1>9, <1>10, <1>11, <1>12, <1>13,
           <1>15, <1>16, <1>17, <1>18 DEF Step, Goal

LEMMA TokensStayPaid ==
  ASSUME IInv, NEW th \in Thread, Step(th), ~Return(th), Complete(th), faults' = faults
  PROVE  /\ Paid(th)' /\ task'[th] = task[th]
         /\ \A u \in Task \ {task[th]} : stored'[u] = stored[u]
<1> DEFINE Others == \A u \in Task \ {task[th]} : stored'[u] = stored[u]
<1>1. /\ task[th] \in Task /\ task[th] # NoTask /\ TypeOK /\ Owned /\ Accounted(th)
      /\ stored[task[th]] \in Nat /\ calls[task[th]] \in Nat
      /\ slot[th] = [task |-> slot[th].task, records |-> slot[th].records]
      /\ slot[th].records \in Seq(Task) /\ usages[th] \in Seq(Task)
  BY Busy DEF IInv, Booked, TypeOK
<1>2. Paid(th) /\ Present(th)
  BY DEF Complete
<1> USE DEF At, Goto, thread, gateway, UsageSlot
<1>3. CASE StartUsage(th)
  <2>1. /\ slot'[th] = [task |-> task[th], records |-> <<>>]
        /\ UNCHANGED <<task, usages, stored, calls>> /\ slot[th] = EmptySlot
    BY <1>1, <1>3 DEF StartUsage, TypeOK, Accounted, Collecting, Running
  <2> QED BY <1>1, <1>2, <2>1 DEF Paid, EmptySlot
<1>4. CASE QwenAnswers(th)
  <2>1. /\ pc[th] \in Collecting /\ UNCHANGED <<pc, task, usages, stored>>
        /\ calls'[task[th]] = calls[task[th]] + 1
        /\ slot' = [slot EXCEPT ![th].records =
                      IF slot[th].task = NoTask THEN slot[th].records
                      ELSE Append(slot[th].records, slot[th].task)]
    BY <1>1, <1>4 DEF QwenAnswers, TypeOK, Collecting, Running
  <2>2. slot[th].task = task[th] /\ usages[th] = <<>>
    BY <1>1, <1>2, <2>1 DEF Paid, Accounted, Collecting, Running
  <2>3. slot' = [slot EXCEPT ![th].records = Append(slot[th].records, task[th])]
    BY <1>1, <2>1, <2>2
  <2>4. slot'[th] = [slot[th] EXCEPT !.records = Append(slot[th].records, task[th])]
    BY <2>3, <1>1 DEF TypeOK
  <2>5. slot'[th].task = slot[th].task /\ slot'[th].records = Append(slot[th].records, task[th])
    BY <1>1, <2>4
  <2>6. Len(slot'[th].records) = Len(slot[th].records) + 1 /\ Len(slot[th].records) \in Nat
    BY <1>1, <2>5
  <2>7. Len(usages[th]) = 0 /\ Len(usages'[th]) = 0
    BY <2>1, <2>2
  <2>8. stored[task[th]] + Len(slot'[th].records) + Len(usages'[th]) = calls[task[th]] + 1
    <3>1. stored[task[th]] + Len(slot[th].records) + Len(usages[th]) = calls[task[th]]
      BY <1>2 DEF Paid
    <3> QED BY <1>1, <2>6, <2>7, <3>1
  <2> QED BY <1>2, <2>1, <2>2, <2>5, <2>8 DEF Paid
<1>5. CASE FinishUsage(th)
  <2>1. /\ pc[th] = "usage" /\ pc'[th] = "store" /\ UNCHANGED <<task, stored, calls>>
        /\ usages'[th] = slot[th].records /\ slot'[th] = EmptySlot
    BY <1>1, <1>5 DEF FinishUsage, TypeOK
  <2>2. usages[th] = <<>>
    BY <1>1, <2>1 DEF Accounted
  <2> QED BY <1>1, <1>2, <2>1, <2>2 DEF Paid, EmptySlot, Collecting, Running
<1>6. CASE StoreUsage(th)
  <2>1. /\ pc[th] = "store" /\ usages[th] # <<>> /\ UNCHANGED <<pc, task, slot, calls>>
        /\ usages'[th] = Tail(usages[th])
        /\ stored' = [stored EXCEPT ![Head(usages[th])] =
                        IF row[Head(usages[th])] = "absent" THEN stored[Head(usages[th])]
                        ELSE stored[Head(usages[th])] + 1]
    BY <1>1, <1>6 DEF StoreUsage, TypeOK
  <2>2. Head(usages[th]) = task[th] /\ Len(Tail(usages[th])) = Len(usages[th]) - 1
        /\ Len(usages[th]) \in Nat
    <3>1. 1 \in DOMAIN usages[th] /\ Head(usages[th]) = usages[th][1]
      BY <1>1, <2>1
    <3>2. usages[th][1] = task[th]
      BY <1>1, <3>1 DEF Accounted
    <3> QED BY <1>1, <2>1, <3>1, <3>2
  <2>3. row[task[th]] # "absent"
    BY <1>2, <2>1 DEF Present
  <2>4. stored'[task[th]] = stored[task[th]] + 1 /\ Others
    BY <1>1, <2>1, <2>2, <2>3 DEF TypeOK
  <2>5. Len(slot[th].records) \in Nat
    BY <1>1
  <2>6. stored[task[th]] + 1 + Len(slot[th].records) + Len(usages'[th]) = calls[task[th]]
    <3>1. stored[task[th]] + Len(slot[th].records) + Len(usages[th]) = calls[task[th]]
      BY <1>2 DEF Paid
    <3>2. Len(usages'[th]) = Len(usages[th]) - 1
      BY <2>1, <2>2
    <3>3. stored[task[th]] \in Nat /\ calls[task[th]] \in Nat /\ Len(usages[th]) \in Nat
      BY <1>1
    <3> DEFINE s == stored[task[th]]
               r == Len(slot[th].records)
               u == Len(usages[th])
               n == Len(usages'[th])
               c == calls[task[th]]
    <3>4. s \in Nat /\ r \in Nat /\ u \in Nat /\ c \in Nat /\ s + r + u = c /\ n = u - 1
      BY <2>5, <3>1, <3>2, <3>3
    <3> HIDE DEF s, r, u, n, c
    <3>5. s + 1 + r + n = c
      BY <3>4
    <3> QED BY <3>5 DEF s, r, u, n, c
  <2> QED BY <1>2, <2>1, <2>4, <2>6 DEF Paid, Collecting, Running
<1>7. CASE UNCHANGED gateway /\ task'[th] = task[th] /\ Accounted(th)'
           /\ ~(StartUsage(th) \/ QwenAnswers(th) \/ FinishUsage(th) \/ StoreUsage(th))
  <2>1. pc'[th] \in Collecting => pc[th] \in Collecting
    BY <1>1, <1>7 DEF Step, InsertEvent, InsertRefused, UpdateStatus, CreateTask, Received,
       Parsing, Blocked, BeginCompose, RecordDebug, QwenReportFails, GraphDone, Diagnosing,
       Generating, GraphFails, UsageStored, RecordDebugEvent, Close, Emit, Kindof, TypeOK,
       Collecting, Running
  <2> QED BY <1>2, <1>7, <2>1 DEF Paid
<1>8. ~StoreFails(th)
  BY <1>1 DEF StoreFails, Fault, TypeOK
<1> QED BY <1>1, <1>3, <1>4, <1>5, <1>6, <1>7, <1>8, GatewaySteps

LEMMA ReturnIsComplete ==
  ASSUME IInv, NEW th \in Thread, Return(th), Complete(th),
         returned'[task[th]] \in {"completed", "failed"}
  PROVE  /\ events'[task[th]] # <<>>
         /\ Lifecycle!Newest(events'[task[th]]) = returned'[task[th]]
         /\ row'[task[th]] = returned'[task[th]]
         /\ stored'[task[th]] = calls'[task[th]]
<1>1. /\ task[th] \in Task /\ task[th] # NoTask /\ pc[th] = "return" /\ writing[th] = "no"
      /\ TypeOK /\ OutcomeKnown /\ Accounted(th) /\ UNCHANGED <<row, events, stored, calls>>
  BY Busy DEF IInv, Booked, Return, At, log, gateway, Step
<1>2. returned'[task[th]] = CASE kind[task[th]] = "record" -> "id"
                              [] outcome[th] = "done" -> "completed"
                              [] OTHER -> "failed"
  BY <1>1 DEF Return, Kindof, TypeOK
<1>3. kind[task[th]] # "record" /\ returned'[task[th]] = Verdict(th)
  BY <1>1, <1>2 DEF Verdict, OutcomeKnown
<1>4. /\ events[task[th]] # <<>> /\ Newest(task[th]) = Verdict(th)
      /\ row[task[th]] = Newest(task[th])
  BY <1>1, <1>3 DEF Complete, Ended, Ending, Synced
<1>5. slot[th].records = <<>> /\ usages[th] = <<>>
  BY <1>1 DEF Accounted, Collecting, Running, EmptySlot
<1>6. stored[task[th]] \in Nat /\ calls[task[th]] \in Nat
  BY <1>1 DEF TypeOK
<1>7. stored[task[th]] = calls[task[th]]
  BY <1>5, <1>6 DEF Complete, Paid
<1> QED BY <1>1, <1>3, <1>4, <1>7 DEF Newest

(* A task that nobody works on stays as complete as it was. *)
LEMMA OthersStayComplete ==
  ASSUME IInv, Unfailed, faults = 0, NEW th \in Thread, Only(th), task[th] \in Task,
         \A u \in Task \ {task[th]} : stored'[u] = stored[u]
  PROVE  /\ \A other \in Thread \ {th} : task'[other] # NoTask => Complete(other)'
         /\ \A u \in Task : kind'[u] = "none" => stored'[u] = 0 /\ calls'[u] = 0
         /\ \A u \in Task \ {task[th]} : returned'[u] \in {"completed", "failed"} =>
              /\ events'[u] # <<>> /\ Lifecycle!Newest(events'[u]) = returned'[u]
              /\ row'[u] = returned'[u] /\ stored'[u] = calls'[u]
<1>1. /\ \A o \in Thread : task[o] # NoTask => Complete(o)
      /\ \A u \in Task : kind[u] = "none" => stored[u] = 0 /\ calls[u] = 0
      /\ RecordIsComplete /\ Owned /\ TypeOK
  BY DEF Unfailed, IInv
<1>2. ASSUME NEW other \in Thread \ {th}, task'[other] # NoTask
      PROVE  Complete(other)'
  <2>1. /\ UNCHANGED kind
        /\ pc'[other] = pc[other] /\ task'[other] = task[other]
        /\ outcome'[other] = outcome[other] /\ writing'[other] = writing[other]
        /\ event'[other] = event[other] /\ slot'[other] = slot[other]
        /\ usages'[other] = usages[other]
    BY DEF Only
  <2>2. task[other] \in Task \ {task[th]}
    BY <1>1, <1>2, <2>1, ConstantsAssumption DEF Owned, TypeOK
  <2>3. /\ events'[task[other]] = events[task[other]] /\ row'[task[other]] = row[task[other]]
        /\ calls'[task[other]] = calls[task[other]]
        /\ stored'[task[other]] = stored[task[other]]
    BY <2>2 DEF Only
  <2>4. Complete(other)
    BY <1>1, <1>2, <2>1
  <2> QED BY <2>1, <2>3, <2>4 DEF Complete, Present, Synced, Ended, Ending, Verdict, Paid, Newest
<1>3. ASSUME NEW u \in Task, kind'[u] = "none" PROVE stored'[u] = 0 /\ calls'[u] = 0
  <2>1. kind[u] = "none" /\ u # task[th]
    BY <1>1, <1>3, ConstantsAssumption DEF Only, Owned
  <2> QED BY <1>1, <2>1 DEF Only
<1>4. \A u \in Task \ {task[th]} :
        /\ events'[u] = events[u] /\ row'[u] = row[u] /\ calls'[u] = calls[u]
        /\ returned'[u] = returned[u] /\ stored'[u] = stored[u]
  BY DEF Only
<1> QED BY <1>1, <1>2, <1>3, <1>4 DEF RecordIsComplete

LEMMA StartIsComplete ==
  ASSUME IInv, Unfailed, faults = 0,
         NEW th \in Thread, NEW t \in Task, NEW k \in Kind, Start(th, t, k)
  PROVE  /\ \A other \in Thread : task'[other] # NoTask => Complete(other)'
         /\ \A u \in Task : kind'[u] = "none" => kind[u] = "none"
<1>1. /\ pc[th] = "idle" /\ kind[t] = "none" /\ k # "none" /\ task[th] = NoTask
      /\ kind' = [kind EXCEPT ![t] = k] /\ task' = [task EXCEPT ![th] = t]
      /\ pc' = [pc EXCEPT ![th] = "create"]
      /\ UNCHANGED <<outcome, writing, event, row, events, slot, usages, stored, calls>>
      /\ TypeOK /\ Owned /\ Backed /\ OutcomeKnown /\ Accounted(th)
      /\ stored[t] = 0 /\ calls[t] = 0
      /\ \A o \in Thread : task[o] # NoTask => Complete(o)
  BY DEF Start, At, Goto, IInv, Owned, Booked, Unfailed, write, log, gateway
<1>2. Complete(th)'
  <2>1. /\ pc'[th] = "create" /\ task'[th] = t /\ outcome[th] = "none" /\ writing[th] = "no"
        /\ events[t] = <<>> /\ slot[th] = EmptySlot /\ usages[th] = <<>>
    <3>1. pc'[th] = "create" /\ task'[th] = t
      BY <1>1 DEF TypeOK
    <3>2. outcome[th] = "none" /\ writing[th] = "no"
      BY <1>1 DEF TypeOK, Owned, OutcomeKnown
    <3>3. events[t] = <<>>
      BY <1>1 DEF Owned, Backed
    <3>4. slot[th] = EmptySlot /\ usages[th] = <<>>
      BY <1>1 DEF Accounted, Collecting, Running
    <3> QED BY <3>1, <3>2, <3>3, <3>4
  <2>2. Present(th)' /\ Synced(th)' /\ Ended(th)'
    BY <1>1, <2>1 DEF Present, Synced, Ended, Ending
  <2>3. Paid(th)'
    BY <1>1, <2>1 DEF Paid, Collecting, Running, EmptySlot
  <2> QED BY <2>2, <2>3 DEF Complete
<1>3. ASSUME NEW other \in Thread, other # th, task'[other] # NoTask
      PROVE  Complete(other)'
  <2>1. pc'[other] = pc[other] /\ task'[other] = task[other] /\ task[other] # t
        /\ kind'[task[other]] = kind[task[other]]
    <3>1. pc'[other] = pc[other] /\ task'[other] = task[other]
      BY <1>1, <1>3 DEF TypeOK
    <3>2. kind[task[other]] # "none"
      BY <1>1, <1>3, <3>1 DEF Owned
    <3> QED BY <1>1, <3>1, <3>2 DEF TypeOK
  <2>2. Complete(other)
    BY <1>1, <1>3, <2>1
  <2> QED BY <1>1, <2>1, <2>2 DEF Complete, Present, Synced, Ended, Ending, Verdict, Paid, Newest
<1>4. \A u \in Task : kind'[u] = "none" => kind[u] = "none"
  BY <1>1 DEF TypeOK
<1> QED BY <1>2, <1>3, <1>4

LEMMA UnfailedStep ==
  ASSUME IInv, Unfailed, [Next]_vars
  PROVE  Unfailed'
<1> SUFFICES ASSUME faults' = 0
             PROVE  /\ \A th \in Thread : task'[th] # NoTask => Complete(th)'
                    /\ \A t \in Task : kind'[t] = "none" => stored'[t] = 0 /\ calls'[t] = 0
                    /\ RecordIsComplete'
  BY DEF Unfailed
<1> DEFINE OnRecord(t) ==
      /\ events[t] # <<>> /\ Lifecycle!Newest(events[t]) = returned[t]
      /\ row[t] = returned[t] /\ stored[t] = calls[t]
<1>1. faults \in Nat /\ ~Fault /\ TypeOK /\ Owned
  BY DEF IInv, TypeOK, Fault
<1>2. ASSUME faults = 0
      PROVE  /\ \A th \in Thread : task[th] # NoTask => Complete(th)
             /\ \A t \in Task : kind[t] = "none" => stored[t] = 0 /\ calls[t] = 0
             /\ RecordIsComplete
  BY <1>2 DEF Unfailed
<1>3. CASE \E th \in Thread, t \in Task, k \in Kind : Start(th, t, k)
  <2>1. PICK th \in Thread, t \in Task, k \in Kind : Start(th, t, k)
    BY <1>3
  <2>2. faults = 0 /\ UNCHANGED <<row, events, stored, calls, returned>>
    BY <2>1 DEF Start, log, gateway
  <2>3. /\ \A other \in Thread : task'[other] # NoTask => Complete(other)'
        /\ \A u \in Task : kind'[u] = "none" => kind[u] = "none"
    BY <2>1, <2>2, StartIsComplete
  <2> QED BY <1>2, <2>2, <2>3 DEF RecordIsComplete
<1>4. CASE \E th \in Thread : Step(th) \/ Trouble(th)
  <2>1. PICK th \in Thread : Step(th) \/ Trouble(th)
    BY <1>4
  <2>2. Step(th) /\ faults' = faults
    BY <1>1, <2>1 DEF Trouble, WriteFails, CreateFails, StoreFails, Step, InsertEvent,
       InsertRefused, UpdateStatus, CreateTask, Received, StartUsage, Parsing, QwenAnswers,
       Blocked, BeginCompose, RecordDebug, QwenReportFails, GraphDone, Diagnosing, Generating,
       GraphFails, FinishUsage, StoreUsage, UsageStored, RecordDebugEvent, Close, Return
  <2>3. /\ Only(th) /\ task[th] \in Task /\ task[th] # NoTask /\ faults = 0
        /\ Complete(th) /\ returned[task[th]] = "no"
    BY <1>1, <1>2, <2>2, StepIsLocal, Busy
  <2>4. CASE Return(th)
    <3>1. task'[th] = NoTask /\ stored' = stored
      BY <1>1, <2>4 DEF Return, gateway, TypeOK
    <3>2. /\ \A other \in Thread \ {th} : task'[other] # NoTask => Complete(other)'
          /\ \A u \in Task : kind'[u] = "none" => stored'[u] = 0 /\ calls'[u] = 0
          /\ \A u \in Task \ {task[th]} : returned'[u] \in {"completed", "failed"} => OnRecord(u)'
      BY <2>3, <3>1, OthersStayComplete
    <3>3. returned'[task[th]] \in {"completed", "failed"} =>
            /\ events'[task[th]] # <<>>
            /\ Lifecycle!Newest(events'[task[th]]) = returned'[task[th]]
            /\ row'[task[th]] = returned'[task[th]]
            /\ stored'[task[th]] = calls'[task[th]]
      BY <2>3, <2>4, ReturnIsComplete
    <3> QED BY <3>1, <3>2, <3>3 DEF RecordIsComplete
  <2>5. CASE ~Return(th)
    <3>1. /\ Paid(th)' /\ task'[th] = task[th]
          /\ \A u \in Task \ {task[th]} : stored'[u] = stored[u]
      BY <2>2, <2>3, <2>5, TokensStayPaid
    <3>2. Complete(th)'
      BY <2>2, <2>3, <2>5, <3>1, RecordStaysComplete DEF Complete
    <3>3. /\ \A other \in Thread \ {th} : task'[other] # NoTask => Complete(other)'
          /\ \A u \in Task : kind'[u] = "none" => stored'[u] = 0 /\ calls'[u] = 0
          /\ \A u \in Task \ {task[th]} : returned'[u] \in {"completed", "failed"} => OnRecord(u)'
      BY <2>3, <3>1, OthersStayComplete
    <3>4. returned'[task[th]] = "no"
      BY <2>2, <2>3, <2>5 DEF Step, InsertEvent, InsertRefused, UpdateStatus, CreateTask,
         Received, StartUsage, Parsing, QwenAnswers, Blocked, BeginCompose, RecordDebug,
         QwenReportFails, GraphDone, Diagnosing, Generating, GraphFails, FinishUsage,
         StoreUsage, UsageStored, RecordDebugEvent, Close
    <3> QED BY <3>2, <3>3, <3>4 DEF RecordIsComplete
  <2> QED BY <2>4, <2>5
<1>5. CASE Crash
  BY <1>1, <1>5 DEF Crash
<1>6. CASE (\E t \in Task : ReadRow(t)) \/ ReadEvents \/ UNCHANGED vars
  <2>1. /\ UNCHANGED <<pc, task, outcome, kind, writing, event, row, events, slot, usages,
                       stored, calls, returned>> /\ faults = 0
    BY <1>6 DEF ReadRow, ReadEvents, vars, thread, write, log, gateway
  <2>2. \A th \in Thread : Complete(th)' = Complete(th)
    BY <2>1 DEF Complete, Present, Synced, Ended, Ending, Verdict, Paid, Newest
  <2> QED BY <1>2, <2>1, <2>2 DEF RecordIsComplete
<1> QED BY <1>3, <1>4, <1>5, <1>6 DEF Next

-----------------------------------------------------------------------------
(* The invariant holds, and so does what it implies. *)

LEMMA InitIInv == Init => IInv
<1> SUFFICES ASSUME Init PROVE IInv
  OBVIOUS
<1>1. TypeOK
  BY DEF Init, TypeOK, EmptySlot, NoAnswer, Kind, PC, Status, Lifecycle!Status,
         Lifecycle!Rank
<1>2. Owned /\ OutcomeKnown /\ InOrder
  BY DEF Init, Owned, OutcomeKnown, InOrder
<1>3. \A t \in Task : Logged(t) = {}
  BY DEF Init, Logged, Range
<1>4. Backed /\ Agreed
  BY <1>3 DEF Init, Backed, Agreed, Settled
<1>5. Booked
  BY DEF Init, Booked, Accounted, UsageIsOwn, EmptySlot, Collecting
<1>6. StatusIsExplained
  BY DEF Init, StatusIsExplained, NoAnswer
<1> QED
  BY <1>1, <1>2, <1>4, <1>5, <1>6 DEF IInv

LEMMA Invariance == Spec => []IInv
<1>1. IInv /\ [Next]_vars => IInv'
  <2> SUFFICES ASSUME IInv, [Next]_vars PROVE IInv'
    OBVIOUS
  <2>1. TypeOK'
    BY TypeStep DEF IInv
  <2> QED
    BY <2>1, OwnedStep, BackedStep, OutcomeStep, OrderStep, AgreedStep,
       BookedStep, ExplainedStep
       DEF IInv
<1> QED
  BY InitIInv, <1>1, PTL DEF Spec

(* TypeOK holds: the variables of run_sql, run_diagnosis and               *)
(* create_task_record keep their types.                                    *)
THEOREM TypeCorrect == Spec => []TypeOK
<1>1. IInv => TypeOK
  BY DEF IInv
<1> QED
  BY <1>1, Invariance, PTL

(* RecordAgreesWithReturn holds: whichever writes are lost and wherever    *)
(* the process dies, the events and the status of a task never contradict  *)
(* the execution that run_sql or run_diagnosis returned for it.            *)
THEOREM RecordAgrees == Spec => []RecordAgreesWithReturn
<1>1. IInv => RecordAgreesWithReturn
  BY DEF IInv, Agreed, Settled, Backed, RecordAgreesWithReturn
<1> QED
  BY <1>1, Invariance, PTL

(* UsageIsOwn holds: with a thread-local slot, append_token_usage never    *)
(* books on a task a call that another task made, nor one call twice.      *)
THEOREM TokensAreOwn == Spec => []UsageIsOwn
<1>1. IInv => UsageIsOwn
  BY DEF IInv, Booked
<1> QED
  BY <1>1, Invariance, PTL

(* StatusIsExplained holds: get_task, which selects the row before the     *)
(* events, never shows a status without its event, because append_event    *)
(* inserts the event first.                                                *)
THEOREM PollIsExplained == Spec => []StatusIsExplained
<1>1. IInv => StatusIsExplained
  BY DEF IInv
<1> QED
  BY <1>1, Invariance, PTL

(* RecordIsComplete holds: as long as no statement failed and no process   *)
(* died, a task that was returned has its end and its status on record,    *)
(* and each of its Qwen calls is booked.                                   *)
THEOREM RecordsAreComplete == Spec => []RecordIsComplete
<1>1. Init => Unfailed
  <2> SUFFICES ASSUME Init PROVE Unfailed
    OBVIOUS
  <2> QED BY DEF Init, Unfailed, RecordIsComplete
<1>2. IInv /\ Unfailed /\ [Next]_vars => Unfailed'
  BY UnfailedStep
<1>3. Unfailed => RecordIsComplete
  BY DEF Unfailed, RecordIsComplete
<1> QED
  BY <1>1, <1>2, <1>3, Invariance, PTL DEF Spec

(* ImplementsLifecycle: for any number of concurrent requests, lost writes *)
(* and crashes, the record of a task moves strictly forward through        *)
(* TaskLifecycle's stages, and the status column follows the events.       *)
THEOREM Refinement == Spec => ImplementsLifecycle
<1>1. Init => Lifecycle!Init
  BY DEF Init, Lifecycle!Init
<1>2. IInv /\ [Next]_vars => [Lifecycle!Next]_Lifecycle!vars
  BY LifecycleStep DEF IInv, Lifecycle!vars
<1> QED
  BY <1>1, <1>2, Invariance, PTL DEF Spec, ImplementsLifecycle, Lifecycle!Spec

=============================================================================
