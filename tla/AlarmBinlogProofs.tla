------------------------- MODULE AlarmBinlogProofs -------------------------
(***************************************************************************)
(* The safety properties of AlarmBinlog for every number of alarms, retry  *)
(* limit, fault budget and commit order.                                   *)
(*                                                                         *)
(* The argument turns on the anchor.  Whatever the loop ever took in hand  *)
(* was committed, so the MAX read by a later session covers it, and inside *)
(* a session the checkpoint rises past each alarm as it is handled.  Hence *)
(* an alarm is taken at most once, and one retry loop bounds its pushes.   *)
(***************************************************************************)
EXTENDS AlarmBinlog, TLAPS

(* Everything the worker knows of was committed. *)
Committed ==
  /\ saved \in table \union {0}
  /\ checkpoint \in table \union {0}
  /\ latest_id \in table \union {0}
  /\ alarms \subseteq table
  /\ \A i \in 1 .. Len(binlog) : binlog[i] \subseteq table
  /\ \A a \in Id : fate[a] # "new" => a \in table

(* The anchor, and after it the checkpoint, cover every alarm taken so far *)
(* except the one in hand, and the saved checkpoint (which runs ahead by   *)
(* the alarm in hand between the write and the loop's own assignment).     *)
(* What earlier sessions failed to finish lies below the anchor.           *)
Covered ==
  /\ pc = "save_anchor" =>
       /\ saved <= latest_id
       /\ \A a \in Id : fate[a] # "new" => a <= latest_id
  /\ pc \in Anchored =>
       /\ saved <= checkpoint \/ (pc = "saved" /\ saved = alarm)
       /\ retry_max = 0 => saved = latest_id
       /\ \A a \in Id : fate[a] \notin {"new", "taken"} => a <= checkpoint
       /\ \A a \in Id :
            fate[a] \in {"given_up", "interrupted"} => a <= latest_id

(* The rows waiting lie above the checkpoint and the alarm in hand; none   *)
(* wait before the reader is open.                                         *)
Ascending ==
  /\ pc \notin Streaming => alarms = {}
  /\ pc \in Streaming => \A b \in alarms : checkpoint < b
  /\ pc \in Delivering =>
       /\ alarm \in Id
       /\ checkpoint < alarm
       /\ \A b \in alarms : alarm < b

(* The alarm in hand is the only one taken. *)
InHand == \A a \in Id : fate[a] = "taken" <=> pc \in Delivering /\ a = alarm

(* The pushes of the alarm in hand against its attempts. *)
Counted ==
  /\ \A a \in Id : pushes[a] <= retry_max
  /\ \A a \in Id : fate[a] = "new" => pushes[a] = 0
  /\ pc \in Delivering => 1 <= attempt
  /\ pc \in {"diagnose", "send"} => pushes[alarm] < attempt
  /\ pc \in {"save", "saved", "failed", "retry_sleep"} =>
       pushes[alarm] <= attempt
  /\ pc \in {"save", "saved"} => 0 < pushes[alarm]
  /\ pc = "retry_sleep" => attempt < retry_max

IInv ==
  /\ TypeOK /\ Committed /\ Covered /\ Ascending /\ InHand /\ Counted
  /\ ProcessedWasPushed

-----------------------------------------------------------------------------

LEMMA InitInv == Init => IInv
<1> SUFFICES ASSUME Init PROVE IInv
  OBVIOUS
<1> USE DEF Init, PC, Anchored, Streaming, Delivering, Fate
<1>1. binlog \in Seq(SUBSET Id) /\ Len(binlog) = 0
  OBVIOUS
<1>2. retry_max \in Nat
  BY ConstantsAssumption
<1>3. TypeOK
  BY <1>1, <1>2 DEF TypeOK
<1>4. Committed /\ Covered /\ Ascending
  BY <1>1 DEF Committed, Covered, Ascending
<1>5. InHand /\ Counted /\ ProcessedWasPushed
  BY <1>2 DEF InHand, Counted, ProcessedWasPushed
<1> QED
  BY <1>3, <1>4, <1>5 DEF IInv

(* IInv but for Covered. *)
Others ==
  TypeOK /\ Committed /\ Ascending /\ InHand /\ Counted /\ ProcessedWasPushed

LEMMA OthersStep == IInv /\ [Next]_vars => Others'
<1> SUFFICES ASSUME IInv, [Next]_vars PROVE Others'
  OBVIOUS
<1> USE ConstantsAssumption
    DEF IInv, Others, TypeOK, Committed, Ascending, InHand, Counted,
        ProcessedWasPushed, PC, Anchored, Streaming, Delivering, Fate, Id,
        mysql, locals, history
<1>0. Len(binlog) \in Nat /\ retry_max \in Nat
  OBVIOUS
<1>1. CASE Connect
  BY <1>1 DEF Connect
<1>2. CASE ConnectFails
  <2> USE <1>2 DEF ConnectFails, Fault
  <2>1. TypeOK'
    OBVIOUS
  <2>2. Committed' /\ Ascending'
    OBVIOUS
  <2>3. InHand' /\ Counted' /\ ProcessedWasPushed'
    OBVIOUS
  <2> QED
    BY <2>1, <2>2, <2>3
<1>3. CASE SelectLatest
  <2> USE <1>3 DEF SelectLatest, IsLatest
  <2>1. latest_id' \in table \union {0} /\ latest_id' \in {0} \union Id
    OBVIOUS
  <2>2. TypeOK' /\ Committed'
    BY <2>1
  <2>3. Ascending' /\ InHand' /\ Counted' /\ ProcessedWasPushed'
    OBVIOUS
  <2> QED
    BY <2>2, <2>3
<1>4. CASE SaveAnchor
  BY <1>0, <1>4 DEF SaveAnchor
<1>5. CASE AnchorFails
  BY <1>0, <1>5 DEF AnchorFails, Fault, ForgetLocals
<1>6. CASE FetchColumns
  BY <1>6 DEF FetchColumns
<1>7. CASE FetchColumnsFails
  BY <1>7 DEF FetchColumnsFails, Fault
<1>8. CASE OpenStream
  <2> USE <1>0, <1>8 DEF OpenStream
  <2>1. TypeOK'
    OBVIOUS
  <2>2. Committed'
    OBVIOUS
  <2>3. Ascending' /\ InHand'
    OBVIOUS
  <2>4. Counted' /\ ProcessedWasPushed'
    OBVIOUS
  <2> QED
    BY <2>1, <2>2, <2>3, <2>4
<1>9. CASE StreamFails
  BY <1>0, <1>9 DEF StreamFails, Fault, ForgetLocals
<1>10. CASE StreamReplays
  BY <1>10 DEF StreamReplays, Fault
<1>11. CASE ReadEvent
  <2> USE <1>11 DEF ReadEvent, ExtractInserted
  <2>0. /\ binlog[pos + 1] \subseteq Id
        /\ \A b \in alarms' : b \in binlog[pos + 1] /\ checkpoint < b
    OBVIOUS
  <2>1. TypeOK'
    BY <2>0, SMTT(20)
  <2>2. Committed'
    BY SMTT(20)
  <2>3. Ascending' /\ InHand'
    BY <2>0
  <2>4. Counted' /\ ProcessedWasPushed'
    OBVIOUS
  <2> QED
    BY <2>1, <2>2, <2>3, <2>4
<1>12. CASE EventDone
  BY <1>12 DEF EventDone
<1>13. CASE Diagnose
  BY <1>13 DEF Diagnose
<1>14. CASE DiagnosisFails
  <2> USE <1>14 DEF DiagnosisFails, Fault
  <2>1. TypeOK'
    OBVIOUS
  <2>2. Committed' /\ Ascending'
    OBVIOUS
  <2>3. InHand' /\ Counted' /\ ProcessedWasPushed'
    OBVIOUS
  <2> QED
    BY <2>1, <2>2, <2>3
<1>15. CASE SendMarkdown \/ SendRefused
  <2> USE <1>0, <1>15 DEF SendMarkdown, SendRefused, Fault
  <2>1. /\ alarm \in Id /\ fate[alarm] = "taken"
        /\ attempt \in 1 .. retry_max
        /\ pushes[alarm] \in 0 .. attempt - 1
    OBVIOUS
  <2>2. /\ pushes \in [Id -> Nat]
        /\ pushes' = [pushes EXCEPT ![alarm] = @ + 1]
    OBVIOUS
  <2>3. /\ pushes' \in [Id -> Nat]
        /\ pushes'[alarm] = pushes[alarm] + 1
        /\ \A a \in Id : a # alarm => pushes'[a] = pushes[a]
    <3> HIDE <1>15 DEF IInv, Others, TypeOK, Committed, Ascending, InHand,
             Counted, ProcessedWasPushed, PC, Anchored, Streaming, Delivering,
             Fate, Id, SendMarkdown, SendRefused, Fault
    <3> QED
      BY <2>1, <2>2
  <2>4. TypeOK'
    <3>1. shown' \subseteq Id
      <4>1. shown' \in {shown, shown \union {alarm}} /\ shown \subseteq Id
        OBVIOUS
      <4> HIDE DEF Id, IInv, Others, TypeOK
      <4> QED
        BY <2>1, <4>1
    <3>3. faults' \in Nat
      OBVIOUS
    <3>2. pc' \in PC
      OBVIOUS
    <3> QED
      BY <2>3, <3>1, <3>2, <3>3
  <2>7. Committed'
    OBVIOUS
  <2>8. Ascending' /\ InHand'
    OBVIOUS
  <2>5. Counted'
    <3>1. \A a \in Id : pushes'[a] <= retry_max
      <4>1. pushes'[alarm] <= retry_max
        BY <2>1, <2>3
      <4>2. \A a \in Id : a # alarm => pushes'[a] <= retry_max
        BY <2>3
      <4> QED
        BY <4>1, <4>2
    <3>2. \A a \in Id : fate'[a] = "new" => pushes'[a] = 0
      BY <2>1, <2>3
    <3>4. pc' = "save" /\ UNCHANGED <<attempt, alarm>>
      OBVIOUS
    <3>5. 0 < pushes'[alarm] /\ pushes'[alarm] <= attempt
      <4> HIDE <1>15 DEF IInv, Others, TypeOK, Committed, Ascending, InHand,
               Counted, ProcessedWasPushed, Id, SendMarkdown, SendRefused, Fault
      <4> QED
        BY <2>1, <2>3
    <3>3. /\ pc' \in {"save", "failed"} /\ UNCHANGED <<attempt, alarm>>
          /\ pc' = "save" => 0 < pushes'[alarm]
          /\ pushes'[alarm] <= attempt
      BY <3>4, <3>5
    <3> HIDE DEF IInv, Others, TypeOK, Committed, Ascending, InHand,
                 ProcessedWasPushed
    <3> QED
      BY <2>1, <3>1, <3>2, <3>3
  <2>6. ProcessedWasPushed'
    BY <2>1, <2>2, <2>3
  <2> QED
    BY <2>4, <2>5, <2>6, <2>7, <2>8
<1>16. CASE SendFails
  <2> USE <1>0, <1>16 DEF SendFails, Fault
  <2>1. /\ alarm \in Id /\ fate[alarm] = "taken"
        /\ attempt \in 1 .. retry_max
        /\ pushes[alarm] \in 0 .. attempt - 1
    BY SMTT(20)
  <2>2. pushes' \in [Id -> Nat]
    <3>1. CASE pushes' = pushes
      BY <3>1
    <3>2. CASE pushes' = [pushes EXCEPT ![alarm] = @ + 1]
      BY <2>1, <3>2
    <3> QED
      BY <3>1, <3>2
  <2>3. /\ pushes'[alarm] \in {pushes[alarm], pushes[alarm] + 1}
        /\ \A a \in Id : a # alarm => pushes'[a] = pushes[a]
    BY <2>1
  <2>4. TypeOK'
    <3>1. shown' \subseteq Id
      <4>1. shown' \in {shown, shown \union {alarm}} /\ shown \subseteq Id
        OBVIOUS
      <4> HIDE DEF Id, IInv, Others, TypeOK
      <4> QED
        BY <2>1, <4>1
    <3>3. faults' \in Nat
      OBVIOUS
    <3>2. pc' \in PC
      OBVIOUS
    <3> QED
      BY <2>2, <3>1, <3>2, <3>3
  <2>7. Committed'
    OBVIOUS
  <2>8. Ascending' /\ InHand'
    OBVIOUS
  <2>5. Counted'
    <3>1. \A a \in Id : pushes'[a] <= retry_max
      <4>1. pushes'[alarm] <= retry_max
        BY <2>1, <2>3
      <4>2. \A a \in Id : a # alarm => pushes'[a] <= retry_max
        BY <2>3
      <4> QED
        BY <4>1, <4>2
    <3>2. \A a \in Id : fate'[a] = "new" => pushes'[a] = 0
      BY <2>1, <2>3
    <3>3. /\ pc' \in {"save", "failed"} /\ UNCHANGED <<attempt, alarm>>
          /\ pc' = "save" => 0 < pushes'[alarm]
          /\ pushes'[alarm] <= attempt
      BY <2>1, <2>3
    <3> HIDE DEF IInv, Others, TypeOK, Committed, Ascending, InHand,
                 ProcessedWasPushed
    <3> QED
      BY <2>1, <3>1, <3>2, <3>3
  <2>6. ProcessedWasPushed'
    BY <2>1, <2>2, <2>3
  <2> QED
    BY <2>4, <2>5, <2>6, <2>7, <2>8
<1>17. CASE SaveCheckpoint
  <2> USE <1>17 DEF SaveCheckpoint
  <2>1. TypeOK'
    OBVIOUS
  <2>2. Committed'
    OBVIOUS
  <2>3. Ascending' /\ InHand'
    OBVIOUS
  <2>4. Counted' /\ ProcessedWasPushed'
    OBVIOUS
  <2> QED
    BY <2>1, <2>2, <2>3, <2>4
<1>30. CASE AlarmProcessed
  <2> USE <1>30 DEF AlarmProcessed
  <2>0. /\ alarm \in Id /\ fate[alarm] = "taken"
        /\ fate'[alarm] = "processed"
        /\ \A a \in Id : a # alarm => fate'[a] = fate[a]
    OBVIOUS
  <2>1. TypeOK'
    OBVIOUS
  <2>2. Committed'
    BY <2>0
  <2>3. Ascending' /\ InHand'
    OBVIOUS
  <2>4. Counted' /\ ProcessedWasPushed'
    OBVIOUS
  <2> QED
    BY <2>1, <2>2, <2>3, <2>4
<1>18. CASE SaveFails
  BY <1>18 DEF SaveFails, Fault
<1>19. CASE SleepBeforeRetry
  BY <1>19 DEF SleepBeforeRetry
<1>20. CASE Retry
  <2> USE <1>20 DEF Retry
  <2>1. TypeOK'
    OBVIOUS
  <2>2. Committed'
    OBVIOUS
  <2>3. Ascending' /\ InHand'
    OBVIOUS
  <2>4. Counted' /\ ProcessedWasPushed'
    OBVIOUS
  <2> QED
    BY <2>1, <2>2, <2>3, <2>4
<1>21. CASE RetriesExhausted
  BY <1>0, <1>21 DEF RetriesExhausted, ForgetLocals
<1>22. CASE Reconnect
  BY <1>22 DEF Reconnect
<1>23. CASE Crash
  BY <1>0, <1>23 DEF Crash, Fault, ForgetLocals
<1>24. CASE Restart
  BY <1>24 DEF Restart
<1>25. CASE RotateBinlog
  BY <1>25 DEF RotateBinlog
<1>26. ASSUME NEW rows \in SUBSET Id, Insert(rows) PROVE Others'
  <2> USE <1>0, <1>26 DEF Insert
  <2>1. /\ binlog' \in Seq(SUBSET Id)
        /\ Len(binlog') = Len(binlog) + 1
        /\ \A i \in 1 .. Len(binlog') :
             binlog'[i] = IF i <= Len(binlog) THEN binlog[i] ELSE rows
    BY SMTT(20)
  <2>2. TypeOK'
    BY <2>1, SMTT(20)
  <2>3. Committed'
    BY <2>1
  <2> QED
    BY <2>2, <2>3
<1>27. ASSUME NEW a \in Id, TakeAlarm(a) PROVE Others'
  <2> USE <1>0, <1>27 DEF TakeAlarm, First
  <2>1. fate[a] = "new"
    BY DEF Covered
  <2>2. TypeOK' /\ Committed'
    OBVIOUS
  <2>3. Ascending' /\ InHand'
    OBVIOUS
  <2>4. Counted' /\ ProcessedWasPushed'
    BY <2>1
  <2> QED
    BY <2>2, <2>3, <2>4
<1>28. ASSUME NEW a \in Id, TakeAlarmWithoutAttempt(a) PROVE Others'
  BY <1>28 DEF TakeAlarmWithoutAttempt, First, Covered
<1>29. CASE UNCHANGED vars
  BY <1>29, SMTT(20) DEF vars
<1> QED
  BY <1>1, <1>2, <1>3, <1>4, <1>5, <1>6, <1>7, <1>8, <1>9, <1>10, <1>11, <1>12, <1>13, <1>14, <1>15, <1>16, <1>17, <1>18, <1>19, <1>20, <1>21, <1>22, <1>23, <1>24, <1>25, <1>26, <1>27, <1>28, <1>29, <1>30 DEF Next, Work, Trouble

LEMMA CoveredStep == IInv /\ [Next]_vars => Covered'
<1> SUFFICES ASSUME IInv, [Next]_vars PROVE Covered'
  OBVIOUS
<1> USE DEF mysql, locals, history
<1>0. /\ \A a \in Id : a \in Int
      /\ saved \in Int /\ checkpoint \in Int /\ latest_id \in Int
      /\ fate \in [Id -> Fate] /\ alarms \subseteq Id
      /\ table \subseteq Id /\ Covered
  BY ConstantsAssumption DEF IInv, TypeOK, Id
(* Steps that enter no session and close no alarm. *)
<1>1. ASSUME UNCHANGED <<saved, checkpoint, latest_id, retry_max, fate, alarm>>,
             pc' \in Anchored \union {"save_anchor"} =>
               \/ pc' = pc
               \/ (pc' \in Anchored /\ pc \in Anchored \ {"saved"})
      PROVE  Covered'
  BY <1>0, <1>1 DEF Covered, Anchored, Streaming, Delivering
<1>2. ASSUME pc' \notin Anchored \union {"save_anchor"} PROVE Covered'
  BY <1>2 DEF Covered
<1>3. CASE SelectLatest
  <2>1. \A b \in table \union {0} : b <= latest_id'
    BY <1>3, ConstantsAssumption DEF SelectLatest, IsLatest, Id
  <2>2. saved \in table \union {0} /\ \A a \in Id : fate[a] # "new" => a \in table
    BY DEF IInv, Committed
  <2> QED
    BY <1>3, <2>1, <2>2
    DEF SelectLatest, Covered, Anchored, Streaming, Delivering
<1>4. CASE SaveAnchor
  BY <1>0, <1>4 DEF SaveAnchor, Covered, Fate
<1>5. CASE SaveCheckpoint
  <2>1. retry_max # 0
    BY <1>5 DEF SaveCheckpoint, IInv, TypeOK, Counted, Delivering
  <2> QED
    BY <1>0, <1>5, <2>1
    DEF SaveCheckpoint, Covered, Anchored, Streaming, Delivering
<1>6. CASE AlarmProcessed
  <2>1. /\ alarm \in Id /\ checkpoint < alarm /\ fate[alarm] = "taken"
        /\ retry_max # 0
    BY <1>6
    DEF AlarmProcessed, IInv, TypeOK, Ascending, InHand, Counted, Delivering
  <2>2. /\ fate'[alarm] = "processed"
        /\ \A a \in Id : a # alarm => fate'[a] = fate[a]
    BY <1>0, <1>6, <2>1 DEF AlarmProcessed
  <2>3. pc \in Anchored /\ saved <= alarm
    BY <1>0, <1>6, <2>1
    DEF AlarmProcessed, Covered, Anchored, Streaming, Delivering
  <2>4. \A a \in Id : fate[a] \notin {"new", "taken"} => a <= alarm
    BY <1>0, <2>1, <2>3 DEF Covered
  <2>5. /\ saved' = saved /\ checkpoint' = alarm /\ pc' = "next"
        /\ UNCHANGED <<latest_id, retry_max>>
    BY <1>6 DEF AlarmProcessed
  <2> QED
    BY <1>0, <2>1, <2>2, <2>3, <2>4, <2>5 DEF Covered
<1>7. ASSUME NEW c \in Id, TakeAlarm(c) PROVE Covered'
  <2>1. /\ fate'[c] = "taken"
        /\ \A a \in Id : a # c => fate'[a] = fate[a]
        /\ pc \in Anchored /\ pc = "next" /\ pc' = "diagnose"
        /\ UNCHANGED <<saved, checkpoint, latest_id, retry_max>>
    BY <1>0, <1>7 DEF TakeAlarm, Anchored, Streaming
  <2> QED
    BY <1>0, <2>1 DEF Covered
<1>8. ASSUME NEW c \in Id, TakeAlarmWithoutAttempt(c) PROVE Covered'
  <2>1. /\ fate'[c] = "processed"
        /\ \A a \in Id : a # c => fate'[a] = fate[a]
        /\ pc \in Anchored /\ pc = "next" /\ pc' = "next" /\ checkpoint' = c
        /\ UNCHANGED <<saved, latest_id, retry_max>>
        /\ checkpoint < c
    BY <1>0, <1>8
    DEF TakeAlarmWithoutAttempt, Anchored, Streaming, IInv, Ascending
  <2> QED
    BY <1>0, <2>1 DEF Covered
<1>9. CASE \/ FetchColumns \/ FetchColumnsFails \/ OpenStream
           \/ StreamReplays \/ ReadEvent \/ EventDone
           \/ Diagnose \/ DiagnosisFails \/ SendMarkdown \/ SendRefused
           \/ SendFails \/ SaveFails \/ SleepBeforeRetry \/ Retry
           \/ RotateBinlog \/ UNCHANGED vars
           \/ \E rows \in SUBSET Id : Insert(rows)
  <2>1. UNCHANGED <<saved, checkpoint, latest_id, retry_max, fate, alarm>>
    BY <1>9 DEF FetchColumns, FetchColumnsFails, OpenStream, StreamReplays,
       ReadEvent, EventDone, Diagnose, DiagnosisFails, SendMarkdown,
       SendRefused, SendFails, SaveFails, SleepBeforeRetry, Retry,
       RotateBinlog, Insert, vars
  <2>2. pc' = pc \/ (pc' \in Anchored /\ pc \in Anchored \ {"saved"})
    BY <1>9 DEF FetchColumns, FetchColumnsFails, OpenStream, StreamReplays,
       ReadEvent, EventDone, Diagnose, DiagnosisFails, SendMarkdown,
       SendRefused, SendFails, SaveFails, SleepBeforeRetry, Retry,
       RotateBinlog, Insert, vars, Anchored, Streaming, Delivering
  <2> QED
    BY <1>1, <2>1, <2>2
<1>10. CASE \/ Connect \/ ConnectFails \/ AnchorFails \/ StreamFails
            \/ RetriesExhausted \/ Reconnect \/ Crash \/ Restart
  <2>1. pc' \notin Anchored \union {"save_anchor"}
    BY <1>10 DEF Connect, ConnectFails, AnchorFails, StreamFails,
       RetriesExhausted, Reconnect, Crash, Restart, Anchored, Streaming,
       Delivering
  <2> QED
    BY <1>2, <2>1
<1> QED
  BY <1>3, <1>4, <1>5, <1>6, <1>7, <1>8, <1>9, <1>10
  DEF Next, Work, Trouble

LEMMA StepInv == IInv /\ [Next]_vars => IInv'
BY OthersStep, CoveredStep DEF IInv, Others

-----------------------------------------------------------------------------

(* The invariant holds of every behaviour. *)
THEOREM Invariance == Spec => []IInv
<1>1. Init => IInv
  BY InitInv
<1>2. IInv /\ [Next]_vars => IInv'
  BY StepInv
<1> QED
  BY <1>1, <1>2, PTL DEF Spec

(* Every variable keeps its type; attempts never exceed the limit.         *)
THEOREM TypeCorrect == Spec => []TypeOK
<1>1. IInv => TypeOK
  BY DEF IInv
<1> QED
  BY <1>1, Invariance, PTL

(* No history of crashes, reconnects, binlog replays and out-of-order      *)
(* commits makes the worker push one alarm more than retry_max times.      *)
THEOREM PushesAreBounded == Spec => []PushesBounded
<1>1. IInv => PushesBounded
  BY DEF IInv, Counted, PushesBounded
<1> QED
  BY <1>1, Invariance, PTL

(* With at least one attempt configured, processed means pushed. *)
THEOREM ProcessedAlarmsWerePushed == Spec => []ProcessedWasPushed
<1>1. IInv => ProcessedWasPushed
  BY DEF IInv
<1> QED
  BY <1>1, Invariance, PTL

(* The checkpoint file never moves backwards. *)
THEOREM SavedIsMonotone == Spec => SavedNeverDecreases
<1>1. IInv /\ [Next]_vars => [saved' >= saved]_vars
  <2> SUFFICES ASSUME IInv, Next PROVE saved' >= saved
    BY DEF vars
  <2>0. saved \in Int
    BY ConstantsAssumption DEF IInv, TypeOK, Id
  <2>1. CASE SaveAnchor
    BY <2>1 DEF SaveAnchor, IInv, Covered, TypeOK, Id
  <2>2. CASE SaveCheckpoint
    BY <2>2 DEF SaveCheckpoint, IInv, Covered, Ascending, TypeOK, Id,
                Anchored, Streaming, Delivering
  <2>3. CASE ~SaveAnchor /\ ~SaveCheckpoint
    <3>1. UNCHANGED saved
      BY <2>3 DEF Next, Work, Trouble, Insert, RotateBinlog, Connect,
         SelectLatest, FetchColumns, OpenStream, ReadEvent, EventDone,
         TakeAlarm, TakeAlarmWithoutAttempt, Diagnose, SendMarkdown,
         SendRefused, AlarmProcessed, SleepBeforeRetry, Retry, RetriesExhausted, Reconnect, Restart,
         ConnectFails, AnchorFails, FetchColumnsFails, StreamFails,
         StreamReplays, DiagnosisFails, SendFails, SaveFails, Crash
    <3> QED
      BY <2>0, <3>1
  <2> QED
    BY <2>1, <2>2, <2>3
<1> QED
  BY <1>1, Invariance, PTL DEF Spec, SavedNeverDecreases

-----------------------------------------------------------------------------
(* Nothing is passed over when ids commit in order. *)

(* Whatever is committed is in the log. *)
Logged == \A b \in table : \E i \in 1 .. Len(binlog) : b \in binlog[i]

(* What waits and what is in hand comes from the event read last. *)
FromLastEvent ==
  /\ pc = "stream" => alarms = {}
  /\ pc \in {"next"} \union Delivering => start < pos /\ alarms \subseteq binlog[pos]
  /\ pc \in Delivering => alarm \in binlog[pos]

(* A session starts with the anchor as its checkpoint. *)
StartsAtAnchor == pc \in {"columns", "open"} => checkpoint = latest_id

(* Of the rows the reader has delivered or will deliver, those between the *)
(* anchor and the checkpoint have been taken.                              *)
BelowCheckpoint ==
  pc \in Streaming /\ Decodable =>
    \A i \in start + 1 .. Len(binlog) : \A a \in binlog[i] \intersect Matching :
      latest_id < a /\ a <= checkpoint => fate[a] # "new"

(* NothingPassedOver, event by event. *)
SoFar ==
  pc \in Streaming /\ Decodable =>
    \A i \in start + 1 .. pos : \A a \in binlog[i] \intersect Matching :
      latest_id < a => a \in alarms \/ fate[a] # "new"

Followed ==
  /\ InIdOrder /\ FromLastEvent /\ StartsAtAnchor
  /\ BelowCheckpoint /\ SoFar

LEMMA FollowedInit == Init => Followed
<1> SUFFICES ASSUME Init PROVE Followed
  OBVIOUS
<1>1. Len(binlog) = 0 /\ pc = "connect"
  BY DEF Init
<1> QED
  BY <1>1 DEF Followed, InIdOrder, FromLastEvent, StartsAtAnchor,
              BelowCheckpoint, SoFar, Streaming, Delivering

(* Table and log grow together, by an event at the end. *)
LEMMA LogGrows ==
  ASSUME [Next]_vars
  PROVE  UNCHANGED <<table, binlog>> \/ \E rows \in SUBSET Id : Insert(rows)
BY DEF Next, Work, Trouble, Insert, RotateBinlog, Connect, SelectLatest,
   SaveAnchor, FetchColumns, OpenStream, ReadEvent, EventDone, TakeAlarm,
   TakeAlarmWithoutAttempt, Diagnose, SendMarkdown, SendRefused, SaveCheckpoint,
   AlarmProcessed, SleepBeforeRetry, Retry, RetriesExhausted, Reconnect, Restart,
   ConnectFails, AnchorFails, FetchColumnsFails, StreamFails, StreamReplays,
   DiagnosisFails, SendFails, SaveFails, Crash, mysql, vars

(* A log out of order stays so, and everything committed stays in the log. *)
LEMMA LogStep ==
  ASSUME IInv, [Next]_vars
  PROVE  (Logged => Logged') /\ (InIdOrder' => InIdOrder)
<1>1. CASE UNCHANGED <<table, binlog>>
  BY <1>1 DEF Logged, InIdOrder
<1>2. ASSUME NEW rows \in SUBSET Id, Insert(rows)
      PROVE  (Logged => Logged') /\ (InIdOrder' => InIdOrder)
  <2>1. /\ Len(binlog) \in Nat /\ Len(binlog') = Len(binlog) + 1
        /\ \A i \in 1 .. Len(binlog) : binlog'[i] = binlog[i]
        /\ binlog'[Len(binlog) + 1] = rows
        /\ table' = table \union rows
    BY <1>2 DEF Insert, IInv, TypeOK
  <2>2. \A i \in 1 .. Len(binlog) : i \in 1 .. Len(binlog')
    BY <2>1
  <2>3. Len(binlog) + 1 \in 1 .. Len(binlog')
    BY <2>1
  <2>4. InIdOrder' => InIdOrder
    BY <2>1, <2>2 DEF InIdOrder
  <2>5. ASSUME Logged, NEW b \in table'
        PROVE  \E i \in 1 .. Len(binlog') : b \in binlog'[i]
    <3>1. CASE b \in table
      BY <2>1, <2>2, <2>5, <3>1 DEF Logged
    <3>2. CASE b \in rows
      BY <2>1, <2>3, <3>2
    <3> QED
      BY <2>1, <2>5, <3>1, <3>2
  <2> QED
    BY <2>4, <2>5 DEF Logged
<1> QED
  BY <1>1, <1>2, LogGrows

(* A commit adds one event above all others; the reader has not seen it.   *)
LEMMA InsertFollowed ==
  ASSUME IInv, Logged, Followed, InIdOrder', NEW rows \in SUBSET Id, Insert(rows)
  PROVE  Followed'
<1> USE DEF Insert, Followed, mysql, locals, history
<1>1. /\ Len(binlog) \in Nat /\ Len(binlog') = Len(binlog) + 1
      /\ \A i \in 1 .. Len(binlog) : binlog'[i] = binlog[i]
      /\ binlog'[Len(binlog) + 1] = rows
  BY DEF IInv, TypeOK
<1>2. /\ \A i \in 1 .. Len(binlog) : binlog[i] \subseteq table
      /\ checkpoint \in table \union {0} /\ table \subseteq Id
      /\ pos \in 0 .. Len(binlog) /\ start \in 0 .. pos
      /\ checkpoint \in Int
  BY ConstantsAssumption DEF IInv, TypeOK, Committed, Id
<1>3. \A a \in rows : ~(a <= checkpoint)
  <2>1. \A a \in rows, b \in table : b < a
    <3> SUFFICES ASSUME NEW a \in rows, NEW b \in table PROVE b < a
      OBVIOUS
    <3>1. PICK i \in 1 .. Len(binlog) : b \in binlog[i]
      BY DEF Logged
    <3>2. /\ i \in 1 .. Len(binlog') /\ Len(binlog) + 1 \in 1 .. Len(binlog')
          /\ i < Len(binlog) + 1
      BY <1>1
    <3> QED
      BY <1>1, <3>1, <3>2 DEF InIdOrder
  <2> QED
    BY <1>2, <2>1, ConstantsAssumption DEF Id
<1>4. InIdOrder'
  OBVIOUS
<1>5. FromLastEvent' /\ StartsAtAnchor'
  <2>1. start \in Nat /\ pos \in 0 .. Len(binlog)
    BY <1>1, <1>2
  <2>2. StartsAtAnchor'
    BY DEF StartsAtAnchor
  <2>4. ASSUME start < pos PROVE binlog'[pos] = binlog[pos]
    <3>1. pos \in 1 .. Len(binlog)
      BY <1>1, <2>1, <2>4
    <3> QED
      BY <1>1, <3>1
  <2>5. FromLastEvent'
    BY <2>4 DEF FromLastEvent, Delivering
  <2> QED
    BY <2>2, <2>5
<1>6. BelowCheckpoint'
  <2> SUFFICES ASSUME (pc \in Streaming /\ Decodable)',
                      NEW i \in start + 1 .. Len(binlog'),
                      NEW a \in binlog'[i] \intersect Matching,
                      latest_id < a, a <= checkpoint
               PROVE  fate[a] # "new"
    BY DEF BelowCheckpoint
  <2>1. i \in start + 1 .. Len(binlog) + 1 /\ start \in Nat
    BY <1>1, <1>2
  <2>2. i # Len(binlog) + 1
    BY <1>1, <1>3
  <2>3. i \in start + 1 .. Len(binlog) /\ i \in 1 .. Len(binlog)
    BY <1>1, <2>1, <2>2
  <2>4. binlog'[i] = binlog[i]
    BY <1>1, <2>3
  <2> QED
    BY <2>3, <2>4 DEF BelowCheckpoint, Decodable
<1>7. SoFar'
  <2>1. \A i \in start + 1 .. pos : binlog'[i] = binlog[i]
    BY <1>1, <1>2
  <2> QED
    BY <2>1 DEF SoFar, Decodable
<1> QED
  BY <1>4, <1>5, <1>6, <1>7

(* What the checkpoint passes when it moves up to the row c of the event   *)
(* read last has been handled: earlier events by SoFar, rows of this event *)
(* because rows are taken in order, and later events lie above c.          *)
LEMMA CheckpointMoves ==
  ASSUME IInv, Followed, pc \in Streaming, Decodable,
         start < pos, NEW c \in binlog[pos], \A b \in alarms : c <= b,
         NEW i \in start + 1 .. Len(binlog),
         NEW a \in binlog[i] \intersect Matching,
         latest_id < a, a <= c, a # c
  PROVE  fate[a] # "new"
<1>1. /\ i \in Int /\ start \in Nat /\ pos \in 1 .. Len(binlog)
      /\ i \in 1 .. Len(binlog)
      /\ binlog[i] \subseteq Id /\ binlog[pos] \subseteq Id
  BY DEF IInv, TypeOK
<1>2. a \in Int /\ c \in Int
  BY <1>1 DEF Id
<1>3. i <= pos
  <2> SUFFICES ASSUME pos < i PROVE FALSE
    BY <1>1
  <2>1. c < a
    BY <1>1 DEF Followed, InIdOrder
  <2> QED
    BY <1>2, <2>1
<1>4. a \notin alarms
  BY <1>2
<1>5. i \in start + 1 .. pos
  BY <1>1, <1>3
<1> QED
  BY <1>4, <1>5 DEF Followed, SoFar

LEMMA FollowedStep ==
  ASSUME IInv, Logged, Followed, InIdOrder', [Next]_vars
  PROVE  Followed'
<1> USE DEF mysql, locals, history
<1>0. /\ start \in Nat /\ pos \in Nat /\ Len(binlog) \in Nat
      /\ start <= pos /\ pos <= Len(binlog)
      /\ alarms \subseteq Id /\ Id \subseteq Int
      /\ checkpoint \in Int /\ latest_id \in Int
      /\ fate \in [Id -> Fate]
      /\ \A i \in 1 .. Len(binlog) : binlog[i] \subseteq Id
  BY ConstantsAssumption DEF IInv, TypeOK, Id
(* Steps that leave the log, the reader, the rows and the checkpoint.      *)
<1>1. ASSUME UNCHANGED <<binlog, start, pos, latest_id, checkpoint, columns,
                         alarms, alarm, fate>>,
             pc' \in Streaming => pc \in Streaming,
             pc' \in {"columns", "open"} => pc \in {"columns", "open"},
             pc' \in Delivering => pc \in Delivering,
             pc' = "next" => pc = "next",
             pc' = "stream" => alarms = {}
      PROVE  Followed'
  BY <1>1 DEF Followed, InIdOrder, FromLastEvent, StartsAtAnchor,
              BelowCheckpoint, SoFar, Decodable, Delivering
(* Steps that leave the session or have not reached the reader yet. *)
<1>2. ASSUME UNCHANGED binlog, pc' \notin Streaming,
             pc' \in {"columns", "open"} => checkpoint' = latest_id'
      PROVE  Followed'
  BY <1>2 DEF Followed, InIdOrder, FromLastEvent, StartsAtAnchor,
              BelowCheckpoint, SoFar, Streaming
<1>3. ASSUME NEW rows \in SUBSET Id, Insert(rows) PROVE Followed'
  BY <1>3, InsertFollowed
<1>4. CASE \/ RotateBinlog \/ Diagnose \/ DiagnosisFails \/ SendMarkdown
           \/ SendRefused \/ SendFails \/ SaveCheckpoint \/ SaveFails
           \/ SleepBeforeRetry \/ Retry \/ EventDone \/ UNCHANGED vars
  <2>1. UNCHANGED <<binlog, start, pos, latest_id, checkpoint, columns,
                    alarms, alarm, fate>>
    BY <1>4 DEF RotateBinlog, Diagnose, DiagnosisFails, SendMarkdown,
       SendRefused, SendFails, SaveCheckpoint, SaveFails, SleepBeforeRetry,
       Retry, EventDone, vars
  <2>2. /\ pc' = pc \/ (pc \in Delivering /\ pc' \in Delivering)
                    \/ (pc = "next" /\ pc' = "stream" /\ alarms = {})
    BY <1>4 DEF RotateBinlog, Diagnose, DiagnosisFails, SendMarkdown,
       SendRefused, SendFails, SaveCheckpoint, SaveFails, SleepBeforeRetry,
       Retry, EventDone, vars,
       Delivering
  <2> QED
    BY <1>1, <2>1, <2>2 DEF Followed, FromLastEvent, Streaming, Delivering
<1>5. CASE \/ Connect \/ ConnectFails \/ SelectLatest \/ SaveAnchor
           \/ AnchorFails \/ FetchColumns \/ FetchColumnsFails \/ StreamFails
           \/ RetriesExhausted \/ Reconnect \/ Crash \/ Restart
  <2>1. UNCHANGED binlog /\ pc' \notin Streaming
    BY <1>5 DEF Connect, ConnectFails, SelectLatest, SaveAnchor, AnchorFails,
       FetchColumns, FetchColumnsFails, StreamFails, RetriesExhausted,
       Reconnect, Crash, Restart, Streaming, Delivering
  <2>2. pc' \in {"columns", "open"} => checkpoint' = latest_id'
    BY <1>5 DEF Connect, ConnectFails, SelectLatest, SaveAnchor, AnchorFails,
       FetchColumns, FetchColumnsFails, StreamFails, RetriesExhausted,
       Reconnect, Crash, Restart, Followed, StartsAtAnchor
  <2> QED
    BY <1>2, <2>1, <2>2
<1>6. CASE OpenStream
  <2> USE <1>6 DEF OpenStream
  <2>1. UNCHANGED <<binlog, latest_id, checkpoint, fate, alarms>>
        /\ checkpoint = latest_id /\ pc' = "stream" /\ alarms = {}
    BY DEF Followed, StartsAtAnchor, IInv, Ascending, Streaming, Delivering
  <2>2. InIdOrder' /\ FromLastEvent' /\ StartsAtAnchor'
    BY <2>1 DEF Followed, InIdOrder, FromLastEvent, StartsAtAnchor,
                Delivering
  <2>3. BelowCheckpoint'
    <3>1. start' \in Nat
      BY <1>0 DEF IInv, TypeOK
    <3>2. \A i \in start' + 1 .. Len(binlog) : i \in 1 .. Len(binlog)
      BY <1>0, <3>1
    <3>3. \A i \in start' + 1 .. Len(binlog) :
            \A a \in binlog[i] : ~(latest_id < a /\ a <= latest_id)
      <4> SUFFICES ASSUME NEW i \in start' + 1 .. Len(binlog), NEW a \in binlog[i]
                   PROVE  ~(latest_id < a /\ a <= latest_id)
        OBVIOUS
      <4>1. a \in Int /\ latest_id \in Int
        BY <1>0, <3>2
      <4> QED
        BY <4>1
    <3>4. /\ binlog' = binlog /\ latest_id' = latest_id
          /\ checkpoint' = latest_id /\ fate' = fate
      BY <2>1
    <3> HIDE <1>6 DEF OpenStream
    <3> SUFFICES ASSUME NEW i \in start' + 1 .. Len(binlog),
                        NEW a \in binlog[i] \intersect Matching,
                        latest_id < a, a <= latest_id
                 PROVE  FALSE
      BY <3>4 DEF BelowCheckpoint
    <3> QED
      BY <3>3
  <2>4. SoFar'
    <3>1. start' \in Nat /\ pos' = start'
      BY DEF IInv, TypeOK
    <3> QED
      BY <3>1 DEF SoFar
  <2> QED
    BY <2>2, <2>3, <2>4 DEF Followed
<1>7. CASE StreamReplays
  <2> USE <1>7 DEF StreamReplays
  <2>1. /\ UNCHANGED <<binlog, start, latest_id, checkpoint, columns, alarms,
                       alarm, fate, pc>>
        /\ pc = "stream" /\ pos' \in start .. pos - 1
    OBVIOUS
  <2>2. InIdOrder' /\ FromLastEvent' /\ StartsAtAnchor' /\ BelowCheckpoint'
    BY <2>1 DEF Followed, InIdOrder, FromLastEvent, StartsAtAnchor,
                BelowCheckpoint, Decodable, Delivering
  <2>3. \A i \in start + 1 .. pos' : i \in start + 1 .. pos
    BY <1>0, <2>1
  <2>4. SoFar'
    BY <2>1, <2>3 DEF Followed, SoFar, Decodable
  <2> QED
    BY <2>2, <2>4 DEF Followed
<1>8. CASE ReadEvent
  <2> USE <1>8 DEF ReadEvent
  <2>1. /\ UNCHANGED <<binlog, start, latest_id, checkpoint, columns, alarm,
                       fate>>
        /\ pc = "stream" /\ pc' = "next" /\ pos' = pos + 1
        /\ pos + 1 \in 1 .. Len(binlog) /\ alarms = {}
    BY <1>0 DEF Followed, FromLastEvent
  <2>2. Decodable => alarms' = {a \in binlog[pos + 1] \intersect Matching :
                                  a > checkpoint}
    BY DEF ExtractInserted
  <2>3. alarms' \subseteq binlog[pos + 1]
    BY DEF ExtractInserted
  <2>4. InIdOrder' /\ StartsAtAnchor' /\ BelowCheckpoint'
    BY <2>1 DEF Followed, InIdOrder, StartsAtAnchor, BelowCheckpoint,
                Decodable, Streaming
  <2>5. FromLastEvent'
    <3>1. start < pos'
      BY <1>0, <2>1
    <3> QED
      BY <2>1, <2>3, <3>1 DEF FromLastEvent, Delivering
  <2>6. SoFar'
    <3> SUFFICES ASSUME Decodable, NEW i \in start + 1 .. pos + 1,
                        NEW a \in binlog[i] \intersect Matching, latest_id < a
                 PROVE  a \in alarms' \/ fate[a] # "new"
      BY <2>1 DEF SoFar, Decodable
    <3>1. pc \in Streaming
      BY <2>1 DEF Streaming
    <3>2. CASE i \in start + 1 .. pos
      BY <2>1, <3>1, <3>2 DEF Followed, SoFar
    <3>3. CASE i = pos + 1
      <4>1. a \in Int
        BY <1>0, <2>1, <3>3
      <4>2. CASE a > checkpoint
        BY <2>2, <3>3, <4>2
      <4>3. CASE a <= checkpoint
        <5>1. i \in start + 1 .. Len(binlog)
          BY <1>0, <2>1, <3>3
        <5> QED
          BY <3>1, <4>3, <5>1 DEF Followed, BelowCheckpoint
      <4> QED
        BY <1>0, <4>1, <4>2, <4>3
    <3> QED
      BY <1>0, <3>2, <3>3
  <2> QED
    BY <2>4, <2>5, <2>6 DEF Followed
<1>9. ASSUME NEW c \in Id, TakeAlarm(c) PROVE Followed'
  <2> USE <1>9 DEF TakeAlarm
  <2>1. /\ UNCHANGED <<binlog, start, pos, latest_id, checkpoint, columns>>
        /\ pc = "next" /\ pc' = "diagnose" /\ alarm' = c /\ c \in alarms
        /\ alarms' = alarms \ {c}
    OBVIOUS
  <2>2. /\ fate'[c] = "taken"
        /\ \A a \in Id : a # c => fate'[a] = fate[a]
    BY <1>0
  <2>3. InIdOrder' /\ StartsAtAnchor' /\ FromLastEvent'
    BY <2>1 DEF Followed, InIdOrder, StartsAtAnchor, FromLastEvent,
                Delivering
  <2>4. Streaming' = Streaming /\ pc \in Streaming /\ pc' \in Streaming
    BY <2>1 DEF Streaming, Delivering
  <2>5. \A i \in start + 1 .. Len(binlog) : binlog[i] \subseteq Id
    BY <1>0
  <2>6. \A i \in start + 1 .. pos : i \in start + 1 .. Len(binlog)
    BY <1>0
  <2>7. \A a \in Id : fate[a] # "new" => fate'[a] # "new"
    BY <2>2
  <2>8. BelowCheckpoint'
    BY <2>1, <2>4, <2>5, <2>7 DEF Followed, BelowCheckpoint, Decodable
  <2>9. SoFar'
    <3> SUFFICES ASSUME Decodable, NEW i \in start + 1 .. pos,
                        NEW a \in binlog[i] \intersect Matching, latest_id < a
                 PROVE  a \in alarms' \/ fate'[a] # "new"
      BY <2>1 DEF SoFar, Decodable
    <3>1. a \in Id /\ (a \in alarms \/ fate[a] # "new")
      BY <2>4, <2>5, <2>6 DEF Followed, SoFar
    <3> QED
      BY <2>1, <2>2, <3>1
  <2> QED
    BY <2>3, <2>8, <2>9 DEF Followed
(* The two ways to close the alarm c: AlarmProcessed, and a retry loop     *)
(* without iterations.                                                     *)
<1>10. ASSUME NEW c \in Id, start < pos, c \in binlog[pos],
              pc \in {"next"} \union Delivering, pc' = "next",
              checkpoint' = c, \A b \in alarms : c <= b,
              alarms' = alarms \ {c},
              fate' = [fate EXCEPT ![c] = "processed"],
              UNCHANGED <<binlog, start, pos, latest_id, columns>>
       PROVE  Followed'
  <2>1. /\ fate'[c] = "processed"
        /\ \A a \in Id : a # c => fate'[a] = fate[a]
    BY <1>0, <1>10
  <2>2. InIdOrder' /\ StartsAtAnchor'
    BY <1>10 DEF Followed, InIdOrder, StartsAtAnchor
  <2>3. FromLastEvent'
    BY <1>10 DEF Followed, FromLastEvent, Delivering
  <2>4. pc \in Streaming
    BY <1>10 DEF Streaming
  <2>5. /\ \A i \in start + 1 .. Len(binlog) : binlog[i] \subseteq Id
        /\ \A i \in start + 1 .. pos : i \in start + 1 .. Len(binlog)
    BY <1>0
  <2>6. BelowCheckpoint'
    <3> SUFFICES ASSUME Decodable, NEW i \in start + 1 .. Len(binlog),
                        NEW a \in binlog[i] \intersect Matching,
                        latest_id < a, a <= c
                 PROVE  fate'[a] # "new"
      BY <1>10 DEF BelowCheckpoint, Decodable
    <3>1. CASE a = c
      BY <2>1, <3>1
    <3>2. CASE a # c
      <4>1. fate[a] # "new"
        BY <1>10, <2>4, <3>2, CheckpointMoves
      <4> QED
        BY <2>1, <2>5, <3>2, <4>1
    <3> QED
      BY <3>1, <3>2
  <2>7. SoFar'
    <3> SUFFICES ASSUME Decodable, NEW i \in start + 1 .. pos,
                        NEW a \in binlog[i] \intersect Matching, latest_id < a
                 PROVE  a \in alarms' \/ fate'[a] # "new"
      BY <1>10 DEF SoFar, Decodable
    <3>1. a \in Id /\ (a \in alarms \/ fate[a] # "new")
      BY <2>4, <2>5 DEF Followed, SoFar
    <3> QED
      BY <1>10, <2>1, <3>1
  <2> QED
    BY <2>2, <2>3, <2>6, <2>7 DEF Followed
<1>11. CASE AlarmProcessed
  <2> USE <1>11 DEF AlarmProcessed
  <2>1. /\ alarm \in Id /\ \A b \in alarms : alarm < b
    BY DEF IInv, Ascending, Delivering
  <2>2. start < pos /\ alarm \in binlog[pos]
    BY DEF Followed, FromLastEvent, Delivering
  <2>3. alarms' = alarms \ {alarm} /\ \A b \in alarms : alarm <= b
    BY <1>0, <2>1
  <2> QED
    BY <1>10, <2>1, <2>2, <2>3 DEF Delivering
<1>12. ASSUME NEW c \in Id, TakeAlarmWithoutAttempt(c) PROVE Followed'
  <2> USE <1>12 DEF TakeAlarmWithoutAttempt
  <2>1. start < pos /\ c \in binlog[pos]
    BY DEF Followed, FromLastEvent
  <2> QED
    BY <1>10, <2>1 DEF First
<1> QED
  BY <1>3, <1>4, <1>5, <1>6, <1>7, <1>8, <1>9, <1>11, <1>12
  DEF Next, Work, Trouble

(* With ids that commit in order, every matching row the reader delivers   *)
(* after the anchor waits, is in hand or was handled, whatever replays,    *)
(* failures and empty retry loops come between.                            *)
THEOREM NoRowIsPassedOver == Spec => []NothingPassedOver
<1> DEFINE J == Logged /\ (InIdOrder => Followed)
<1>1. Init => J
  BY FollowedInit DEF Init, Logged
<1>2. IInv /\ J /\ [Next]_vars => J'
  BY FollowedStep, LogStep
<1>3. IInv /\ J => NothingPassedOver
  BY DEF Followed, SoFar, NothingPassedOver, Delivered, IInv, TypeOK, Id
<1>4. Spec => []J
  <2> HIDE DEF J
  <2> QED
    BY <1>1, <1>2, Invariance, PTL DEF Spec
<1> HIDE DEF J
<1> QED
  BY <1>3, <1>4, Invariance, PTL

(* With ids that commit in order, every matching row of the session that   *)
(* the checkpoint file has risen past was pushed: the file never speaks    *)
(* for a row that was skipped, given up on or cut short.                   *)
THEOREM SavedRowsWerePushed == Spec => []SavedWasPushed
<1> DEFINE J == Logged /\ (InIdOrder => Followed)
<1>1. Init => J
  BY FollowedInit DEF Init, Logged
<1>2. IInv /\ J /\ [Next]_vars => J'
  BY FollowedStep, LogStep
<1>3. IInv /\ J => SavedWasPushed
  <2> SUFFICES ASSUME IInv, Followed, InIdOrder, Decodable, pc \in Streaming,
                      NEW i \in start + 1 .. pos,
                      NEW a \in binlog[i] \intersect Matching,
                      latest_id < a, a <= saved
               PROVE  pushes[a] > 0
    BY DEF SavedWasPushed, Delivered
  <2>1. /\ i \in start + 1 .. Len(binlog)
        /\ a \in Id /\ Id \subseteq Int
        /\ saved \in Int /\ checkpoint \in Int /\ latest_id \in Int
        /\ pc \in Anchored
        /\ retry_max \in Nat
    <3>1. Len(binlog) \in Nat /\ start \in Nat /\ pos \in 0 .. Len(binlog)
      BY DEF IInv, TypeOK
    <3>2. i \in start + 1 .. Len(binlog) /\ i \in 1 .. Len(binlog)
      BY <3>1
    <3>3. binlog[i] \subseteq Id
      BY <3>1, <3>2 DEF IInv, TypeOK
    <3> QED
      BY <3>2, <3>3, ConstantsAssumption
      DEF IInv, TypeOK, Id, Anchored
  <2>2. retry_max > 0
    BY <2>1 DEF IInv, Covered
  <2>3. ASSUME fate[a] # "new", fate[a] # "taken" PROVE pushes[a] > 0
    <3>1. fate[a] = "processed"
      BY <2>1, <2>3 DEF IInv, TypeOK, Covered, Fate
    <3> QED
      BY <2>1, <2>2, <3>1 DEF IInv, ProcessedWasPushed
  <2>4. CASE a <= checkpoint
    <3>1. fate[a] # "new"
      BY <2>1, <2>4 DEF Followed, BelowCheckpoint
    <3>2. fate[a] # "taken"
      BY <2>1, <2>4 DEF IInv, InHand, Ascending
    <3> QED
      BY <2>3, <3>1, <3>2
  <2>5. CASE a > checkpoint
    <3>1. pc = "saved" /\ saved = alarm
      BY <2>1, <2>5 DEF IInv, Covered
    <3>2. CASE a = alarm
      BY <3>1, <3>2 DEF IInv, Counted
    <3>3. CASE a # alarm
      <4>1. start < pos /\ alarm \in binlog[pos] /\ \A b \in alarms : alarm <= b
        BY <2>1, <3>1 DEF Followed, FromLastEvent, IInv, Ascending, TypeOK, Delivering
      <4>2. fate[a] # "new"
        BY <2>1, <3>1, <3>3, <4>1, CheckpointMoves
      <4>3. fate[a] # "taken"
        BY <2>1, <3>3 DEF IInv, InHand
      <4> QED
        BY <2>3, <4>2, <4>3
    <3> QED
      BY <3>2, <3>3
  <2> QED
    BY <2>1, <2>4, <2>5
<1>4. Spec => []J
  <2> HIDE DEF J
  <2> QED
    BY <1>1, <1>2, Invariance, PTL DEF Spec
<1> HIDE DEF J
<1> QED
  BY <1>3, <1>4, Invariance, PTL

-----------------------------------------------------------------------------
(* The worker implements AlarmDelivery. *)

LEMMA DeliveryInit == Init => Delivery!Init
BY ConstantsAssumption DEF Init, Delivery!Init

LEMMA DeliveryStep == IInv /\ [Next]_vars => [Delivery!Next]_(Delivery!vars)
<1> SUFFICES ASSUME IInv, [Next]_vars
             PROVE  Delivery!Next \/ UNCHANGED Delivery!vars
  OBVIOUS
<1> USE DEF history, Delivery!vars
<1>1. retry_max \in Nat
  BY ConstantsAssumption DEF IInv, TypeOK
<1>2. pc \in Delivering => alarm \in Id /\ fate[alarm] = "taken"
  BY DEF IInv, Ascending, InHand
<1>3. pc \notin Delivering => \A b \in Id : fate[b] # "taken"
  BY DEF IInv, InHand
<1>4. pc = "next" => \A a \in alarms : a \in Id /\ fate[a] = "new"
  BY <1>3 DEF IInv, TypeOK, Covered, Ascending, Anchored, Streaming,
              Delivering, Id, Fate
<1>5. ASSUME NEW a \in Id, TakeAlarm(a) PROVE Delivery!Next
  <2>1. Delivery!Take(a)
    BY <1>3, <1>4, <1>5 DEF TakeAlarm, Delivery!Take, Delivering
  <2> QED
    BY <2>1 DEF Delivery!Next
<1>6. ASSUME NEW a \in Id, TakeAlarmWithoutAttempt(a) PROVE Delivery!Next
  <2>1. Delivery!WaveThrough(a)
    BY <1>3, <1>4, <1>6
    DEF TakeAlarmWithoutAttempt, Delivery!WaveThrough, Delivering
  <2> QED
    BY <2>1 DEF Delivery!Next
<1>7. ASSUME SendMarkdown \/ SendRefused \/ SendFails
      PROVE  Delivery!Next \/ UNCHANGED Delivery!vars
  <2>1. alarm \in Id /\ fate[alarm] = "taken"
    BY <1>2, <1>7 DEF SendMarkdown, SendRefused, SendFails, Delivering
  <2>2. pushes[alarm] < retry_max
    BY <1>1, <1>7, <2>1
    DEF SendMarkdown, SendRefused, SendFails, IInv, Counted, TypeOK
  <2>3. Delivery!Push(alarm) \/ UNCHANGED Delivery!vars
    BY <1>7, <2>1, <2>2
    DEF SendMarkdown, SendRefused, SendFails, Delivery!Push
  <2> QED
    BY <2>1, <2>3 DEF Delivery!Next
<1>8. CASE AlarmProcessed
  <2>1. alarm \in Id /\ Delivery!Complete(alarm)
    BY <1>2, <1>8
    DEF AlarmProcessed, Delivery!Complete, Delivering, IInv, Counted
  <2> QED
    BY <2>1 DEF Delivery!Next
<1>9. CASE RetriesExhausted
  <2>1. alarm \in Id /\ Delivery!GiveUp(alarm)
    BY <1>2, <1>9 DEF RetriesExhausted, Delivery!GiveUp, Delivering
  <2> QED
    BY <2>1 DEF Delivery!Next
<1>10. CASE Crash
  <2>1. CASE pc \in Delivering
    <3>1. alarm \in Id /\ fate[alarm] = "taken"
      BY <1>2, <2>1
    <3>2. fate' = [fate EXCEPT ![alarm] = "interrupted"]
      BY <1>10, <2>1, <3>1 DEF Crash, IInv, TypeOK
    <3>3. Delivery!Interrupt(alarm)
      BY <1>10, <3>1, <3>2 DEF Crash, Delivery!Interrupt
    <3> QED
      BY <3>1, <3>3 DEF Delivery!Next
  <2>2. CASE pc \notin Delivering
    BY <1>10, <2>2 DEF Crash, IInv, TypeOK
  <2> QED
    BY <2>1, <2>2
<1>11. ASSUME NEW rows \in SUBSET Id, Insert(rows)
       PROVE  UNCHANGED Delivery!vars
  BY <1>11 DEF Insert
<1>12. ASSUME \/ RotateBinlog \/ Connect \/ SelectLatest \/ SaveAnchor
              \/ FetchColumns \/ OpenStream \/ ReadEvent \/ EventDone
              \/ Diagnose \/ SleepBeforeRetry \/ Retry \/ Reconnect
              \/ Restart
       PROVE  UNCHANGED Delivery!vars
  BY <1>12 DEF RotateBinlog, Connect, SelectLatest, SaveAnchor, FetchColumns,
     OpenStream, ReadEvent, EventDone, Diagnose, SleepBeforeRetry, Retry,
     Reconnect, Restart
<1>13. ASSUME \/ ConnectFails \/ AnchorFails \/ FetchColumnsFails
              \/ StreamFails \/ StreamReplays \/ DiagnosisFails
              \/ SaveCheckpoint \/ SaveFails \/ UNCHANGED vars
       PROVE  UNCHANGED Delivery!vars
  BY <1>13 DEF ConnectFails, AnchorFails, FetchColumnsFails, StreamFails,
     StreamReplays, DiagnosisFails, SaveCheckpoint, SaveFails, vars
<1> QED
  BY <1>5, <1>6, <1>7, <1>8, <1>9, <1>10, <1>11, <1>12, <1>13
  DEF Next, Work, Trouble

(* Every behaviour of the worker is one AlarmDelivery allows: each alarm   *)
(* is taken at most once, one at a time, and pushed only while in hand.    *)
THEOREM Refinement == Spec => ImplementsDelivery
<1>1. Init => Delivery!Init
  BY DeliveryInit
<1>2. IInv /\ [Next]_vars => [Delivery!Next]_(Delivery!vars)
  BY DeliveryStep
<1> QED
  BY <1>1, <1>2, Invariance, PTL DEF Spec, ImplementsDelivery, Delivery!Spec

=============================================================================
