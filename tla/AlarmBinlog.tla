---------------------------- MODULE AlarmBinlog ----------------------------
(***************************************************************************)
(* The alarm worker: chatdba/alarm_binlog.  One single-threaded process    *)
(* follows the binlog of the alarm table and, for every row that matches   *)
(* its filter, runs a diagnosis and pushes the report to a webhook.        *)
(*                                                                         *)
(*   pc            where run_alarm_binlog_service stands                   *)
(*   latest_id, checkpoint, columns, alarms, alarm, attempt                *)
(*                 its local variables (reset when a session ends: they    *)
(*                 are assigned again before they are read)                *)
(*   saved         last_success_id in the checkpoint file; 0: no file      *)
(*   table, binlog, fileStart                                              *)
(*                 the MySQL side: committed ids, insert events in commit  *)
(*                 order, and where the current binlog file starts         *)
(*   start, pos    the reader: where it was opened, and the last event it  *)
(*                 delivered                                               *)
(*   retry_max     ALARM_RETRY_MAX_ATTEMPTS of this deployment             *)
(*   pushes, shown, fate                                                   *)
(*                 history: the POSTs the robot received per alarm, the    *)
(*                 alarms the group has seen, and what became of each      *)
(*                 alarm the loop took in hand                             *)
(*   faults        how many things went wrong so far (bounded by           *)
(*                 MaxFaults)                                              *)
(*                                                                         *)
(* Time is abstract: the sleeps are steps, their lengths are left out.     *)
(***************************************************************************)
EXTENDS Integers, Sequences

CONSTANTS
  MaxId,         \* main_record_id ranges over 1 .. MaxId (bound)
  Matching,      \* the ids whose rows pass AlarmFilterSettings
  RetryLimits,   \* the values ALARM_RETRY_MAX_ATTEMPTS may have
  RowsNamed,     \* TRUE: binlog rows carry column names
  MaxFaults      \* how many things may go wrong (bound)

Id == 1 .. MaxId

ASSUME ConstantsAssumption ==
  /\ MaxId \in Nat
  /\ Matching \subseteq Id
  /\ RetryLimits \subseteq Nat
  /\ RowsNamed \in BOOLEAN
  /\ MaxFaults \in Nat

VARIABLES
  table, binlog, fileStart, start, pos,
  pc, latest_id, checkpoint, columns, alarms, alarm, attempt,
  saved, retry_max,
  pushes, shown, fate, faults

mysql   == <<table, binlog, fileStart>>
locals  == <<latest_id, checkpoint, columns, alarms, alarm, attempt,
             start, pos>>
history == <<pushes, shown, fate>>
vars    == <<table, binlog, fileStart, start, pos, pc, latest_id, checkpoint,
             columns, alarms, alarm, attempt, saved, retry_max, pushes, shown,
             fate, faults>>

(* The states in which a delivery of `alarm' is under way, ... *)
Delivering == {"diagnose", "send", "save", "saved", "failed", "retry_sleep"}
(* ... those in which the reader is open, and those in which the session   *)
(* has its anchor.                                                         *)
Streaming  == {"stream", "next"} \union Delivering
Anchored   == {"columns", "open"} \union Streaming

PC == {"down", "connect", "anchor", "save_anchor", "backoff"} \union Anchored

Fate == {"new", "taken", "processed", "given_up", "interrupted"}

(* COALESCE(MAX(main_record_id), 0) over the committed rows is m. *)
IsLatest(m) ==
  /\ \A a \in table : a <= m
  /\ m \in table \union {0}

(* AlarmBinlogRecord can be built: the column names came with the row, or  *)
(* SHOW COLUMNS gave them.                                                 *)
Decodable == RowsNamed \/ columns = "loaded"

(* ExtractInserted that forgets the checkpoint (a variant, see below). *)
ExtractAll(rows) == IF Decodable THEN rows \intersect Matching ELSE {}

(* extract_inserted_alarm_records: rows that decode, lie above the         *)
(* checkpoint the event started with, and match.                           *)
ExtractInserted(rows) ==
  IF Decodable THEN {a \in rows \intersect Matching : a > checkpoint} ELSE {}

Init ==
  /\ table = {} /\ binlog = <<>> /\ fileStart = 0
  /\ start = 0 /\ pos = 0
  /\ pc = "connect"
  /\ latest_id = 0 /\ checkpoint = 0 /\ columns = "none"
  /\ alarms = {} /\ alarm = 0 /\ attempt = 0
  /\ saved = 0
  /\ retry_max \in RetryLimits
  /\ pushes = [a \in Id |-> 0]
  /\ shown = {}
  /\ fate = [a \in Id |-> "new"]
  /\ faults = 0

(* Leaving a session forgets its local variables. *)
ForgetLocals ==
  /\ latest_id' = 0 /\ checkpoint' = 0 /\ columns' = "none"
  /\ alarms' = {} /\ alarm' = 0 /\ attempt' = 0
  /\ start' = 0 /\ pos' = 0

Fault ==
  /\ faults < MaxFaults
  /\ faults' = faults + 1

(* for alarm in alarms: a is its next element.  The rows of one INSERT are *)
(* logged in the order of their ids.                                       *)
First(a) == \A b \in alarms : a <= b

-----------------------------------------------------------------------------
(* Variants: each is one definition below with a plausible bug.  No action *)
(* uses them; each property of AlarmBinlog fails with one of them in place *)
(* of the definition it varies.                                            *)

(* SelectLatest that resumes from the file. *)
SelectSaved ==
  /\ pc = "anchor"
  /\ latest_id' = saved
  /\ pc' = "save_anchor"
  /\ UNCHANGED <<mysql, checkpoint, columns, alarms, alarm, attempt, start,
                 pos, saved, retry_max, history, faults>>

(* TakeAlarm that handles the first row of an event only. *)
TakeFirstOnly(a) ==
  /\ pc = "next" /\ a \in alarms /\ First(a)
  /\ retry_max > 0
  /\ alarms' = {}
  /\ alarm' = a
  /\ attempt' = 1
  /\ fate' = [fate EXCEPT ![a] = "taken"]
  /\ pc' = "diagnose"
  /\ UNCHANGED <<mysql, latest_id, checkpoint, columns, start, pos, saved,
                 retry_max, pushes, shown, faults>>

(* EventDone that opens the stream again for the next event. *)
EventReopens ==
  /\ pc = "next" /\ alarms = {}
  /\ pc' = "open"
  /\ UNCHANGED <<mysql, locals, saved, retry_max, history, faults>>

(* SendFails that is not noticed. *)
SendFailureSwallowed ==
  /\ pc = "send" /\ Fault
  /\ pc' = "save"
  /\ UNCHANGED <<mysql, locals, saved, retry_max, history>>

(* SleepBeforeRetry without `attempt == retry_max_attempts: raise'. *)
SleepAlways ==
  /\ pc = "failed"
  /\ pc' = "retry_sleep"
  /\ UNCHANGED <<mysql, locals, saved, retry_max, history, faults>>

(* RetriesExhausted that goes on with the next alarm. *)
ExhaustedContinues ==
  /\ pc = "failed" /\ attempt = retry_max
  /\ fate' = [fate EXCEPT ![alarm] = "given_up"]
  /\ alarm' = 0 /\ attempt' = 0
  /\ pc' = "next"
  /\ UNCHANGED <<mysql, latest_id, checkpoint, columns, alarms, start, pos,
                 saved, retry_max, pushes, shown, faults>>

-----------------------------------------------------------------------------
(* The alarm database. *)

(* A transaction that inserted `rows' commits.  Ids are drawn when a row   *)
(* is inserted and rows become visible when the transaction commits, so    *)
(* that a smaller id may commit after a larger one.                        *)
Insert(rows) ==
  /\ rows # {} /\ rows \intersect table = {}
  /\ table' = table \union rows
  /\ binlog' = Append(binlog, rows)
  /\ UNCHANGED <<fileStart, pc, locals, saved, retry_max, history, faults>>

(* The server switches to a new binlog file. *)
RotateBinlog ==
  /\ fileStart < Len(binlog)
  /\ fileStart' = Len(binlog)
  /\ UNCHANGED <<table, binlog, pc, locals, saved, retry_max, history, faults>>

-----------------------------------------------------------------------------
(* run_alarm_binlog_service: opening a session. *)

Connect ==
  /\ pc = "connect"
  /\ pc' = "anchor"
  /\ UNCHANGED <<mysql, locals, saved, retry_max, history, faults>>

(* pymysql.connect stands outside the try: its exception ends the process. *)
ConnectFails ==
  /\ pc = "connect" /\ Fault
  /\ pc' = "down"
  /\ UNCHANGED <<mysql, locals, saved, retry_max, history>>

(* anchor_to_latest_id reads the largest committed id, ... *)
SelectLatest ==
  /\ pc = "anchor"
  /\ \E m \in {0} \union Id : IsLatest(m) /\ latest_id' = m
  /\ pc' = "save_anchor"
  /\ UNCHANGED <<mysql, checkpoint, columns, alarms, alarm, attempt, start,
                 pos, saved, retry_max, history, faults>>

(* ... overwrites the checkpoint file with it and returns it.  (Nothing    *)
(* reads the loop's checkpoint between the write and the return, and a     *)
(* crash there forgets it: one step.)                                      *)
SaveAnchor ==
  /\ pc = "save_anchor"
  /\ saved' = latest_id
  /\ checkpoint' = latest_id
  /\ pc' = "columns"
  /\ UNCHANGED <<mysql, latest_id, columns, alarms, alarm, attempt, start,
                 pos, retry_max, history, faults>>

AnchorFails ==
  /\ pc \in {"anchor", "save_anchor"} /\ Fault
  /\ pc' = "backoff" /\ ForgetLocals
  /\ UNCHANGED <<mysql, saved, retry_max, history>>

FetchColumns ==
  /\ pc = "columns"
  /\ columns' = "loaded"
  /\ pc' = "open"
  /\ UNCHANGED <<mysql, latest_id, checkpoint, alarms, alarm, attempt, start,
                 pos, saved, retry_max, history, faults>>

(* A failed SHOW COLUMNS is logged and the session goes on without names. *)
FetchColumnsFails ==
  /\ pc = "columns" /\ Fault
  /\ pc' = "open"
  /\ UNCHANGED <<mysql, locals, saved, retry_max, history>>

-----------------------------------------------------------------------------
(* stream_insert_events: BinLogStreamReader gets neither a file nor a      *)
(* position, and starts at the beginning of the server's current file.     *)

OpenStream ==
  /\ pc = "open"
  /\ start' = fileStart
  /\ pos' = fileStart
  /\ pc' = "stream"
  /\ UNCHANGED <<mysql, latest_id, checkpoint, columns, alarms, alarm, attempt,
                 saved, retry_max, history, faults>>

(* The reader raises: logged, slept over, and the session starts again. *)
StreamFails ==
  /\ pc \in {"open", "stream"} /\ Fault
  /\ pc' = "backoff" /\ ForgetLocals
  /\ UNCHANGED <<mysql, saved, retry_max, history>>

(* The reader reconnects by itself and delivers events again. *)
StreamReplays ==
  /\ pc = "stream" /\ Fault
  /\ \E p \in start .. pos - 1 : pos' = p
  /\ UNCHANGED <<mysql, pc, latest_id, checkpoint, columns, alarms, alarm,
                 attempt, start, saved, retry_max, history>>

ReadEvent ==
  /\ pc = "stream"
  /\ pos < Len(binlog)
  /\ pos' = pos + 1
  /\ alarms' = ExtractInserted(binlog[pos + 1])
  /\ pc' = "next"
  /\ UNCHANGED <<mysql, latest_id, checkpoint, columns, alarm, attempt,
                 start, saved, retry_max, history, faults>>

-----------------------------------------------------------------------------
(* for alarm in alarms: *)

(* retry_deliver_alarm enters its loop. *)
TakeAlarm(a) ==
  /\ pc = "next" /\ a \in alarms /\ First(a)
  /\ retry_max > 0
  /\ alarms' = alarms \ {a}
  /\ alarm' = a
  /\ attempt' = 1
  /\ fate' = [fate EXCEPT ![a] = "taken"]
  /\ pc' = "diagnose"
  /\ UNCHANGED <<mysql, latest_id, checkpoint, columns, start, pos, saved,
                 retry_max, pushes, shown, faults>>

(* range(1, 1) is empty: retry_deliver_alarm returns without an attempt    *)
(* and the caller counts the alarm as processed.                           *)
TakeAlarmWithoutAttempt(a) ==
  /\ pc = "next" /\ a \in alarms /\ First(a)
  /\ retry_max = 0
  /\ alarms' = alarms \ {a}
  /\ fate' = [fate EXCEPT ![a] = "processed"]
  /\ checkpoint' = a
  /\ UNCHANGED <<mysql, latest_id, columns, alarm, attempt, start, pos, pc,
                 saved, retry_max, pushes, shown, faults>>

EventDone ==
  /\ pc = "next" /\ alarms = {}
  /\ pc' = "stream"
  /\ UNCHANGED <<mysql, locals, saved, retry_max, history, faults>>

-----------------------------------------------------------------------------
(* retry_deliver_alarm / deliver_alarm: one attempt. *)

Diagnose ==
  /\ pc = "diagnose"
  /\ pc' = "send"
  /\ UNCHANGED <<mysql, locals, saved, retry_max, history, faults>>

DiagnosisFails ==
  /\ pc = "diagnose" /\ Fault
  /\ pc' = "failed"
  /\ UNCHANGED <<mysql, locals, saved, retry_max, history>>

SendMarkdown ==
  /\ pc = "send"
  /\ pushes' = [pushes EXCEPT ![alarm] = @ + 1]
  /\ shown' = shown \union {alarm}
  /\ pc' = "save"
  /\ UNCHANGED <<mysql, locals, saved, retry_max, fate, faults>>

(* The robot answers HTTP 200 and refuses the message in the body: nobody  *)
(* reads the body, and the delivery goes on as if it had been shown.       *)
SendRefused ==
  /\ pc = "send" /\ Fault
  /\ pushes' = [pushes EXCEPT ![alarm] = @ + 1]
  /\ pc' = "save"
  /\ UNCHANGED <<mysql, locals, saved, retry_max, shown, fate>>

(* The POST raises: refused, or answered too late although the message was *)
(* shown.                                                                  *)
SendFails ==
  /\ pc = "send" /\ Fault
  /\ \/ UNCHANGED <<pushes, shown>>
     \/ /\ pushes' = [pushes EXCEPT ![alarm] = @ + 1]
        /\ shown' = shown \union {alarm}
  /\ pc' = "failed"
  /\ UNCHANGED <<mysql, locals, saved, retry_max, fate>>

(* AlarmCheckpointStore.save replaces the file in one rename (a crash      *)
(* before it leaves the old file), ...                                     *)
SaveCheckpoint ==
  /\ pc = "save"
  /\ saved' = alarm
  /\ pc' = "saved"
  /\ UNCHANGED <<mysql, locals, retry_max, history, faults>>

(* ... deliver_alarm and retry_deliver_alarm return, and only then the     *)
(* loop advances the checkpoint it filters by.                             *)
AlarmProcessed ==
  /\ pc = "saved"
  /\ fate' = [fate EXCEPT ![alarm] = "processed"]
  /\ checkpoint' = alarm
  /\ alarm' = 0 /\ attempt' = 0
  /\ pc' = "next"
  /\ UNCHANGED <<mysql, latest_id, columns, alarms, start, pos, saved,
                 retry_max, pushes, shown, faults>>

SaveFails ==
  /\ pc = "save" /\ Fault
  /\ pc' = "failed"
  /\ UNCHANGED <<mysql, locals, saved, retry_max, history>>

SleepBeforeRetry ==
  /\ pc = "failed" /\ attempt # retry_max
  /\ pc' = "retry_sleep"
  /\ UNCHANGED <<mysql, locals, saved, retry_max, history, faults>>

Retry ==
  /\ pc = "retry_sleep"
  /\ attempt' = attempt + 1
  /\ pc' = "diagnose"
  /\ UNCHANGED <<mysql, latest_id, checkpoint, columns, alarms, alarm, start,
                 pos, saved, retry_max, history, faults>>

(* The last attempt raises through both loops: the rest of the event and   *)
(* the session are abandoned.                                              *)
RetriesExhausted ==
  /\ pc = "failed" /\ attempt = retry_max
  /\ fate' = [fate EXCEPT ![alarm] = "given_up"]
  /\ pc' = "backoff" /\ ForgetLocals
  /\ UNCHANGED <<mysql, saved, retry_max, pushes, shown, faults>>

Reconnect ==
  /\ pc = "backoff"
  /\ pc' = "connect"
  /\ UNCHANGED <<mysql, locals, saved, retry_max, history, faults>>

-----------------------------------------------------------------------------
(* The process dies at any point, and the container runtime starts it      *)
(* again (docker-compose: restart: unless-stopped).                        *)

Crash ==
  /\ pc # "down" /\ Fault
  /\ fate' = [a \in Id |-> IF pc \in Delivering /\ a = alarm
                           THEN "interrupted" ELSE fate[a]]
  /\ pc' = "down" /\ ForgetLocals
  /\ UNCHANGED <<mysql, saved, retry_max, pushes, shown>>

Restart ==
  /\ pc = "down"
  /\ pc' = "connect"
  /\ UNCHANGED <<mysql, locals, saved, retry_max, history, faults>>

-----------------------------------------------------------------------------
Work ==
  \/ Connect \/ SelectLatest \/ SaveAnchor \/ FetchColumns \/ OpenStream
  \/ ReadEvent \/ EventDone
  \/ \E a \in Id : TakeAlarm(a) \/ TakeAlarmWithoutAttempt(a)
  \/ Diagnose \/ SendMarkdown \/ SaveCheckpoint \/ AlarmProcessed
  \/ SleepBeforeRetry \/ Retry \/ RetriesExhausted
  \/ Reconnect \/ Restart

Trouble ==
  \/ ConnectFails \/ AnchorFails \/ FetchColumnsFails
  \/ StreamFails \/ StreamReplays
  \/ DiagnosisFails \/ SendRefused \/ SendFails \/ SaveFails
  \/ Crash

Next ==
  \/ \E rows \in SUBSET Id : Insert(rows)
  \/ RotateBinlog
  \/ Work
  \/ Trouble

Spec == Init /\ [][Next]_vars

(* The worker's thread runs and its calls return; nothing is asked of the  *)
(* database or of the faults.                                              *)
FairSpec == Spec /\ WF_vars(Work)

-----------------------------------------------------------------------------
(* Properties. *)

(* The variables keep their types; the attempt counter stays within the    *)
(* configured limit.                                                       *)
TypeOK ==
  /\ table \subseteq Id
  /\ binlog \in Seq(SUBSET Id)
  /\ fileStart \in 0 .. Len(binlog)
  /\ pos \in 0 .. Len(binlog)
  /\ start \in 0 .. pos
  /\ pc \in PC
  /\ latest_id \in {0} \union Id
  /\ checkpoint \in {0} \union Id
  /\ columns \in {"none", "loaded"}
  /\ alarms \subseteq Id
  /\ alarm \in {0} \union Id
  /\ attempt \in 0 .. retry_max
  /\ saved \in {0} \union Id
  /\ retry_max \in RetryLimits
  /\ pushes \in [Id -> Nat]
  /\ shown \subseteq Id
  /\ fate \in [Id -> Fate]
  /\ faults \in Nat

(* Over the whole life of the worker, restarts, reconnects and replays of  *)
(* the binlog included, an alarm is pushed at most retry_max times: the    *)
(* only repetitions are those of one retry loop.                           *)
PushesBounded == \A a \in Id : pushes[a] <= retry_max

(* An alarm counted as processed was pushed: the robot received a POST and *)
(* answered it with HTTP 200 (what its body says is another matter, see    *)
(* ProcessedWasShown).  Left out: a deployment that configures no attempt  *)
(* at all (config.py does not exclude 0).                                  *)
ProcessedWasPushed ==
  retry_max > 0 => \A a \in Id : fate[a] = "processed" => pushes[a] > 0

(* No step moves the saved checkpoint backwards, not even re-anchoring     *)
(* after a crash, with ids that commit out of order.                       *)
SavedNeverDecreases == [][saved' >= saved]_vars

(* The rows the reader has delivered in this session, and those it will.   *)
Delivered == UNION {binlog[i] : i \in start + 1 .. pos}
Ahead     == UNION {binlog[i] : i \in pos + 1 .. Len(binlog)}

(* So far the transactions have committed in the order of their ids.       *)
InIdOrder ==
  \A i, j \in 1 .. Len(binlog) :
    i < j => \A a \in binlog[i], b \in binlog[j] : a < b

(* As long as ids commit in order, no matching row that the reader has     *)
(* delivered after the anchor is passed over: it is waiting, in hand, or   *)
(* handled.                                                                *)
NothingPassedOver ==
  InIdOrder /\ Decodable /\ pc \in Streaming =>
    \A a \in Delivered \intersect Matching :
      a > latest_id => a \in alarms \/ fate[a] # "new"

(* README.md:421: the checkpoint is saved only after the diagnosis and the *)
(* push succeeded.  As the file holds one number, this says of every row   *)
(* the session has met: as long as ids commit in order, each matching one  *)
(* the file has risen past was pushed, none was skipped or given up on.    *)
SavedWasPushed ==
  InIdOrder /\ Decodable /\ pc \in Streaming =>
    \A a \in Delivered \intersect Matching :
      latest_id < a /\ a <= saved => pushes[a] > 0

(* A matching alarm still ahead of the reader, committed in the order of   *)
(* the ids, is processed or the session ends (and with it the promise),    *)
(* whatever commits after it.                                              *)
AheadIsProcessed ==
  \A a \in Matching :
    (/\ pc \in Streaming /\ Decodable /\ InIdOrder
     /\ a \in Ahead /\ a > checkpoint)
    ~> (fate[a] = "processed" \/ pc \notin Streaming)

(* Once the faults stop, the worker ends up streaming with the binlog read *)
(* to its end: neither the retry loop nor the restart loop runs forever.   *)
CatchesUp == <>[](pc = "stream" /\ pos = Len(binlog))

(* The worker keeps the promise of AlarmDelivery. *)
Delivery == INSTANCE AlarmDelivery WITH limit <- retry_max

ImplementsDelivery == Delivery!Spec

-----------------------------------------------------------------------------
(* What the documentation says and the code does not do. *)

(* README.md:422: after a restart the worker continues from the saved      *)
(* checkpoint, so no matching alarm above it is skipped when a session     *)
(* takes its position.                                                     *)
ResumesFromCheckpoint ==
  [][pc = "save_anchor" /\ pc' = "columns" /\ saved # 0 =>
       \A a \in table \intersect Matching : a > saved => a > checkpoint']_vars

(* README.md:418: the worker handles the alarms inserted after its start,  *)
(* so in a running session the reader has delivered, or still will, every  *)
(* matching row committed since the anchor.                                *)
NewRowsReachTheReader ==
  pc \in Streaming =>
    \A a \in table \intersect Matching :
      a > latest_id => a \in Delivered \union Ahead

(* README.md:421: the checkpoint is saved only once the push succeeded, so *)
(* the group has seen the report of every alarm counted as processed.      *)
ProcessedWasShown ==
  retry_max > 0 => \A a \in Id : fate[a] = "processed" => a \in shown

=============================================================================
