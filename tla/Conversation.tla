---------------------------- MODULE Conversation ----------------------------
(***************************************************************************)
(* The DingTalk conversation: DingTalkChatDBAHandler in front of the SQL   *)
(* and the fault handler, with a daemon thread for every callback, and     *)
(* InMemoryPendingSqlSchemaStore, which holds per conversation the         *)
(* statement whose database the user has been asked for.                   *)
(*                                                                         *)
(*   inbox          the messages in the order of their callbacks           *)
(*   pc             per callback: where its thread stands                  *)
(*   statement      per callback: the statement run_sql works on           *)
(*   pending        _pending_schema_store._requests                        *)
(*   chat           history: the last words of the handlers, per           *)
(*                  conversation in the order in which they are shown      *)
(*   undisturbed    history: conversations in which messages were handled  *)
(*                  one after the other, every answer was shown and the    *)
(*                  process was not restarted                              *)
(*                                                                         *)
(* A statement is named after the callback that brought it, 1, 2, ...  A   *)
(* redelivered message is another callback with the same text: nothing     *)
(* here looks at message_id.                                               *)
(***************************************************************************)
EXTENDS Naturals, Sequences, SequencesExt

CONSTANTS
  ConversationId,
  MaxCallbacks,  \* how many messages arrive (bound)
  MaxFaults      \* how many answers are lost, restarts included (bound)

ASSUME ConstantsAssumption ==
  /\ MaxCallbacks \in Nat
  /\ MaxFaults \in Nat

VARIABLES inbox, pc, statement, pending, chat, undisturbed, faults

history == <<chat, undisturbed, faults>>
vars == <<inbox, pc, statement, pending, chat, undisturbed, faults>>

Callback == 1 .. MaxCallbacks

NoStatement == 0  \* None

(* What has been sent so far and can be referred to. *)
Statement == DOMAIN inbox \union {NoStatement}

(* What a message can say: a statement that starts with select; a SELECT   *)
(* that does not (WITH ...); one with a database name in front; what may   *)
(* be a database name; nothing; the prefix `SQL...' and nothing behind it; *)
(* anything else, which is how faults are described.                       *)
Text == {"select", "with", "prefixed", "name", "empty", "prefix", "fault"}

(* The statements that sqlglot parses as they are. *)
Parsable == {"select", "with"}

(* What is sent last, after which the handler returns. *)
LastWord == {"usage", "prompt", "error", "report", "diagnosis"}

PC == {"idle", "route", "read", "clear", "run", "diagnose", "done", "lost"}
        \union LastWord

conv(m) == inbox[m].conv

text(m) == inbox[m].text

Init ==
  /\ inbox = <<>>
  /\ pc = [m \in Callback |-> "idle"]
  /\ statement = [m \in Callback |-> NoStatement]
  /\ pending = [c \in ConversationId |-> NoStatement]
  /\ chat = [c \in ConversationId |-> <<>>]
  /\ undisturbed = [c \in ConversationId |-> TRUE]
  /\ faults = 0

Working(m) == pc[m] \notin {"idle", "done", "lost"}

Quiet(c) == \A m \in DOMAIN inbox : conv(m) = c => ~Working(m)

Goto(m, place) == pc' = [pc EXCEPT ![m] = place]

Fault ==
  /\ faults < MaxFaults
  /\ faults' = faults + 1

(* run_sql gets a SELECT: validate_select_only refuses everything else. *)
IsSelect(m) == text(statement[m]) \in Parsable \union {"prefixed"}

(* The statement answers an earlier question: another message brought it. *)
Resumed(m) == statement[m] \notin {NoStatement, m}

-----------------------------------------------------------------------------
(* Variants: each is one definition below with a plausible bug.  No action *)
(* uses them; each property fails with one of them in place of the         *)
(* definition it varies.                                                   *)

(* A name answers even if nothing is pending. *)
NameAlwaysAnswers(m) ==
  /\ pc[m] = "read"
  /\ statement' = [statement EXCEPT ![m] =
                     IF text(m) = "name" THEN pending[conv(m)] ELSE m]
  /\ Goto(m, IF text(m) = "name" THEN "clear" ELSE "run")
  /\ UNCHANGED <<inbox, pending, history>>

(* The request is put before its tables are named. *)
PutWithoutTables(m) ==
  /\ pc[m] = "run" /\ IsSelect(m)
  /\ pending' = [pending EXCEPT ![conv(m)] = statement[m]]
  /\ Goto(m, "prompt")
  /\ UNCHANGED <<inbox, statement, history>>

(* A pending request is kept when another statement is blocked. *)
BlockedKeepsEarlier(m) ==
  /\ pc[m] = "run" /\ text(statement[m]) \in Parsable
  /\ pending' = [pending EXCEPT ![conv(m)] =
                   IF @ = NoStatement THEN statement[m] ELSE @]
  /\ Goto(m, "prompt")
  /\ UNCHANGED <<inbox, statement, history>>

(* An exception of run_sql that ends the thread. *)
FailureNotCaught(m) ==
  /\ pc[m] = "run"
  /\ Goto(m, "lost")
  /\ UNCHANGED <<inbox, statement, pending, history>>

-----------------------------------------------------------------------------
(* _start_callback_worker: the callback is acknowledged, a thread started. *)
Deliver(c, said) ==
  /\ Len(inbox) < MaxCallbacks
  /\ inbox' = Append(inbox, [conv |-> c, text |-> said])
  /\ undisturbed' = [undisturbed EXCEPT ![c] = @ /\ Quiet(c)]
  /\ Goto(Len(inbox) + 1, "route")
  /\ UNCHANGED <<statement, pending, chat, faults>>

(* DingTalkChatDBAHandler.handle: has_pending_schema_request comes first,  *)
(* so that in a conversation with a pending request every message goes to  *)
(* the SQL handler, and without one only what starts with select does.     *)
(* The fault handler explains itself if nothing follows its prefix.        *)
Route(m) ==
  /\ pc[m] = "route"
  /\ LET sql == pending[conv(m)] # NoStatement \/ text(m) \in {"select", "prefixed"}
     IN  \/ sql /\ Goto(m, "read")
         \/ ~sql /\ text(m) # "empty" /\ Goto(m, "diagnose")
         \/ ~sql /\ text(m) \in {"empty", "fault"} /\ Goto(m, "usage")
  /\ UNCHANGED <<inbox, statement, pending, history>>

(* DingTalkSqlOptimizationHandler.handle reads the store again; a name     *)
(* answers the request it finds, without one it is taken for SQL.          *)
ReadPending(m) ==
  /\ pc[m] = "read"
  /\ LET asked == pending[conv(m)]
         answers == text(m) = "name" /\ asked # NoStatement
     IN  \/ /\ answers
            /\ statement' = [statement EXCEPT ![m] = asked]
            /\ Goto(m, "clear")
         \/ /\ ~answers /\ text(m) \notin {"empty", "prefix"}
            /\ statement' = [statement EXCEPT ![m] = m]
            /\ Goto(m, "run")
         \/ /\ text(m) \in {"empty", "prefix"}
            /\ Goto(m, "usage")
            /\ UNCHANGED statement
  /\ UNCHANGED <<inbox, pending, history>>

(* The statement has been qualified: the request is cleared, whichever it  *)
(* is by now.                                                              *)
ClearAnswered(m) ==
  /\ pc[m] = "clear"
  /\ pending' = [pending EXCEPT ![conv(m)] = NoStatement]
  /\ Goto(m, "run")
  /\ UNCHANGED <<inbox, statement, history>>

(* run_sql completes: nothing is pending any more. *)
SqlCompletes(m) ==
  /\ pc[m] = "run" /\ IsSelect(m)
  /\ pending' = [pending EXCEPT ![conv(m)] = NoStatement]
  /\ Goto(m, "report")
  /\ UNCHANGED <<inbox, statement, history>>

(* A route blocker, as the error of a FAILED task or in its report: the    *)
(* statement becomes the pending request.                                  *)
SqlBlocked(m) ==
  /\ pc[m] = "run" /\ text(statement[m]) \in Parsable
  /\ pending' = [pending EXCEPT ![conv(m)] = statement[m]]
  /\ Goto(m, "prompt")
  /\ UNCHANGED <<inbox, statement, history>>

(* A route blocker for `shop select ...': unqualified_table_names gets the *)
(* message as it is, sqlglot cannot parse it and raises outside of the     *)
(* try.  The thread ends with a log entry.                                 *)
TablesUnreadable(m) ==
  /\ pc[m] = "run" /\ text(statement[m]) = "prefixed"
  /\ Goto(m, "lost")
  /\ UNCHANGED <<inbox, statement, pending, history>>

(* run_sql raises or the task fails; what is pending stays. *)
SqlFails(m) ==
  /\ pc[m] = "run"
  /\ Goto(m, "error")
  /\ UNCHANGED <<inbox, statement, pending, history>>

(* run_diagnosis raises, fails or completes. *)
Diagnose(m) ==
  /\ pc[m] = "diagnose"
  /\ \E word \in {"error", "diagnosis"} : Goto(m, word)
  /\ UNCHANGED <<inbox, statement, pending, history>>

(* DingTalkResponder.reply_text shows the last word of the handler. *)
Answer(m) ==
  /\ pc[m] \in LastWord
  /\ chat' = [chat EXCEPT ![conv(m)] =
       Append(@, [word |-> pc[m], statement |-> statement[m], resumed |-> Resumed(m)])]
  /\ Goto(m, "done")
  /\ UNCHANGED <<inbox, statement, pending, undisturbed, faults>>

(* The sender raises: reply_text returns ok=False and nobody looks at it. *)
AnswerLost(m) ==
  /\ pc[m] \in LastWord /\ Fault
  /\ undisturbed' = [undisturbed EXCEPT ![conv(m)] = FALSE]
  /\ Goto(m, "done")
  /\ UNCHANGED <<inbox, statement, pending, chat>>

(* The process ends and is started again: threads and store are gone. *)
Restart ==
  /\ Fault
  /\ pc' = [m \in Callback |-> IF Working(m) THEN "lost" ELSE pc[m]]
  /\ pending' = [c \in ConversationId |-> NoStatement]
  /\ undisturbed' = [c \in ConversationId |-> FALSE]
  /\ UNCHANGED <<inbox, statement, chat>>

Handle(m) ==
  \/ Route(m)
  \/ ReadPending(m)
  \/ ClearAnswered(m)
  \/ SqlCompletes(m)
  \/ SqlBlocked(m)
  \/ TablesUnreadable(m)
  \/ SqlFails(m)
  \/ Diagnose(m)
  \/ Answer(m)
  \/ AnswerLost(m)

Next ==
  \/ \E c \in ConversationId, said \in Text : Deliver(c, said)
  \/ \E m \in Callback : Handle(m)
  \/ Restart

Spec == Init /\ [][Next]_vars

(* The operating system schedules each thread; run_sql and run_diagnosis   *)
(* return (EveryTaskReturns of TaskService).  No message has to arrive.    *)
FairSpec == Spec /\ \A m \in Callback : WF_vars(Handle(m))

-----------------------------------------------------------------------------
(* The variables keep their types, and what run_sql is given is a          *)
(* statement that somebody sent.                                           *)
TypeOK ==
  /\ inbox \in Seq([conv : ConversationId, text : Text])
  /\ Len(inbox) <= MaxCallbacks
  /\ pc \in [Callback -> PC]
  /\ statement \in [Callback -> Statement]
  /\ \A m \in Callback : pc[m] \in {"clear", "run"} => statement[m] # NoStatement
  /\ pending \in [ConversationId -> Statement]
  /\ chat \in [ConversationId ->
                 Seq([word : LastWord, statement : Statement, resumed : BOOLEAN])]
  /\ undisturbed \in [ConversationId -> BOOLEAN]
  /\ faults \in 0 .. MaxFaults

(* What is said after a prompt and makes it no longer the open question: a *)
(* report, another prompt, or that a database name has been accepted.      *)
Settles(said) == said.word \in {"prompt", "report"} \/ said.resumed

IsOpen(words, i) ==
  /\ words[i].word = "prompt"
  /\ \A j \in DOMAIN words : i < j => ~Settles(words[j])

(* The question that a reader of the chat takes to be open. *)
OpenQuestion(words) ==
  IF \E i \in DOMAIN words : IsOpen(words, i)
    THEN words[CHOOSE i \in DOMAIN words : IsOpen(words, i)].statement
    ELSE NoStatement

(* While the messages of a conversation are handled one after the other    *)
(* what is pending is what the chat shows as the open question: a name is  *)
(* neither taken for a fault nor applied to another statement, whatever    *)
(* failed, was asked again or diagnosed in between.                        *)
StoreMatchesChat ==
  \A c \in ConversationId :
    undisturbed[c] /\ Quiet(c) => pending[c] = OpenQuestion(chat[c])

(* Only a text that could be a statement is ever pending: qualifying it    *)
(* (which happens outside of any try) cannot raise, so that an answer to   *)
(* a prompt is not swallowed.                                              *)
PendingCanBeParsed ==
  \A c \in ConversationId : pending[c] # NoStatement => text(pending[c]) \in Parsable

(* Every callback comes to an end in which its handler has said its last   *)
(* word, or the process was restarted, or nobody could name the tables of  *)
(* a statement with a database name in front.                              *)
EveryCallbackIsAnswered ==
  \A m \in Callback :
    Working(m) ~> \/ pc[m] = "done"
                  \/ pc[m] = "lost" /\ (faults > 0 \/ text(m) = "prefixed")

(* SCHEMA_REQUIRED_MESSAGE_TEMPLATE (dingtalk/handler.py:52) tells the     *)
(* user that a database name sent as the next message continues the        *)
(* statement.  Hence: when all is quiet and the last thing shown is that   *)
(* prompt, the statement is pending.  It does not hold: another statement  *)
(* of the conversation may complete in the meantime and clear the request; *)
(* the name is then diagnosed as a fault.                                  *)
PromptIsBacked ==
  \A c \in ConversationId :
    Quiet(c) /\ chat[c] # <<>> /\ Last(chat[c]).word = "prompt"
      => pending[c] = Last(chat[c]).statement
=============================================================================
