----------------------------- MODULE CardStream -----------------------------
(***************************************************************************)
(* How the words of a task reach the chat: StreamingProgressBridge with    *)
(* its StreamUpdateBuffer, DingTalkResponder and the                       *)
(* DingTalkCardStreamingSender, for one message.  The message may be       *)
(* delivered more than once; each delivery is a thread (worker) of its own *)
(* and all of them share the sender's entries for the message.             *)
(*                                                                         *)
(*   onCard     the message came with callback data, which cards need      *)
(*   wordless   the message contains nothing to work on                    *)
(*   state      _states[message_id]: a card, NoCard if absent              *)
(*   rendered   per card: rendered_markdown of its _CardStreamState        *)
(*   fallback   _text_fallback_buffers[message_id]; <<>> if absent (it is  *)
(*              never stored empty)                                        *)
(*   unsent     per worker: the chunks in its StreamUpdateBuffer           *)
(*   sending    per worker: what it is about to send                       *)
(*   seen       per worker: a value read from the sender before a call     *)
(*   obj        per worker: the card it works on                           *)
(*   cards      what DingTalk shows: the text of each card, finished or    *)
(*              still being written                                        *)
(*   texts      what DingTalk shows: the text messages of the webhook      *)
(*                                                                         *)
(* A chunk is <<worker, n>>, the n-th chunk its handler produced; a text   *)
(* is a sequence of chunks.  How chunks are joined (spaces between status  *)
(* lines, control characters) is left out.  CPython 3.11 changes threads   *)
(* at calls and backward jumps only: what is one step below contains none  *)
(* that another worker could observe.                                      *)
(***************************************************************************)
EXTENDS Naturals, Sequences, SequencesExt

CONSTANTS
  MaxProgress,  \* for every delivery of the message: its progress chunks (bound)
  MaxReport,    \* chunks of a report (bound)
  MaxFaults     \* failing calls of DingTalk (bound)

ASSUME ConstantsAssumption ==
  /\ MaxProgress \in Seq(Nat)
  /\ MaxReport \in Nat
  /\ MaxFaults \in Nat

VARIABLES onCard, wordless, state, rendered, fallback,
          pc, next, said, unsent, sending, seen, obj,
          cards, texts, faults, webhookFailed, cardFailed

message == <<onCard, wordless>>
sender == <<state, rendered, fallback>>
bridge == <<said, unsent>>
local == <<sending, seen, obj>>
chat == <<cards, texts, faults, webhookFailed, cardFailed>>
vars == <<onCard, wordless, state, rendered, fallback, pc, next, said, unsent,
          sending, seen, obj, cards, texts, faults, webhookFailed, cardFailed>>

NoCard == 0

(* One thread per delivery, numbered in the order in which they start. *)
Worker == DOMAIN MaxProgress

(* The chunks a handler produces: the first reply, progress, last words. *)
ChunkNumber(w) == 1 .. MaxProgress[w] + MaxReport + 2

Chunk == UNION { {w} \X ChunkNumber(w) : w \in Worker }

PC == {"idle", "run", "report", "flush", "reply", "send", "create", "append",
       "store", "stream", "failed", "dropped", "rescued", "degrade", "finish",
       "finish_text", "pop_state", "finish_card", "done", "lost"}

Init ==
  /\ onCard = FALSE
  /\ wordless = FALSE
  /\ state = NoCard
  /\ rendered = <<>>
  /\ fallback = <<>>
  /\ pc = [w \in Worker |-> "idle"]
  /\ next = [w \in Worker |-> "idle"]
  /\ said = [w \in Worker |-> 0]
  /\ unsent = [w \in Worker |-> <<>>]
  /\ sending = [w \in Worker |-> <<>>]
  /\ seen = [w \in Worker |-> <<>>]
  /\ obj = [w \in Worker |-> NoCard]
  /\ cards = <<>>
  /\ texts = <<>>
  /\ faults = 0
  /\ webhookFailed = FALSE
  /\ cardFailed = FALSE

Goto(w, place) == pc' = [pc EXCEPT ![w] = place]

(* reply_text(chunks); the handler goes on at `after' whatever happens. *)
Reply(w, chunks, after) ==
  /\ sending' = [sending EXCEPT ![w] = chunks]
  /\ next' = [next EXCEPT ![w] = after]
  /\ Goto(w, "send")

Say(w) == said' = [said EXCEPT ![w] = @ + 1]

NextChunk(w) == <<w, said[w] + 1>>

Fault ==
  /\ faults < MaxFaults
  /\ faults' = faults + 1

-----------------------------------------------------------------------------
(* Variants: each is one definition below with a plausible bug.  No action *)
(* uses them; each property fails with one of them in place of the         *)
(* definition it varies.                                                   *)

(* flush joins and clears the chunks, but not what was added last. *)
EmitNowAlone(w) ==
  /\ pc[w] = "report" /\ said[w] <= MaxProgress[w] + MaxReport
  /\ Say(w)
  /\ Reply(w, <<NextChunk(w)>>, "report")
  /\ UNCHANGED <<message, sender, unsent, seen, obj, chat>>

(* The entry of a message stays when its card fails. *)
KeepState(w) ==
  /\ pc[w] = "failed"
  /\ Goto(w, "dropped")
  /\ UNCHANGED <<message, sender, next, bridge, local, chat>>

(* The rest of the progress is sent although nothing waits. *)
FlushAnyway(w) ==
  /\ pc[w] = "flush"
  /\ Reply(w, unsent[w], next[w])
  /\ unsent' = [unsent EXCEPT ![w] = <<>>]
  /\ UNCHANGED <<message, sender, said, seen, obj, chat>>

(* A handler that has said its last word does not finish the stream. *)
ReplyWithoutFinish(w) ==
  /\ pc[w] = "reply"
  /\ Say(w)
  /\ Reply(w, <<NextChunk(w)>>, "done")
  /\ UNCHANGED <<message, sender, unsent, seen, obj, chat>>

-----------------------------------------------------------------------------
(* The handlers (DingTalkSqlOptimizationHandler.handle, _run_streaming_    *)
(* task), as far as they send.                                             *)

(* The thread of a callback, the first of which brings the message: the    *)
(* usage text, after which the handler returns without finishing the       *)
(* stream, or the text that it has started.                                *)
Start(w) ==
  /\ pc[w] = "idle" /\ \A v \in 1 .. w - 1 : pc[v] # "idle"
  /\ IF w = 1 THEN onCard' \in BOOLEAN /\ wordless' \in BOOLEAN ELSE UNCHANGED message
  /\ Say(w)
  /\ Reply(w, <<NextChunk(w)>>, IF wordless' THEN "done" ELSE "run")
  /\ UNCHANGED <<sender, unsent, seen, obj, chat>>

(* StreamingProgressBridge.emit: the chunk waits until interval_ms have    *)
(* passed since the first one that waits.                                  *)
Emit(w) ==
  /\ pc[w] = "run" /\ said[w] <= MaxProgress[w]
  /\ Say(w)
  /\ LET chunks == Append(unsent[w], NextChunk(w))
     IN  \/ /\ unsent' = [unsent EXCEPT ![w] = chunks]
            /\ UNCHANGED <<pc, next, sending>>
         \/ /\ unsent' = [unsent EXCEPT ![w] = <<>>]
            /\ Reply(w, chunks, "run")
  /\ UNCHANGED <<message, sender, seen, obj, chat>>

(* The task completes, or else the last word is a prompt or an error. *)
TaskEnds(w) ==
  /\ pc[w] = "run"
  /\ \E place \in {"report", "flush"} :
       /\ Goto(w, place)
       /\ next' = [next EXCEPT ![w] = "reply"]
  /\ UNCHANGED <<message, sender, bridge, local, chat>>

(* An exception outside of the handler's try (TablesUnreadable of          *)
(* Conversation).                                                          *)
HandlerRaises(w) ==
  /\ pc[w] = "run"
  /\ Goto(w, "lost")
  /\ UNCHANGED <<message, sender, next, bridge, local, chat>>

(* emit_now of a chunk of the report: sent with everything that waits. *)
EmitNow(w) ==
  /\ pc[w] = "report" /\ said[w] <= MaxProgress[w] + MaxReport
  /\ Say(w)
  /\ unsent' = [unsent EXCEPT ![w] = <<>>]
  /\ Reply(w, Append(unsent[w], NextChunk(w)), "report")
  /\ UNCHANGED <<message, sender, seen, obj, chat>>

ReportEnds(w) ==
  /\ pc[w] = "report"
  /\ next' = [next EXCEPT ![w] = "finish"]
  /\ Goto(w, "flush")
  /\ UNCHANGED <<message, sender, bridge, local, chat>>

(* StreamingProgressBridge.finish. *)
BridgeFinish(w) ==
  /\ pc[w] = "flush"
  /\ \/ /\ unsent[w] # <<>>
        /\ Reply(w, unsent[w], next[w])
        /\ unsent' = [unsent EXCEPT ![w] = <<>>]
     \/ /\ unsent[w] = <<>>
        /\ Goto(w, next[w])
        /\ UNCHANGED <<unsent, next, sending>>
  /\ UNCHANGED <<message, sender, said, seen, obj, chat>>

(* The prompt or the error. *)
LastReply(w) ==
  /\ pc[w] = "reply"
  /\ Say(w)
  /\ Reply(w, <<NextChunk(w)>>, "finish")
  /\ UNCHANGED <<message, sender, unsent, seen, obj, chat>>

-----------------------------------------------------------------------------
(* DingTalkCardStreamingSender.send_markdown_chunk, called by reply_text,  *)
(* which turns its exceptions into a result that is only logged.           *)

(* The text fallback of this message has begun. *)
ToFallback(w) ==
  /\ pc[w] = "send" /\ fallback # <<>>
  /\ fallback' = fallback \o sending[w]
  /\ Goto(w, next[w])
  /\ UNCHANGED <<message, state, rendered, next, bridge, local, chat>>

(* Without callback data every chunk is a text message. *)
ToWebhook(w) ==
  /\ pc[w] = "send" /\ fallback = <<>> /\ ~onCard
  /\ \/ /\ texts' = Append(texts, sending[w])
        /\ UNCHANGED <<faults, webhookFailed>>
     \/ /\ Fault
        /\ webhookFailed' = TRUE
        /\ UNCHANGED texts
  /\ Goto(w, next[w])
  /\ UNCHANGED <<message, sender, next, bridge, local, cards, cardFailed>>

(* The entry of the message is looked up. *)
ToCard(w) ==
  /\ pc[w] = "send" /\ fallback = <<>> /\ onCard
  /\ obj' = [obj EXCEPT ![w] = state]
  /\ Goto(w, IF state = NoCard THEN "create" ELSE "append")
  /\ UNCHANGED <<message, sender, next, bridge, sending, seen, chat>>

(* create_and_send_card or ai_start; the entry is set, whatever it is by   *)
(* now.  Nobody else knows the card before.                                *)
CreateCard(w) ==
  /\ pc[w] = "create"
  /\ cards' = Append(cards, [text |-> <<>>, finished |-> FALSE])
  /\ rendered' = Append(rendered, <<>>)
  /\ state' = Len(cards) + 1
  /\ obj' = [obj EXCEPT ![w] = Len(cards) + 1]
  /\ Goto(w, "append")
  /\ UNCHANGED <<message, fallback, next, bridge, sending, seen, texts,
                 faults, webhookFailed, cardFailed>>

(* A call for the card raises. *)
CardFails(w) ==
  /\ Fault
  /\ cardFailed' = TRUE
  /\ Goto(w, "failed")
  /\ UNCHANGED <<message, sender, next, bridge, local, texts, webhookFailed>>

CreateFails(w) ==
  /\ pc[w] = "create"
  /\ CardFails(w)
  /\ UNCHANGED cards

(* rendered_markdown is read ... *)
ReadRendered(w) ==
  /\ pc[w] = "append"
  /\ seen' = [seen EXCEPT ![w] = rendered[obj[w]]]
  /\ Goto(w, "store")
  /\ UNCHANGED <<message, sender, next, bridge, sending, obj, chat>>

(* ... and written after the call of _append_markdown_chunk. *)
StoreRendered(w) ==
  /\ pc[w] = "store"
  /\ rendered' = [rendered EXCEPT ![obj[w]] = seen[w] \o sending[w]]
  /\ seen' = [seen EXCEPT ![w] = <<>>]
  /\ Goto(w, "stream")
  /\ UNCHANGED <<message, state, fallback, next, bridge, sending, obj, chat>>

Shown(k, text) == [cards EXCEPT ![k].text = @ \o text]

(* _stream_markdown_increment: the chunk alone goes to the card. *)
StreamChunk(w) ==
  /\ pc[w] = "stream"
  /\ cards' = Shown(obj[w], sending[w])
  /\ Goto(w, next[w])
  /\ UNCHANGED <<message, sender, next, bridge, local, texts, faults,
                 webhookFailed, cardFailed>>

(* The call raises, although the card may show the chunk. *)
StreamFails(w) ==
  /\ pc[w] = "stream"
  /\ CardFails(w)
  /\ cards' \in {cards, Shown(obj[w], sending[w])}

(* The entry of the message is dropped, whosever card it is by now; ... *)
DropState(w) ==
  /\ pc[w] = "failed"
  /\ state' = NoCard
  /\ Goto(w, "dropped")
  /\ UNCHANGED <<message, rendered, fallback, next, bridge, local, chat>>

(* ... what was to be on this worker's card, or without one its chunk,     *)
(* will be text ...                                                        *)
RescueText(w) ==
  /\ pc[w] = "dropped"
  /\ sending' = [sending EXCEPT ![w] = IF obj[w] = NoCard THEN @ ELSE rendered[obj[w]]]
  /\ Goto(w, "rescued")
  /\ UNCHANGED <<message, sender, next, bridge, seen, obj, chat>>

(* ... behind the fallback that _append_text_fallback finds ... *)
ReadFallback(w) ==
  /\ pc[w] = "rescued"
  /\ seen' = [seen EXCEPT ![w] = fallback]
  /\ Goto(w, "degrade")
  /\ UNCHANGED <<message, sender, next, bridge, sending, obj, chat>>

(* ... and replaces. *)
StoreFallback(w) ==
  /\ pc[w] = "degrade"
  /\ fallback' = seen[w] \o sending[w]
  /\ seen' = [seen EXCEPT ![w] = <<>>]
  /\ Goto(w, next[w])
  /\ UNCHANGED <<message, state, rendered, next, bridge, sending, obj, chat>>

-----------------------------------------------------------------------------
(* finish_markdown_stream, called by finish_stream. *)

PopFallback(w) ==
  /\ pc[w] = "finish"
  /\ sending' = [sending EXCEPT ![w] = fallback]
  /\ fallback' = <<>>
  /\ Goto(w, IF fallback = <<>> THEN "pop_state" ELSE "finish_text")
  /\ UNCHANGED <<message, state, rendered, next, bridge, seen, obj, chat>>

(* The whole fallback in one text message. *)
FinishText(w) ==
  /\ pc[w] = "finish_text"
  /\ \/ /\ texts' = Append(texts, sending[w])
        /\ UNCHANGED <<faults, webhookFailed>>
     \/ /\ Fault
        /\ webhookFailed' = TRUE
        /\ UNCHANGED texts
  /\ Goto(w, "done")
  /\ UNCHANGED <<message, sender, next, bridge, local, cards, cardFailed>>

PopState(w) ==
  /\ pc[w] = "pop_state"
  /\ obj' = [obj EXCEPT ![w] = state]
  /\ state' = NoCard
  /\ Goto(w, IF state = NoCard THEN "done" ELSE "finish_card")
  /\ UNCHANGED <<message, rendered, fallback, next, bridge, sending, seen, chat>>

(* The last increment, finished=True; a failure is only logged. *)
FinishCard(w) ==
  /\ pc[w] = "finish_card"
  /\ \/ /\ cards' = [cards EXCEPT ![obj[w]].finished = TRUE]
        /\ UNCHANGED <<faults, cardFailed>>
     \/ /\ Fault
        /\ cardFailed' = TRUE
        /\ UNCHANGED cards
  /\ Goto(w, "done")
  /\ UNCHANGED <<message, sender, next, bridge, local, texts, webhookFailed>>

Handle(w) ==
  \/ Start(w) \/ Emit(w) \/ TaskEnds(w) \/ HandlerRaises(w)
  \/ EmitNow(w) \/ ReportEnds(w) \/ BridgeFinish(w) \/ LastReply(w)
  \/ ToFallback(w) \/ ToWebhook(w) \/ ToCard(w)
  \/ CreateCard(w) \/ CreateFails(w) \/ ReadRendered(w) \/ StoreRendered(w)
  \/ StreamChunk(w) \/ StreamFails(w)
  \/ DropState(w) \/ RescueText(w) \/ ReadFallback(w) \/ StoreFallback(w)
  \/ PopFallback(w) \/ FinishText(w) \/ PopState(w) \/ FinishCard(w)

Next == \E w \in Worker : Handle(w)

Spec == Init /\ [][Next]_vars

-----------------------------------------------------------------------------
Text == Seq(Chunk)

(* The variables keep their types, and nothing empty is ever sent. *)
TypeOK ==
  /\ \A w \in Worker : pc[w] \in {"send", "create", "stream", "degrade", "finish_text"}
       => sending[w] # <<>>
  /\ message \in BOOLEAN \X BOOLEAN
  /\ state \in 0 .. Len(cards)
  /\ Len(rendered) = Len(cards)
  /\ \A k \in DOMAIN cards :
       rendered[k] \in Text /\ cards[k] \in [text : Text, finished : BOOLEAN]
  /\ fallback \in Text
  /\ pc \in [Worker -> PC] /\ next \in [Worker -> PC]
  /\ \A w \in Worker : said[w] \in {0} \union ChunkNumber(w)
  /\ unsent \in [Worker -> Text]
  /\ sending \in [Worker -> Text]
  /\ seen \in [Worker -> Text]
  /\ obj \in [Worker -> 0 .. Len(cards)]
  /\ texts \in Seq(Text)
  /\ faults \in 0 .. MaxFaults
  /\ webhookFailed \in BOOLEAN /\ cardFailed \in BOOLEAN

(* Everything the handler of w produced, in order. *)
Words(w) == [n \in 1 .. said[w] |-> <<w, n>>]

(* No other delivery of the message is under way or was. *)
Alone(w) == \A v \in Worker \ {w} : pc[v] = "idle"

(* All that the handler of w said is on the one card, or in text messages  *)
(* (in a single one if the message came with callback data).               *)
IsShown(w) ==
  \/ texts = <<>> /\ Len(cards) = 1 /\ cards[1].text = Words(w)
  \/ texts # <<>> /\ FlattenSeq(texts) = Words(w) /\ (onCard => Len(texts) = 1)

(* A message that is delivered once: when its handler is done and the      *)
(* webhook works, all that was said is there in order and in one place,    *)
(* however often its card failed in between and whatever the interval of   *)
(* the progress.  Left out: the usage text of a message without anything   *)
(* to work on, if its card fails (UsageGuidanceIsSent).                    *)
WholeAnswerIsShown ==
  \A w \in Worker :
    /\ pc[w] = "done" /\ Alone(w) /\ ~webhookFailed
    /\ wordless => ~cardFailed
    => IsShown(w)

(* The sender keeps nothing of a message whose handlers have finished the  *)
(* stream, in whatever way several deliveries of it interleave.            *)
NothingLeftBehind ==
  (\A w \in Worker : pc[w] \in {"idle", "done"}) /\ ~wordless
    => state = NoCard /\ fallback = <<>>

(* A message that is delivered once leaves no card that looks as if it     *)
(* were still being written, unless the card itself failed.                *)
EveryCardIsClosed ==
  \A w \in Worker :
    pc[w] = "done" /\ Alone(w) /\ ~wordless /\ ~cardFailed
      => \A k \in DOMAIN cards : cards[k].finished

-----------------------------------------------------------------------------
(* What the documentation says and the code does not do. *)

(* docs/superpowers/specs/2026-04-23-dingtalk-e2e-design.md:142: "Empty    *)
(* SQL: no task is created; usage guidance is sent."                       *)
UsageGuidanceIsSent ==
  \A w \in Worker :
    pc[w] = "done" /\ Alone(w) /\ ~webhookFailed /\ wordless => IsShown(w)
=============================================================================
