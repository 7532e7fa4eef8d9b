-------------------------- MODULE CardStreamProofs --------------------------
(***************************************************************************)
(* The sender of CardStream, for any number of deliveries of a message,    *)
(* chunks and failing calls.                                               *)
(*                                                                         *)
(* Types: a thread that works on a card has one, and has something to      *)
(* send.  What is kept for a message: whoever leaves something in the      *)
(* sender is followed by somebody who has still to finish the stream.      *)
(* What is shown: a message that is delivered once has all its words in    *)
(* order in what is shown, what is in hand and what waits, so that when    *)
(* nothing is in hand or waits all of them are shown.                      *)
(***************************************************************************)
EXTENDS CardStream, SequenceTheorems, NaturalsInduction, WellFoundedInduction, TLAPS

(* Inside of send_markdown_chunk. *)
Sending == {"send", "create", "append", "store", "stream", "failed", "dropped",
            "rescued", "degrade"}

Card == [text : Text, finished : BOOLEAN]

-----------------------------------------------------------------------------
(* The types. *)

(* What TypeOK says of the variables, and that cards are a sequence. *)
Typed ==
  /\ onCard \in BOOLEAN /\ wordless \in BOOLEAN
  /\ cards \in Seq(Card) /\ rendered \in Seq(Text) /\ Len(rendered) = Len(cards)
  /\ state \in 0 .. Len(cards)
  /\ fallback \in Text
  /\ pc \in [Worker -> PC] /\ next \in [Worker -> PC]
  /\ said \in [Worker -> Nat]
  /\ unsent \in [Worker -> Text]
  /\ sending \in [Worker -> Text]
  /\ seen \in [Worker -> Text]
  /\ obj \in [Worker -> 0 .. Len(cards)]
  /\ texts \in Seq(Text)
  /\ faults \in 0 .. MaxFaults
  /\ webhookFailed \in BOOLEAN /\ cardFailed \in BOOLEAN

(* The most chunks a handler has produced when it stands at a place. *)
Most(w, place) ==
  CASE place = "idle" -> 0
    [] place \in {"run", "reply"} -> MaxProgress[w] + 1
    [] place \in {"report", "flush"} -> MaxProgress[w] + MaxReport + 1
    [] OTHER -> MaxProgress[w] + MaxReport + 2

Budget(w) ==
  /\ said[w] <= Most(w, pc[w])
  /\ pc[w] \in Sending \cup {"flush"} => said[w] <= Most(w, next[w])
  /\ pc[w] # "idle" => said[w] > 0

(* A worker in the sender knows where its handler goes on. *)
Routed(w) ==
  /\ pc[w] \in Sending =>
       /\ next[w] \in {"run", "report", "reply", "finish", "done"}
       /\ next[w] = "done" => wordless
  /\ pc[w] = "flush" => next[w] \in {"reply", "finish"}

(* It has something to send, and one that works on a card has one. *)
Equipped(w) ==
  /\ pc[w] \in Sending \cup {"finish_text"} => sending[w] # <<>>
  /\ pc[w] = "create" => obj[w] = NoCard
  /\ pc[w] \in {"failed", "dropped"} => obj[w] = NoCard \/ obj[w] \in DOMAIN cards
  /\ pc[w] \in {"stream", "failed", "dropped"} /\ obj[w] # NoCard => rendered[obj[w]] # <<>>
  /\ pc[w] \in {"append", "store", "stream", "finish_card"} => obj[w] \in DOMAIN cards

(* The deliveries start one after the other. *)
Ordered == \A v, w \in Worker : v < w /\ pc[v] = "idle" => pc[w] = "idle"

Inv ==
  /\ Typed /\ Ordered
  /\ \A w \in Worker : Budget(w) /\ Routed(w) /\ Equipped(w)

LEMMA Workers ==
  /\ Worker = 1 .. Len(MaxProgress) /\ Len(MaxProgress) \in Nat
  /\ MaxReport \in Nat /\ MaxFaults \in Nat
  /\ \A w \in Worker : MaxProgress[w] \in Nat /\ MaxProgress[w] + MaxReport + 2 \in Nat
BY ConstantsAssumption DEF Worker

LEMMA ChunkType ==
  ASSUME NEW w \in Worker, NEW n \in Nat, n > 0, n <= MaxProgress[w] + MaxReport + 2
  PROVE  <<w, n>> \in Chunk
<1>1. n \in ChunkNumber(w)
  BY Workers DEF ChunkNumber
<1>2. <<w, n>> \in {w} \X ChunkNumber(w)
  BY <1>1
<1> QED
  BY <1>2 DEF Chunk

LEMMA NextChunkType ==
  ASSUME Inv, NEW w \in Worker,
         \/ pc[w] \in {"idle", "reply"}
         \/ pc[w] = "run" /\ said[w] <= MaxProgress[w]
         \/ pc[w] = "report" /\ said[w] <= MaxProgress[w] + MaxReport
  PROVE  NextChunk(w) \in Chunk /\ said[w] + 1 <= MaxProgress[w] + MaxReport + 2
<1>1. said[w] \in Nat /\ Budget(w)
  BY DEF Inv, Typed
<1>2. said[w] + 1 <= MaxProgress[w] + MaxReport + 2
  BY <1>1, Workers DEF Budget, Most
<1> QED
  BY <1>1, <1>2, ChunkType DEF NextChunk

LEMMA Texts ==
  /\ <<>> \in Text
  /\ \A c \in Chunk : <<c>> \in Text /\ <<c>> # <<>>
  /\ \A s \in Text, c \in Chunk : Append(s, c) \in Text /\ Append(s, c) # <<>>
  /\ \A s, t \in Text : s \o t \in Text
  /\ \A s, t \in Text : t # <<>> => s \o t # <<>>
<1>1. \A s \in Text, c \in Chunk : Append(s, c) \in Text /\ Append(s, c) # <<>>
  BY AppendProperties DEF Text
<1>2. \A s, t \in Text : s \o t \in Text
  BY ConcatProperties DEF Text
<1>3. \A s, t \in Text : t # <<>> => s \o t # <<>>
  BY ConcatEqualIffEmpty DEF Text
<1>4. <<>> \in Text /\ \A c \in Chunk : <<c>> \in Text /\ <<c>> # <<>>
  BY DEF Text
<1> QED
  BY <1>1, <1>2, <1>3, <1>4

-----------------------------------------------------------------------------

LEMMA InitInv == Init => Inv
<1> SUFFICES ASSUME Init PROVE Inv
  OBVIOUS
<1> USE DEF Init
<1>1. Typed
  <2>1. Len(<<>>) = 0 /\ \A S : <<>> \in Seq(S)
    OBVIOUS
  <2>2. "idle" \in PC /\ 0 \in 0 .. 0 /\ 0 \in 0 .. MaxFaults /\ <<>> \in Text
    BY Workers, Texts DEF PC
  <2> QED
    BY <2>1, <2>2 DEF Typed, NoCard
<1>2. Ordered
  BY DEF Ordered
<1>3. ASSUME NEW w \in Worker PROVE Budget(w) /\ Routed(w) /\ Equipped(w)
  BY DEF Budget, Most, Routed, Equipped, Sending
<1> QED
  BY <1>1, <1>2, <1>3 DEF Inv

(* A step of w leaves the other workers alone. *)
LEMMA StepIsLocal ==
  ASSUME Typed, NEW w \in Worker, Handle(w)
  PROVE  \A v \in Worker \ {w} :
           /\ pc'[v] = pc[v] /\ next'[v] = next[v] /\ said'[v] = said[v]
           /\ unsent'[v] = unsent[v] /\ sending'[v] = sending[v]
           /\ seen'[v] = seen[v] /\ obj'[v] = obj[v]
<1> USE DEF Typed, Goto, Reply, Say, bridge, local
<1>1. CASE Start(w) \/ Emit(w) \/ TaskEnds(w) \/ HandlerRaises(w)
  BY <1>1 DEF Start, Emit, TaskEnds, HandlerRaises
<1>2. CASE EmitNow(w) \/ ReportEnds(w) \/ BridgeFinish(w) \/ LastReply(w)
  BY <1>2 DEF EmitNow, ReportEnds, BridgeFinish, LastReply
<1>3. CASE ToFallback(w) \/ ToWebhook(w) \/ ToCard(w) \/ CreateCard(w)
  BY <1>3 DEF ToFallback, ToWebhook, ToCard, CreateCard
<1>4. CASE CreateFails(w) \/ ReadRendered(w) \/ StoreRendered(w) \/ StreamChunk(w)
  BY <1>4 DEF CreateFails, ReadRendered, StoreRendered, StreamChunk, CardFails
<1>7. CASE DropState(w) \/ RescueText(w) \/ ReadFallback(w)
  BY <1>7 DEF DropState, RescueText, ReadFallback
<1>5. CASE StreamFails(w) \/ StoreFallback(w) \/ PopFallback(w)
  BY <1>5 DEF StreamFails,
     DropState, RescueText, ReadFallback, StoreFallback, PopFallback, CardFails
<1>6. CASE FinishText(w) \/ PopState(w) \/ FinishCard(w)
  BY <1>6 DEF FinishText, PopState, FinishCard
<1> QED
  BY <1>1, <1>2, <1>3, <1>4, <1>5, <1>6, <1>7 DEF Handle

LEMMA Places ==
  /\ Sending \cup {"idle", "run", "report", "flush", "reply", "finish", "finish_text",
                   "pop_state", "finish_card", "done", "lost"} = PC
  /\ {"run", "report", "reply", "finish", "done"} \subseteq PC
BY DEF Sending, PC

(* Where the handler of w stands and goes on after a step, and what it     *)
(* has said.                                                               *)
LEMMA ControlStep ==
  ASSUME Inv, NEW w \in Worker, Handle(w)
  PROVE  /\ pc' \in [Worker -> PC] /\ next' \in [Worker -> PC]
         /\ said' \in [Worker -> Nat]
         /\ pc'[w] # "idle"
         /\ Budget(w)' /\ Routed(w)'
<1> USE DEF Goto, Reply, Say, bridge, local
<1>1. /\ pc \in [Worker -> PC] /\ next \in [Worker -> PC] /\ said \in [Worker -> Nat]
      /\ Budget(w) /\ Routed(w) /\ said[w] \in Nat
  BY DEF Inv, Typed
<1>2. MaxProgress[w] \in Nat /\ MaxReport \in Nat
  BY Workers
<1> DEFINE m == MaxProgress[w]
<1>3. CASE Start(w)
  <2>1. /\ pc[w] = "idle" /\ pc' = [pc EXCEPT ![w] = "send"]
        /\ said' = [said EXCEPT ![w] = said[w] + 1]
        /\ next' = [next EXCEPT ![w] = IF wordless' THEN "done" ELSE "run"]
    BY <1>3 DEF Start
  <2> QED
    BY <1>1, <1>2, <2>1, Places DEF Budget, Most, Routed, Sending
<1>4. CASE Emit(w)
  <2>1. /\ pc[w] = "run" /\ said[w] <= m /\ wordless' = wordless
        /\ said' = [said EXCEPT ![w] = said[w] + 1]
        /\ \/ pc' = pc /\ next' = next
           \/ pc' = [pc EXCEPT ![w] = "send"] /\ next' = [next EXCEPT ![w] = "run"]
    BY <1>4 DEF Emit, message
  <2> QED
    BY <1>1, <1>2, <2>1, Places DEF Budget, Most, Routed, Sending
<1>5. CASE TaskEnds(w)
  <2>1. /\ pc[w] = "run" /\ said' = said /\ next' = [next EXCEPT ![w] = "reply"]
        /\ \E place \in {"report", "flush"} : pc' = [pc EXCEPT ![w] = place]
    BY <1>5 DEF TaskEnds
  <2> QED
    BY <1>1, <1>2, <2>1, Places DEF Budget, Most, Routed, Sending
<1>6. CASE HandlerRaises(w)
  <2>1. /\ pc[w] = "run" /\ said' = said /\ next' = next /\ pc' = [pc EXCEPT ![w] = "lost"]
    BY <1>6 DEF HandlerRaises
  <2> QED
    BY <1>1, <1>2, <2>1, Places DEF Budget, Most, Routed, Sending
<1>7. CASE EmitNow(w)
  <2>1. /\ pc[w] = "report" /\ said[w] <= m + MaxReport /\ wordless' = wordless
        /\ said' = [said EXCEPT ![w] = said[w] + 1]
        /\ pc' = [pc EXCEPT ![w] = "send"] /\ next' = [next EXCEPT ![w] = "report"]
    BY <1>7 DEF EmitNow, message
  <2> QED
    BY <1>1, <1>2, <2>1, Places DEF Budget, Most, Routed, Sending
<1>8. CASE ReportEnds(w)
  <2>1. /\ pc[w] = "report" /\ said' = said /\ next' = [next EXCEPT ![w] = "finish"]
        /\ pc' = [pc EXCEPT ![w] = "flush"]
    BY <1>8 DEF ReportEnds
  <2> QED
    BY <1>1, <1>2, <2>1, Places DEF Budget, Most, Routed, Sending
<1>9. CASE BridgeFinish(w)
  <2>1. /\ pc[w] = "flush" /\ said' = said /\ wordless' = wordless
        /\ next'[w] = next[w] /\ next' \in [Worker -> PC]
        /\ pc' = [pc EXCEPT ![w] = "send"] \/ pc' = [pc EXCEPT ![w] = next[w]]
    BY <1>1, <1>9 DEF BridgeFinish, message
  <2> QED
    BY <1>1, <1>2, <2>1, Places DEF Budget, Most, Routed, Sending
<1>10. CASE LastReply(w)
  <2>1. /\ pc[w] = "reply" /\ said' = [said EXCEPT ![w] = said[w] + 1]
        /\ pc' = [pc EXCEPT ![w] = "send"] /\ next' = [next EXCEPT ![w] = "finish"]
    BY <1>10 DEF LastReply
  <2> QED
    BY <1>1, <1>2, <2>1, Places DEF Budget, Most, Routed, Sending
<1> DEFINE Inside ==
      /\ pc[w] \in Sending /\ said' = said /\ next' = next /\ wordless' = wordless
      /\ \E place \in Sending \cup {next[w]} : pc' = [pc EXCEPT ![w] = place]
<1>11. ASSUME Inside PROVE pc' \in [Worker -> PC] /\ pc'[w] # "idle" /\ Budget(w)' /\ Routed(w)'
  BY <1>1, <1>2, <1>11, Places DEF Budget, Most, Routed, Sending
<1>12. CASE ToFallback(w) \/ ToWebhook(w) \/ ToCard(w) \/ CreateCard(w)
  <2>1. Inside
    BY <1>12 DEF ToFallback, ToWebhook, ToCard, CreateCard, Sending, message
  <2> QED
    BY <1>1, <1>11, <2>1
<1>13. CASE CreateFails(w) \/ ReadRendered(w) \/ StoreRendered(w)
  <2>1. Inside
    BY <1>13 DEF CreateFails, ReadRendered, StoreRendered, CardFails, Sending, message
  <2> QED
    BY <1>1, <1>11, <2>1
<1>14. CASE StreamChunk(w) \/ StreamFails(w) \/ StoreFallback(w)
  <2>1. Inside
    BY <1>14 DEF StreamChunk, StreamFails,
     DropState, RescueText, ReadFallback, StoreFallback, CardFails, Sending, message
  <2> QED
    BY <1>1, <1>11, <2>1
<1>16. CASE DropState(w) \/ RescueText(w) \/ ReadFallback(w)
  <2>1. Inside
    BY <1>16 DEF DropState, RescueText, ReadFallback, Sending, message
  <2> QED
    BY <1>1, <1>11, <2>1
<1>15. CASE PopFallback(w) \/ FinishText(w) \/ PopState(w) \/ FinishCard(w)
  <2>1. /\ pc[w] \in {"finish", "finish_text", "pop_state", "finish_card"}
        /\ said' = said /\ next' = next
        /\ \E place \in {"pop_state", "finish_text", "finish_card", "done"} :
             pc' = [pc EXCEPT ![w] = place]
    BY <1>15 DEF PopFallback, FinishText, PopState, FinishCard
  <2> QED
    BY <1>1, <1>2, <2>1, Places DEF Budget, Most, Routed, Sending
<1> QED
  BY <1>3, <1>4, <1>5, <1>6, <1>7, <1>8, <1>9, <1>10, <1>12, <1>13, <1>14, <1>15, <1>16 DEF Handle

(* What w has and sends stays a text. *)
LEMMA HandlerTypes ==
  ASSUME Inv, NEW w \in Worker,
         \/ Start(w) \/ Emit(w) \/ TaskEnds(w) \/ HandlerRaises(w)
         \/ EmitNow(w) \/ ReportEnds(w) \/ BridgeFinish(w) \/ LastReply(w)
  PROVE  /\ unsent' \in [Worker -> Text] /\ sending' \in [Worker -> Text]
         /\ onCard' \in BOOLEAN /\ wordless' \in BOOLEAN
         /\ pc'[w] = "send" => sending'[w] # <<>>
         /\ pc'[w] \notin {"create", "append", "store", "stream", "failed", "dropped",
                           "rescued", "degrade", "finish_text", "finish_card"}
         /\ UNCHANGED <<sender, seen, obj, chat>>
<1> USE DEF Goto, Reply, Say, sender, chat
<1>1. /\ pc \in [Worker -> PC] /\ next \in [Worker -> PC]
      /\ unsent \in [Worker -> Text] /\ sending \in [Worker -> Text]
      /\ unsent[w] \in Text
      /\ onCard \in BOOLEAN /\ wordless \in BOOLEAN /\ Routed(w) /\ Equipped(w)
  BY DEF Inv, Typed
<1>2. CASE Start(w)
  <2>1. NextChunk(w) \in Chunk
    BY <1>2, NextChunkType DEF Start
  <2>2. <<NextChunk(w)>> \in Text /\ <<NextChunk(w)>> # <<>>
    BY <2>1, Texts
  <2> QED
    BY <1>1, <1>2, <2>2 DEF Start, message
<1>3. CASE Emit(w)
  <2>1. NextChunk(w) \in Chunk
    BY <1>3, NextChunkType DEF Emit
  <2>2. Append(unsent[w], NextChunk(w)) \in Text /\ Append(unsent[w], NextChunk(w)) # <<>>
    BY <1>1, <2>1, Texts
  <2> QED
    BY <1>1, <1>3, <2>2, Texts DEF Emit, message
<1>4. CASE TaskEnds(w) \/ HandlerRaises(w) \/ ReportEnds(w)
  BY <1>1, <1>4 DEF TaskEnds, HandlerRaises, ReportEnds, message, bridge, local
<1>5. CASE EmitNow(w)
  <2>1. NextChunk(w) \in Chunk
    BY <1>5, NextChunkType DEF EmitNow
  <2>2. Append(unsent[w], NextChunk(w)) \in Text /\ Append(unsent[w], NextChunk(w)) # <<>>
    BY <1>1, <2>1, Texts
  <2> QED
    BY <1>1, <1>5, <2>2, Texts DEF EmitNow, message
<1>6. CASE BridgeFinish(w)
  BY <1>1, <1>6, Texts DEF BridgeFinish, message, Routed
<1>7. CASE LastReply(w)
  <2>1. NextChunk(w) \in Chunk
    BY <1>7, NextChunkType DEF LastReply
  <2>2. <<NextChunk(w)>> \in Text /\ <<NextChunk(w)>> # <<>>
    BY <2>1, Texts
  <2> QED
    BY <1>1, <1>7, <2>2 DEF LastReply, message
<1> QED
  BY <1>2, <1>3, <1>4, <1>5, <1>6, <1>7

(* A new card. *)
LEMMA NewCard ==
  ASSUME Typed
  PROVE  LET c == Append(cards, [text |-> <<>>, finished |-> FALSE])
             r == Append(rendered, <<>>)
         IN  /\ c \in Seq(Card) /\ r \in Seq(Text)
             /\ Len(c) = Len(cards) + 1 /\ Len(r) = Len(rendered) + 1
             /\ DOMAIN cards = 1 .. Len(cards) /\ DOMAIN c = 1 .. Len(cards) + 1
             /\ Len(cards) \in Nat
             /\ \A k \in DOMAIN cards : c[k] = cards[k] /\ r[k] = rendered[k]
             /\ c[Len(cards) + 1] = [text |-> <<>>, finished |-> FALSE]
             /\ r[Len(cards) + 1] = <<>>
<1>1. [text |-> <<>>, finished |-> FALSE] \in Card /\ <<>> \in Text
  BY Texts DEF Card
<1>2. cards \in Seq(Card) /\ rendered \in Seq(Text) /\ Len(rendered) = Len(cards)
  BY DEF Typed
<1>3. Len(cards) \in Nat /\ DOMAIN cards = 1 .. Len(cards)
  BY <1>2, LenProperties
<1> DEFINE c == Append(cards, [text |-> <<>>, finished |-> FALSE])
           r == Append(rendered, <<>>)
<1>4. /\ c \in Seq(Card) /\ Len(c) = Len(cards) + 1
      /\ \A k \in 1 .. Len(cards) : c[k] = cards[k]
      /\ c[Len(cards) + 1] = [text |-> <<>>, finished |-> FALSE]
  BY <1>1, <1>2, AppendProperties
<1>5. /\ r \in Seq(Text) /\ Len(r) = Len(rendered) + 1
      /\ \A k \in 1 .. Len(rendered) : r[k] = rendered[k]
      /\ r[Len(rendered) + 1] = <<>>
  BY <1>1, <1>2, AppendProperties
<1> HIDE DEF c, r
<1>6. DOMAIN c = 1 .. Len(cards) + 1
  BY <1>4, LenProperties
<1> QED
  BY <1>2, <1>3, <1>4, <1>5, <1>6 DEF c, r

(* A card that changes. *)
LEMMA ShownType ==
  ASSUME Typed, NEW k \in DOMAIN cards, NEW t \in Text
  PROVE  /\ Shown(k, t) \in Seq(Card) /\ Len(Shown(k, t)) = Len(cards)
         /\ Shown(k, t)[k].text = cards[k].text \o t
         /\ Shown(k, t)[k].finished = cards[k].finished
         /\ cards[k].text \in Text
<1>1. cards \in Seq(Card) /\ cards[k] \in Card
  BY DEF Typed
<1>2. cards[k].text \o t \in Text /\ cards[k].text \in Text
  BY <1>1, Texts DEF Card
<1> DEFINE e == [cards[k] EXCEPT !.text = @ \o t]
<1>3. e \in Card /\ e.text = cards[k].text \o t /\ e.finished = cards[k].finished
  BY <1>1, <1>2 DEF Card
<1>4. Shown(k, t) = [cards EXCEPT ![k] = e]
  BY DEF Shown
<1> HIDE DEF e
<1> QED
  BY <1>1, <1>2, <1>3, <1>4

LEMMA FinishedType ==
  ASSUME Typed, NEW k \in DOMAIN cards
  PROVE  LET c == [cards EXCEPT ![k].finished = TRUE]
         IN  /\ c \in Seq(Card) /\ Len(c) = Len(cards)
             /\ c[k].text = cards[k].text /\ c[k].finished = TRUE
<1>1. cards \in Seq(Card) /\ cards[k] \in Card
  BY DEF Typed
<1> DEFINE e == [cards[k] EXCEPT !.finished = TRUE]
<1>3. e \in Card /\ e.text = cards[k].text /\ e.finished = TRUE
  BY <1>1 DEF Card
<1> DEFINE c == [cards EXCEPT ![k].finished = TRUE]
<1>4. c = [cards EXCEPT ![k] = e]
  OBVIOUS
<1> HIDE DEF e, c
<1>5. c \in Seq(Card) /\ Len(c) = Len(cards) /\ c[k] = e
  BY <1>1, <1>3, <1>4
<1> QED
  BY <1>3, <1>5 DEF c

(* What the sender and the chat keep stays of its type. *)
LEMMA SenderTypes ==
  ASSUME Inv, NEW w \in Worker,
         \/ ToFallback(w) \/ ToWebhook(w) \/ ToCard(w)
         \/ CreateCard(w) \/ CreateFails(w) \/ ReadRendered(w) \/ StoreRendered(w)
         \/ StreamChunk(w) \/ StreamFails(w)
         \/ DropState(w) \/ RescueText(w) \/ ReadFallback(w) \/ StoreFallback(w)
         \/ PopFallback(w) \/ FinishText(w) \/ PopState(w) \/ FinishCard(w)
  PROVE  /\ cards' \in Seq(Card) /\ rendered' \in Seq(Text)
         /\ Len(rendered') = Len(cards') /\ Len(cards') \in Nat /\ Len(cards) <= Len(cards')
         /\ state' \in 0 .. Len(cards')
         /\ fallback' \in Text
         /\ unsent' = unsent /\ sending' \in [Worker -> Text] /\ seen' \in [Worker -> Text]
         /\ obj' \in [Worker -> 0 .. Len(cards')]
         /\ texts' \in Seq(Text)
         /\ faults' \in 0 .. MaxFaults
         /\ webhookFailed' \in BOOLEAN /\ cardFailed' \in BOOLEAN
         /\ onCard' = onCard /\ wordless' = wordless
         /\ Equipped(w)'
         /\ \A k \in DOMAIN cards : rendered[k] # <<>> => rendered'[k] # <<>>
<1> USE DEF Goto, message, sender, bridge, local, chat, Fault, NoCard
<1>1. /\ cards \in Seq(Card) /\ rendered \in Seq(Text) /\ Len(rendered) = Len(cards)
      /\ DOMAIN cards = 1 .. Len(cards) /\ DOMAIN rendered = DOMAIN cards /\ Len(cards) \in Nat
      /\ state \in 0 .. Len(cards) /\ fallback \in Text
      /\ pc \in [Worker -> PC] /\ next \in [Worker -> PC]
      /\ unsent \in [Worker -> Text] /\ sending \in [Worker -> Text]
      /\ seen \in [Worker -> Text] /\ obj \in [Worker -> 0 .. Len(cards)]
      /\ texts \in Seq(Text) /\ faults \in 0 .. MaxFaults
      /\ webhookFailed \in BOOLEAN /\ cardFailed \in BOOLEAN
      /\ sending[w] \in Text /\ seen[w] \in Text
      /\ Equipped(w) /\ Routed(w)
      /\ \A k \in DOMAIN cards : rendered[k] \in Text
  BY LenProperties DEF Inv, Typed
<1>2. MaxFaults \in Nat /\ (faults < MaxFaults => faults + 1 \in 0 .. MaxFaults)
  BY <1>1, Workers
<1>3. <<>> \in Text /\ (\A s, t \in Text : s \o t \in Text /\ (t # <<>> => s \o t # <<>>))
  BY Texts
<1>4. \A t \in Text : Append(texts, t) \in Seq(Text)
  BY <1>1, AppendProperties
<1>5. CASE ToFallback(w)
  <2>1. /\ pc[w] = "send" /\ fallback' = fallback \o sending[w]
        /\ pc' = [pc EXCEPT ![w] = next[w]]
        /\ UNCHANGED <<onCard, wordless, state, rendered, unsent, sending, seen, obj, cards,
                       texts, faults, webhookFailed, cardFailed>>
    BY <1>5 DEF ToFallback
  <2>2. pc'[w] \in {"run", "report", "reply", "finish", "done"}
    BY <1>1, <2>1 DEF Routed, Sending
  <2>3. Equipped(w)'
    BY <2>2 DEF Equipped, Sending
  <2> QED
    BY <1>1, <1>3, <2>1, <2>3
<1>6. CASE ToWebhook(w)
  <2>1. /\ pc[w] = "send" /\ pc' = [pc EXCEPT ![w] = next[w]]
        /\ UNCHANGED <<onCard, wordless, state, rendered, fallback, unsent, sending, seen, obj,
                       cards, cardFailed>>
        /\ \/ texts' = Append(texts, sending[w]) /\ UNCHANGED <<faults, webhookFailed>>
           \/ texts' = texts /\ webhookFailed' = TRUE /\ faults < MaxFaults /\ faults' = faults + 1
    BY <1>6 DEF ToWebhook
  <2>2. pc'[w] \in {"run", "report", "reply", "finish", "done"}
    BY <1>1, <2>1 DEF Routed, Sending
  <2>3. Equipped(w)'
    BY <2>2 DEF Equipped, Sending
  <2>4. texts' \in Seq(Text) /\ faults' \in 0 .. MaxFaults /\ webhookFailed' \in BOOLEAN
    BY <1>1, <1>2, <1>4, <2>1
  <2> QED
    BY <1>1, <2>1, <2>3, <2>4
<1>7. CASE ToCard(w)
  <2>1. /\ pc[w] = "send" /\ obj' = [obj EXCEPT ![w] = state]
        /\ pc' = [pc EXCEPT ![w] = IF state = 0 THEN "create" ELSE "append"]
        /\ UNCHANGED <<onCard, wordless, state, rendered, fallback, unsent, sending, seen,
                       cards, texts, faults, webhookFailed, cardFailed>>
    BY <1>7 DEF ToCard
  <2>2. Equipped(w)'
    BY <1>1, <2>1 DEF Equipped, Sending
  <2> QED
    BY <1>1, <2>1, <2>2
<1>8. CASE CreateCard(w)
  <2> DEFINE c == Append(cards, [text |-> <<>>, finished |-> FALSE])
             r == Append(rendered, <<>>)
  <2>1. /\ pc[w] = "create" /\ cards' = c /\ rendered' = r
        /\ state' = Len(cards) + 1 /\ obj' = [obj EXCEPT ![w] = Len(cards) + 1]
        /\ pc' = [pc EXCEPT ![w] = "append"]
        /\ UNCHANGED <<onCard, wordless, fallback, unsent, sending, seen,
                       texts, faults, webhookFailed, cardFailed>>
    BY <1>8 DEF CreateCard
  <2>2. /\ c \in Seq(Card) /\ r \in Seq(Text)
        /\ Len(c) = Len(cards) + 1 /\ Len(r) = Len(cards) + 1
        /\ DOMAIN c = 1 .. Len(cards) + 1
        /\ \A k \in DOMAIN cards : r[k] = rendered[k]
    BY <1>1, NewCard DEF Inv
  <2> HIDE DEF c, r
  <2>3. Equipped(w)'
    BY <1>1, <2>1, <2>2 DEF Equipped, Sending
  <2>4. obj' \in [Worker -> 0 .. Len(cards')]
    BY <1>1, <2>1, <2>2
  <2> QED
    BY <1>1, <2>1, <2>2, <2>3, <2>4
<1>9. CASE CreateFails(w) \/ StreamFails(w)
  <2>1. /\ faults < MaxFaults /\ faults' = faults + 1 /\ cardFailed' = TRUE
        /\ pc[w] \in {"create", "stream"} /\ pc' = [pc EXCEPT ![w] = "failed"]
        /\ UNCHANGED <<onCard, wordless, state, rendered, fallback, unsent, sending, seen, obj,
                       texts, webhookFailed>>
    BY <1>9 DEF CreateFails, StreamFails, CardFails
  <2>3. cards' \in Seq(Card) /\ Len(cards') = Len(cards)
    <3>1. CASE CreateFails(w)
      BY <1>1, <3>1 DEF CreateFails
    <3>2. CASE StreamFails(w)
      <4>1. pc[w] = "stream" /\ cards' \in {cards, Shown(obj[w], sending[w])}
        BY <3>2 DEF StreamFails
      <4>2. obj[w] \in DOMAIN cards
        BY <1>1, <4>1 DEF Equipped
      <4> QED
        BY <1>1, <4>1, <4>2, ShownType DEF Inv
    <3> QED
      BY <1>9, <3>1, <3>2
  <2>5. DOMAIN cards' = DOMAIN cards
    BY <1>1, <2>3, LenProperties
  <2>4. Equipped(w)'
    BY <1>1, <2>1, <2>5 DEF Equipped, Sending
  <2> QED
    BY <1>1, <1>2, <2>1, <2>3, <2>4
<1>18. CASE DropState(w)
  <2>1. /\ pc[w] = "failed" /\ state' = 0 /\ pc' = [pc EXCEPT ![w] = "dropped"]
        /\ UNCHANGED <<onCard, wordless, rendered, fallback, unsent, sending, seen, obj,
                       cards, texts, faults, webhookFailed, cardFailed>>
    BY <1>18 DEF DropState
  <2>2. Equipped(w)'
    BY <1>1, <2>1 DEF Equipped, Sending
  <2> QED
    BY <1>1, <2>1, <2>2
<1>19. CASE RescueText(w)
  <2> DEFINE t == IF obj[w] = 0 THEN sending[w] ELSE rendered[obj[w]]
  <2>1. /\ pc[w] = "dropped" /\ sending' = [sending EXCEPT ![w] = t]
        /\ pc' = [pc EXCEPT ![w] = "rescued"]
        /\ UNCHANGED <<onCard, wordless, state, rendered, fallback, unsent, seen, obj,
                       cards, texts, faults, webhookFailed, cardFailed>>
    BY <1>19 DEF RescueText
  <2>2. t \in Text /\ t # <<>>
    BY <1>1, <2>1 DEF Equipped, Sending
  <2> HIDE DEF t
  <2>3. Equipped(w)' /\ sending' \in [Worker -> Text]
    BY <1>1, <2>1, <2>2 DEF Equipped, Sending
  <2> QED
    BY <1>1, <2>1, <2>3
<1>20. CASE ReadFallback(w)
  <2>1. /\ pc[w] = "rescued" /\ seen' = [seen EXCEPT ![w] = fallback]
        /\ pc' = [pc EXCEPT ![w] = "degrade"]
        /\ UNCHANGED <<onCard, wordless, state, rendered, fallback, unsent, sending, obj,
                       cards, texts, faults, webhookFailed, cardFailed>>
    BY <1>20 DEF ReadFallback
  <2>2. Equipped(w)'
    BY <1>1, <2>1 DEF Equipped, Sending
  <2> QED
    BY <1>1, <2>1, <2>2
<1>10. CASE ReadRendered(w)
  <2>1. /\ pc[w] = "append" /\ seen' = [seen EXCEPT ![w] = rendered[obj[w]]]
        /\ pc' = [pc EXCEPT ![w] = "store"]
        /\ UNCHANGED <<onCard, wordless, state, rendered, fallback, unsent, sending, obj,
                       cards, texts, faults, webhookFailed, cardFailed>>
    BY <1>10 DEF ReadRendered
  <2>2. Equipped(w)' /\ rendered[obj[w]] \in Text
    BY <1>1, <2>1 DEF Equipped, Sending
  <2> QED
    BY <1>1, <2>1, <2>2
<1>11. CASE StoreRendered(w)
  <2> DEFINE t == seen[w] \o sending[w]
  <2>1. /\ pc[w] = "store" /\ rendered' = [rendered EXCEPT ![obj[w]] = t]
        /\ seen' = [seen EXCEPT ![w] = <<>>] /\ pc' = [pc EXCEPT ![w] = "stream"]
        /\ UNCHANGED <<onCard, wordless, state, fallback, unsent, sending, obj,
                       cards, texts, faults, webhookFailed, cardFailed>>
    BY <1>11 DEF StoreRendered
  <2>2. obj[w] \in DOMAIN rendered /\ sending[w] # <<>>
    BY <1>1, <2>1 DEF Equipped, Sending
  <2>3. t \in Text /\ t # <<>>
    BY <1>1, <1>3, <2>2
  <2> HIDE DEF t
  <2>4. /\ rendered' \in Seq(Text) /\ Len(rendered') = Len(rendered)
        /\ rendered'[obj[w]] = t
        /\ \A k \in DOMAIN rendered : rendered'[k] = IF k = obj[w] THEN t ELSE rendered[k]
    BY <1>1, <2>1, <2>2, <2>3
  <2>5. Equipped(w)'
    BY <1>1, <2>1, <2>2, <2>3, <2>4 DEF Equipped, Sending
  <2> QED
    BY <1>1, <1>3, <2>1, <2>3, <2>4, <2>5
<1>12. CASE StreamChunk(w)
  <2>1. /\ pc[w] = "stream" /\ cards' = Shown(obj[w], sending[w])
        /\ pc' = [pc EXCEPT ![w] = next[w]]
        /\ UNCHANGED <<onCard, wordless, state, rendered, fallback, unsent, sending, seen, obj,
                       texts, faults, webhookFailed, cardFailed>>
    BY <1>12 DEF StreamChunk
  <2>2. obj[w] \in DOMAIN cards
    BY <1>1, <2>1 DEF Equipped
  <2>3. cards' \in Seq(Card) /\ Len(cards') = Len(cards)
    BY <1>1, <2>1, <2>2, ShownType DEF Inv
  <2>4. pc'[w] \in {"run", "report", "reply", "finish", "done"}
    BY <1>1, <2>1 DEF Routed, Sending
  <2>5. Equipped(w)'
    BY <2>4 DEF Equipped, Sending
  <2> QED
    BY <1>1, <2>1, <2>3, <2>5
<1>13. CASE StoreFallback(w)
  <2>1. /\ pc[w] = "degrade" /\ fallback' = seen[w] \o sending[w]
        /\ seen' = [seen EXCEPT ![w] = <<>>] /\ pc' = [pc EXCEPT ![w] = next[w]]
        /\ UNCHANGED <<onCard, wordless, state, rendered, unsent, sending, obj,
                       cards, texts, faults, webhookFailed, cardFailed>>
    BY <1>13 DEF StoreFallback
  <2>2. pc'[w] \in {"run", "report", "reply", "finish", "done"}
    BY <1>1, <2>1 DEF Routed, Sending
  <2>3. Equipped(w)'
    BY <2>2 DEF Equipped, Sending
  <2> QED
    BY <1>1, <1>3, <2>1, <2>3
<1>14. CASE PopFallback(w)
  <2>1. /\ pc[w] = "finish" /\ sending' = [sending EXCEPT ![w] = fallback] /\ fallback' = <<>>
        /\ pc' = [pc EXCEPT ![w] = IF fallback = <<>> THEN "pop_state" ELSE "finish_text"]
        /\ UNCHANGED <<onCard, wordless, state, rendered, unsent, seen, obj,
                       cards, texts, faults, webhookFailed, cardFailed>>
    BY <1>14 DEF PopFallback
  <2>2. Equipped(w)'
    BY <1>1, <2>1 DEF Equipped, Sending
  <2> QED
    BY <1>1, <1>3, <2>1, <2>2
<1>15. CASE FinishText(w)
  <2>1. /\ pc' = [pc EXCEPT ![w] = "done"]
        /\ UNCHANGED <<onCard, wordless, state, rendered, fallback, unsent, sending, seen, obj,
                       cards, cardFailed>>
        /\ \/ texts' = Append(texts, sending[w]) /\ UNCHANGED <<faults, webhookFailed>>
           \/ texts' = texts /\ webhookFailed' = TRUE /\ faults < MaxFaults /\ faults' = faults + 1
    BY <1>15 DEF FinishText
  <2>2. Equipped(w)'
    BY <1>1, <2>1 DEF Equipped, Sending
  <2>3. texts' \in Seq(Text) /\ faults' \in 0 .. MaxFaults /\ webhookFailed' \in BOOLEAN
    BY <1>1, <1>2, <1>4, <2>1
  <2> QED
    BY <1>1, <2>1, <2>2, <2>3
<1>16. CASE PopState(w)
  <2>1. /\ obj' = [obj EXCEPT ![w] = state] /\ state' = 0
        /\ pc' = [pc EXCEPT ![w] = IF state = 0 THEN "done" ELSE "finish_card"]
        /\ UNCHANGED <<onCard, wordless, rendered, fallback, unsent, sending, seen,
                       cards, texts, faults, webhookFailed, cardFailed>>
    BY <1>16 DEF PopState
  <2>2. Equipped(w)'
    BY <1>1, <2>1 DEF Equipped, Sending
  <2> QED
    BY <1>1, <2>1, <2>2
<1>17. CASE FinishCard(w)
  <2> DEFINE c == [cards EXCEPT ![obj[w]].finished = TRUE]
  <2>1. /\ pc[w] = "finish_card" /\ pc' = [pc EXCEPT ![w] = "done"]
        /\ UNCHANGED <<onCard, wordless, state, rendered, fallback, unsent, sending, seen, obj,
                       texts, webhookFailed>>
        /\ \/ cards' = c /\ UNCHANGED <<faults, cardFailed>>
           \/ cards' = cards /\ cardFailed' = TRUE /\ faults < MaxFaults /\ faults' = faults + 1
    BY <1>17 DEF FinishCard
  <2>2. obj[w] \in DOMAIN cards
    BY <1>1, <2>1 DEF Equipped
  <2>3. c \in Seq(Card) /\ Len(c) = Len(cards)
    BY <2>2, FinishedType DEF Inv
  <2>4. Equipped(w)'
    BY <1>1, <2>1 DEF Equipped, Sending
  <2> HIDE DEF c
  <2>5. faults' \in 0 .. MaxFaults /\ cardFailed' \in BOOLEAN
    BY <1>1, <1>2, <2>1
  <2>6. cards' \in Seq(Card) /\ Len(cards') = Len(cards)
    BY <1>1, <2>1, <2>3
  <2> QED
    BY <1>1, <2>1, <2>4, <2>5, <2>6
<1> QED
  BY <1>5, <1>6, <1>7, <1>8, <1>9, <1>10, <1>11, <1>12, <1>13, <1>14, <1>15, <1>16, <1>17,
     <1>18, <1>19, <1>20

LEMMA StepInv == Inv /\ [Next]_vars => Inv'
<1> SUFFICES ASSUME Inv, [Next]_vars PROVE Inv'
  OBVIOUS
<1>1. CASE UNCHANGED vars
  BY <1>1 DEF vars, Inv, Typed, Ordered, Budget, Routed, Equipped
<1>2. ASSUME NEW w \in Worker, Handle(w) PROVE Inv'
  <2> DEFINE OfHandler ==
               \/ Start(w) \/ Emit(w) \/ TaskEnds(w) \/ HandlerRaises(w)
               \/ EmitNow(w) \/ ReportEnds(w) \/ BridgeFinish(w) \/ LastReply(w)
             OfSender ==
               \/ ToFallback(w) \/ ToWebhook(w) \/ ToCard(w)
               \/ CreateCard(w) \/ CreateFails(w) \/ ReadRendered(w) \/ StoreRendered(w)
               \/ StreamChunk(w) \/ StreamFails(w)
               \/ DropState(w) \/ RescueText(w) \/ ReadFallback(w) \/ StoreFallback(w)
               \/ PopFallback(w) \/ FinishText(w) \/ PopState(w) \/ FinishCard(w)
  <2>1. OfHandler \/ OfSender
    BY <1>2 DEF Handle
  <2>2. /\ Typed /\ Ordered /\ \A v \in Worker : Budget(v) /\ Routed(v) /\ Equipped(v)
        /\ cards \in Seq(Card) /\ Len(cards) \in Nat /\ DOMAIN cards = 1 .. Len(cards)
    BY LenProperties DEF Inv, Typed
  <2>3. /\ pc' \in [Worker -> PC] /\ next' \in [Worker -> PC] /\ said' \in [Worker -> Nat]
        /\ pc'[w] # "idle" /\ Budget(w)' /\ Routed(w)'
    BY <1>2, ControlStep
  <2>4. Typed' /\ Equipped(w)'
    <3>1. CASE OfHandler
      <4>1. /\ unsent' \in [Worker -> Text] /\ sending' \in [Worker -> Text]
            /\ onCard' \in BOOLEAN /\ wordless' \in BOOLEAN
            /\ pc'[w] = "send" => sending'[w] # <<>>
            /\ pc'[w] \notin {"create", "append", "store", "stream", "failed", "dropped",
                              "rescued", "degrade", "finish_text", "finish_card"}
            /\ UNCHANGED <<sender, seen, obj, chat>>
        BY <3>1, HandlerTypes
      <4>2. Typed'
        BY <2>2, <2>3, <4>1 DEF Typed, sender, chat
      <4> QED
        BY <4>1, <4>2 DEF Equipped, Sending
    <3>2. CASE OfSender
      BY <2>2, <2>3, <3>2, SenderTypes DEF Typed
    <3> QED
      BY <2>1, <3>1, <3>2
  <2>5. /\ Len(cards') \in Nat /\ Len(cards) <= Len(cards') /\ DOMAIN cards' = 1 .. Len(cards')
        /\ \A k \in DOMAIN cards : rendered[k] # <<>> => rendered'[k] # <<>>
    <3>1. DOMAIN cards' = 1 .. Len(cards') /\ Len(cards') \in Nat
      BY <2>4, LenProperties DEF Typed
    <3>2. CASE OfHandler
      BY <2>2, <3>1, <3>2, HandlerTypes DEF sender, chat
    <3>3. CASE OfSender
      BY <3>1, <3>3, SenderTypes
    <3> QED
      BY <2>1, <3>2, <3>3
  <2>6. ASSUME NEW v \in Worker \ {w} PROVE Budget(v)' /\ Routed(v)' /\ Equipped(v)'
    <3>1. /\ pc'[v] = pc[v] /\ next'[v] = next[v] /\ said'[v] = said[v]
          /\ sending'[v] = sending[v] /\ obj'[v] = obj[v]
      BY <1>2, <2>2, StepIsLocal
    <3>2. wordless' = wordless \/ pc[v] = "idle"
      <4>1. CASE Start(w)
        <5>1. pc[w] = "idle" /\ (w # 1 => wordless' = wordless)
          BY <4>1 DEF Start, message
        <5>2. CASE w = 1
          <6>1. v \in Nat /\ w < v
            BY <5>2, Workers
          <6> QED
            BY <2>2, <5>1, <6>1 DEF Ordered
        <5> QED
          BY <5>1, <5>2
      <4>2. CASE ~ Start(w)
        BY <2>1, <4>2 DEF Emit, TaskEnds, HandlerRaises, EmitNow, ReportEnds, BridgeFinish,
           LastReply, ToFallback, ToWebhook, ToCard, CreateCard, CreateFails, CardFails,
           ReadRendered, StoreRendered, StreamChunk, StreamFails,
     DropState, RescueText, ReadFallback, StoreFallback,
           PopFallback, FinishText, PopState, FinishCard, message
      <4> QED
        BY <4>1, <4>2
    <3>3. Budget(v)'
      BY <2>2, <3>1 DEF Budget, Most
    <3>4. Routed(v)'
      BY <2>2, <3>1, <3>2 DEF Routed, Sending
    <3>5. Equipped(v)'
      BY <2>2, <2>5, <3>1 DEF Equipped
    <3> QED
      BY <3>3, <3>4, <3>5
  <2>7. Ordered'
    <3> SUFFICES ASSUME NEW u \in Worker, NEW v \in Worker, u < v, pc'[u] = "idle"
                 PROVE  pc'[v] = "idle"
      BY DEF Ordered
    <3>1. u # w /\ pc[u] = "idle"
      BY <1>2, <2>2, <2>3, StepIsLocal
    <3>2. pc[v] = "idle"
      BY <2>2, <3>1 DEF Ordered
    <3>3. v # w
      <4> SUFFICES ASSUME v = w PROVE FALSE
        OBVIOUS
      <4>1. Start(w)
        BY <2>1, <3>2 DEF Emit, TaskEnds, HandlerRaises, EmitNow, ReportEnds, BridgeFinish,
           LastReply, ToFallback, ToWebhook, ToCard, CreateCard, CreateFails,
           ReadRendered, StoreRendered, StreamChunk, StreamFails,
     DropState, RescueText, ReadFallback, StoreFallback,
           PopFallback, FinishText, PopState, FinishCard
      <4>2. u \in 1 .. w - 1
        BY Workers
      <4> QED
        BY <3>1, <4>1, <4>2 DEF Start
    <3> QED
      BY <1>2, <2>2, <3>2, <3>3, StepIsLocal
  <2> QED
    BY <2>3, <2>4, <2>6, <2>7 DEF Inv
<1> QED
  BY <1>1, <1>2 DEF Next

THEOREM Invariance == Spec => []Inv
<1>1. Init => Inv
  BY InitInv
<1>2. Inv /\ [Next]_vars => Inv'
  BY StepInv
<1> QED
  BY <1>1, <1>2, PTL DEF Spec

(* The variables keep their types, and nothing empty is ever sent. *)
THEOREM TypeCorrect == Spec => []TypeOK
<1>1. ASSUME Inv PROVE TypeOK
  <2>1. Typed /\ \A w \in Worker : Budget(w) /\ Equipped(w)
    BY <1>1 DEF Inv
  <2>2. \A w \in Worker : pc[w] \in {"send", "create", "stream", "degrade", "finish_text"}
          => sending[w] # <<>>
    BY <2>1 DEF Equipped, Sending
  <2>3. message \in BOOLEAN \X BOOLEAN
    <3>1. \A a, b \in BOOLEAN : <<a, b>> \in BOOLEAN \X BOOLEAN
      OBVIOUS
    <3>2. onCard \in BOOLEAN /\ wordless \in BOOLEAN
      BY <2>1 DEF Typed
    <3> QED
      BY <3>1, <3>2 DEF message
  <2>4. \A k \in DOMAIN cards :
          rendered[k] \in Text /\ cards[k] \in [text : Text, finished : BOOLEAN]
    <3>1. cards \in Seq(Card) /\ rendered \in Seq(Text) /\ Len(rendered) = Len(cards)
      BY <2>1 DEF Typed
    <3>2. DOMAIN cards = 1 .. Len(cards) /\ DOMAIN rendered = 1 .. Len(cards)
      BY <3>1, LenProperties
    <3>3. \A k \in 1 .. Len(cards) : cards[k] \in Card /\ rendered[k] \in Text
      BY <3>1, <3>2, ElementOfSeq
    <3> QED
      BY <3>2, <3>3 DEF Card
  <2>5. ASSUME NEW w \in Worker PROVE said[w] \in {0} \union ChunkNumber(w)
    <3>1. said[w] \in Nat /\ said[w] <= Most(w, pc[w])
      BY <2>1 DEF Typed, Budget
    <3>2. MaxProgress[w] \in Nat /\ MaxReport \in Nat
      BY Workers
    <3>3. said[w] <= MaxProgress[w] + MaxReport + 2
      BY <3>1, <3>2 DEF Most
    <3> QED
      BY <3>1, <3>2, <3>3 DEF ChunkNumber
  <2> QED
    BY <2>1, <2>2, <2>3, <2>4, <2>5 DEF TypeOK, Typed
<1> QED
  BY <1>1, Invariance, PTL
-----------------------------------------------------------------------------
(* What the sender keeps. *)

(* Whoever stands here has still to finish the stream, and does not work   *)
(* on a card.                                                              *)
Calm == {"run", "report", "flush", "reply", "send", "finish"}

(* Or works on one that has not failed. *)
OnItsWay == Calm \cup {"create", "append", "store", "stream"}

Untouched == (\A w \in Worker : pc[w] = "idle") => state = NoCard /\ fallback = <<>>

(* Whatever is kept will be taken by somebody: a fallback by the next who  *)
(* finishes the stream, a card by one whose call for a card has failed or  *)
(* who finishes the stream and finds no fallback, for which two are needed *)
(* as long as there is one.                                                *)
Kept ==
  ~wordless /\ (\A w \in Worker : pc[w] # "lost") =>
    /\ fallback # <<>> => \E w \in Worker : pc[w] \in Calm
    /\ state # NoCard =>
         \/ \E w \in Worker : pc[w] \in {"pop_state", "failed"}
         \/ fallback = <<>> /\ \E w \in Worker : pc[w] \in OnItsWay
         \/ \E v, w \in Worker : v # w /\ pc[v] \in OnItsWay /\ pc[w] \in OnItsWay

LEMMA KeptStep ==
  ASSUME Inv, Untouched, Kept, NEW w \in Worker, Handle(w)
  PROVE  Kept'
<1> USE DEF Goto
<1>1. /\ pc \in [Worker -> PC] /\ Routed(w) /\ Equipped(w) /\ Ordered
      /\ fallback \in Text /\ sending[w] \in Text /\ seen[w] \in Text
  BY DEF Inv, Typed
<1>2. \A v \in Worker \ {w} : pc'[v] = pc[v]
  BY StepIsLocal DEF Inv
<1> SUFFICES ASSUME ~wordless', \A v \in Worker : pc'[v] # "lost"
             PROVE  /\ fallback' # <<>> => \E v \in Worker : pc'[v] \in Calm
                    /\ state' # NoCard =>
                         \/ \E v \in Worker : pc'[v] \in {"pop_state", "failed"}
                         \/ fallback' = <<>> /\ \E v \in Worker : pc'[v] \in OnItsWay
                         \/ \E u, v \in Worker : u # v /\ pc'[u] \in OnItsWay /\ pc'[v] \in OnItsWay
  BY DEF Kept
<1>3. CASE Start(w)
  <2>1. CASE w = 1
    <3>1. \A v \in Worker : pc[v] = "idle"
      <4>1. pc[w] = "idle"
        BY <1>3 DEF Start
      <4>2. \A v \in Worker \ {w} : w < v
        BY <2>1, Workers
      <4> QED
        BY <1>1, <4>1, <4>2 DEF Ordered
    <3>2. state' = NoCard /\ fallback' = <<>>
      BY <1>3, <3>1 DEF Start, sender, Untouched
    <3> QED
      BY <3>2
  <2>2. CASE w # 1
    <3>1. /\ ~wordless /\ state' = state /\ fallback' = fallback
          /\ pc[w] = "idle" /\ pc'[w] = "send"
      BY <1>1, <1>3, <2>2 DEF Start, message, sender, Reply
    <3>2. \A v \in Worker : pc[v] # "lost"
      BY <1>2, <3>1
    <3> QED
      BY <1>2, <3>1, <3>2 DEF Kept, Calm, OnItsWay
  <2> QED
    BY <2>1, <2>2
<1>4. CASE ~ Start(w)
  <2>1. wordless' = wordless /\ pc[w] # "lost"
    BY <1>4 DEF Handle, Emit, TaskEnds, HandlerRaises, EmitNow, ReportEnds, BridgeFinish,
       LastReply, ToFallback, ToWebhook, ToCard, CreateCard, CreateFails, CardFails,
       ReadRendered, StoreRendered, StreamChunk, StreamFails,
     DropState, RescueText, ReadFallback, StoreFallback,
       PopFallback, FinishText, PopState, FinishCard, message
  <2>2. /\ fallback # <<>> => \E v \in Worker : pc[v] \in Calm
        /\ state # NoCard =>
             \/ \E v \in Worker : pc[v] \in {"pop_state", "failed"}
             \/ fallback = <<>> /\ \E v \in Worker : pc[v] \in OnItsWay
             \/ \E u, v \in Worker : u # v /\ pc[u] \in OnItsWay /\ pc[v] \in OnItsWay
    BY <1>2, <2>1 DEF Kept
  <2>3. pc[w] \in Sending => next[w] \in {"run", "report", "reply", "finish"}
    BY <1>1, <2>1 DEF Routed
  <2>4. /\ sending[w] \in Text /\ fallback \in Text /\ seen[w] \in Text
        /\ \A s, t \in Text : t # <<>> => s \o t # <<>>
    BY <1>1, Texts
  <2>5. CASE Emit(w) \/ TaskEnds(w) \/ EmitNow(w) \/ ReportEnds(w) \/ BridgeFinish(w) \/ LastReply(w)
    <3>1. /\ state' = state /\ fallback' = fallback
          /\ pc[w] \in {"run", "report", "flush", "reply"}
          /\ pc'[w] \in Calm
      BY <1>1, <2>5 DEF Emit, TaskEnds, EmitNow, ReportEnds, BridgeFinish, LastReply, Reply,
         sender, Calm, Routed
    <3> QED
      BY <1>2, <2>2, <3>1 DEF Calm, OnItsWay
  <2>6. CASE HandlerRaises(w)
    BY <1>1, <2>6 DEF HandlerRaises
  <2>7. CASE ToFallback(w)
    <3>1. /\ state' = state /\ fallback # <<>>
          /\ pc[w] = "send" /\ pc'[w] \in Calm
      BY <1>1, <2>3, <2>7 DEF ToFallback, Calm, Sending
    <3> QED
      BY <1>2, <2>2, <3>1 DEF Calm, OnItsWay
  <2>8. CASE ToWebhook(w) \/ ToCard(w) \/ ReadRendered(w) \/ StoreRendered(w) \/ StreamChunk(w)
    <3>1. /\ state' = state /\ fallback' = fallback
          /\ pc[w] = "send" => fallback = <<>>
          /\ pc[w] \in {"send", "append", "store", "stream"}
          /\ pc'[w] \in OnItsWay
      BY <1>1, <2>3, <2>8 DEF ToWebhook, ToCard, ReadRendered, StoreRendered, StreamChunk,
         sender, Calm, OnItsWay, Sending
    <3> QED
      BY <1>2, <2>2, <3>1 DEF Calm, OnItsWay
  <2>9. CASE CreateCard(w)
    <3>1. fallback' = fallback /\ pc[w] = "create" /\ pc'[w] = "append"
      BY <1>1, <2>9 DEF CreateCard
    <3> QED
      BY <1>2, <2>2, <3>1 DEF Calm, OnItsWay
  <2>10. CASE CreateFails(w) \/ StreamFails(w)
    <3>1. /\ fallback' = fallback
          /\ pc[w] \in {"create", "stream"} /\ pc'[w] = "failed"
      BY <1>1, <2>10 DEF CreateFails, StreamFails, CardFails, sender
    <3> QED
      BY <1>2, <2>2, <3>1 DEF Calm
  <2>15. CASE DropState(w)
    <3>1. state' = NoCard /\ fallback' = fallback /\ pc[w] = "failed"
      BY <2>15 DEF DropState
    <3> QED
      BY <1>2, <2>2, <3>1 DEF Calm
  <2>16. CASE RescueText(w) \/ ReadFallback(w)
    <3>1. /\ state' = state /\ fallback' = fallback
          /\ pc[w] \in {"dropped", "rescued"}
      BY <2>16 DEF RescueText, ReadFallback, sender
    <3> QED
      BY <1>2, <2>2, <3>1 DEF Calm, OnItsWay
  <2>11. CASE StoreFallback(w)
    <3>1. /\ state' = state /\ pc[w] = "degrade" /\ pc'[w] \in Calm
      BY <1>1, <2>3, <2>11 DEF StoreFallback, Calm, Sending
    <3> QED
      BY <1>2, <2>2, <3>1 DEF Calm, OnItsWay
  <2>12. CASE PopFallback(w)
    <3>1. /\ state' = state /\ fallback' = <<>> /\ pc[w] = "finish"
          /\ pc'[w] = IF fallback = <<>> THEN "pop_state" ELSE "finish_text"
      BY <1>1, <2>12 DEF PopFallback
    <3> QED
      BY <1>2, <2>2, <3>1
  <2>13. CASE FinishText(w) \/ FinishCard(w)
    <3>1. /\ state' = state /\ fallback' = fallback
          /\ pc[w] \in {"rescued", "degrade", "finish_text", "finish_card"}
      BY <2>13 DEF FinishText, FinishCard, sender
    <3> QED
      BY <1>2, <2>2, <3>1 DEF Calm, OnItsWay
  <2>14. CASE PopState(w)
    <3>1. state' = NoCard /\ fallback' = fallback /\ pc[w] = "pop_state"
      BY <2>14 DEF PopState
    <3> QED
      BY <1>2, <2>2, <3>1 DEF Calm
  <2> QED
    BY <1>4, <2>5, <2>6, <2>7, <2>8, <2>9, <2>10, <2>11, <2>12, <2>13, <2>14,
       <2>15, <2>16 DEF Handle
<1> QED
  BY <1>3, <1>4

(* The sender keeps nothing of a message whose handlers have finished the  *)
(* stream, in whatever way its deliveries interleave and calls fail.       *)
THEOREM NothingIsKept == Spec => []NothingLeftBehind
<1>1. Init => Untouched /\ Kept
  BY DEF Init, Untouched, Kept
<1>2. Inv /\ Untouched /\ Kept /\ [Next]_vars => (Untouched /\ Kept)'
  <2> SUFFICES ASSUME Inv, Untouched, Kept, [Next]_vars PROVE (Untouched /\ Kept)'
    OBVIOUS
  <2>1. CASE UNCHANGED vars
    BY <2>1 DEF vars, Untouched, Kept
  <2>2. ASSUME NEW w \in Worker, Handle(w) PROVE (Untouched /\ Kept)'
    <3>1. pc'[w] # "idle"
      BY <2>2, ControlStep
    <3> QED
      BY <2>2, <3>1, KeptStep DEF Untouched
  <2> QED
    BY <2>1, <2>2 DEF Next
<1>3. Kept => NothingLeftBehind
  BY DEF Kept, NothingLeftBehind, Calm, OnItsWay
<1> QED
  BY <1>1, <1>2, <1>3, Invariance, PTL DEF Spec
-----------------------------------------------------------------------------
(* A message that is delivered once. *)

(* Only its worker takes steps, and was alone before. *)
LEMMA AloneBefore ==
  ASSUME Inv, NEW w \in Worker, NEW v \in Worker, Handle(v), Alone(w)'
  PROVE  v = w /\ Alone(w)
<1>1. pc'[v] # "idle"
  BY ControlStep
<1>2. v = w
  BY <1>1 DEF Alone
<1> QED
  BY <1>2, StepIsLocal DEF Alone, Inv

(* Until a call for a card fails there is at most one, and its entry is    *)
(* kept until it is taken to be finished.                                  *)
Closing(w) ==
  Alone(w) /\ ~cardFailed =>
    /\ fallback = <<>> /\ pc[w] \notin {"failed", "dropped", "rescued", "degrade", "finish_text"}
    /\ pc[w] = "create" => state = NoCard
    /\ \/ cards = <<>> /\ state = NoCard
       \/ /\ Len(cards) = 1
          /\ \/ pc[w] = "finish_card" /\ obj[w] = 1
             \/ pc[w] = "done" /\ (wordless \/ cards[1].finished)
             \/ pc[w] \notin {"finish_card", "done"} /\ state = 1

LEMMA ClosingStep ==
  ASSUME Inv, NEW w \in Worker, Closing(w), Handle(w)
  PROVE  Closing(w)'
<1> USE DEF Goto
<1>1. /\ pc \in [Worker -> PC] /\ obj \in [Worker -> 0 .. Len(cards)]
      /\ Routed(w) /\ Equipped(w) /\ Typed
      /\ cards \in Seq(Card) /\ Len(cards) \in Nat /\ DOMAIN cards = 1 .. Len(cards)
  BY LenProperties DEF Inv, Typed
<1>2. ~cardFailed' => ~cardFailed
  BY DEF Handle, Start, Emit, TaskEnds, HandlerRaises, EmitNow, ReportEnds, BridgeFinish,
     LastReply, ToFallback, ToWebhook, ToCard, CreateCard, CreateFails, CardFails,
     ReadRendered, StoreRendered, StreamChunk, StreamFails,
     DropState, RescueText, ReadFallback, StoreFallback,
     PopFallback, FinishText, PopState, FinishCard, chat
<1> SUFFICES ASSUME Alone(w)', ~cardFailed'
             PROVE  /\ fallback' = <<>> /\ pc'[w] \notin {"failed", "dropped", "rescued", "degrade", "finish_text"}
                    /\ pc'[w] = "create" => state' = NoCard
                    /\ \/ cards' = <<>> /\ state' = NoCard
                       \/ /\ Len(cards') = 1
                          /\ \/ pc'[w] = "finish_card" /\ obj'[w] = 1
                             \/ pc'[w] = "done" /\ (wordless' \/ cards'[1].finished)
                             \/ pc'[w] \notin {"finish_card", "done"} /\ state' = 1
  BY DEF Closing
<1>3. /\ fallback = <<>> /\ pc[w] \notin {"failed", "dropped", "rescued", "degrade", "finish_text"}
      /\ pc[w] = "create" => state = NoCard
      /\ \/ cards = <<>> /\ state = NoCard
         \/ /\ Len(cards) = 1
            /\ \/ pc[w] = "finish_card" /\ obj[w] = 1
               \/ pc[w] = "done" /\ (wordless \/ cards[1].finished)
               \/ pc[w] \notin {"finish_card", "done"} /\ state = 1
  BY <1>2, AloneBefore DEF Closing
<1>4. pc[w] \in Sending => /\ next[w] \in {"run", "report", "reply", "finish", "done"}
                           /\ next[w] = "done" => wordless
  BY <1>1 DEF Routed
<1>5. CASE \/ Start(w) \/ Emit(w) \/ TaskEnds(w) \/ HandlerRaises(w)
           \/ EmitNow(w) \/ ReportEnds(w) \/ BridgeFinish(w) \/ LastReply(w)
  <2>1. /\ state' = state /\ fallback' = fallback /\ cards' = cards
        /\ pc'[w] \notin {"create", "append", "store", "stream", "failed", "dropped",
                          "rescued", "degrade", "finish_text", "finish_card"}
    BY <1>5, HandlerTypes DEF sender, chat
  <2>2. pc[w] \in {"idle", "run", "report", "flush", "reply"} /\ pc'[w] # "done"
    BY <1>1, <1>5 DEF Start, Emit, TaskEnds, HandlerRaises, EmitNow, ReportEnds,
       BridgeFinish, LastReply, Reply, Routed
  <2> QED
    BY <1>3, <2>1, <2>2
<1>6. CASE ToFallback(w) \/ StoreFallback(w) \/ FinishText(w)
  BY <1>3, <1>6 DEF ToFallback, StoreFallback, FinishText
<1>7. CASE ToWebhook(w)
  <2>1. /\ pc[w] = "send" /\ pc'[w] = next[w] /\ state' = state /\ fallback' = fallback
        /\ cards' = cards /\ wordless' = wordless
    BY <1>1, <1>7 DEF ToWebhook, sender, message
  <2> QED
    BY <1>3, <1>4, <2>1 DEF Sending
<1>8. CASE ToCard(w)
  <2>1. /\ pc[w] = "send" /\ pc'[w] = IF state = NoCard THEN "create" ELSE "append"
        /\ state' = state /\ fallback' = fallback /\ cards' = cards
    BY <1>1, <1>8 DEF ToCard, sender, chat
  <2> QED
    BY <1>3, <2>1
<1>9. CASE CreateCard(w)
  <2>1. /\ pc[w] = "create" /\ pc'[w] = "append" /\ state' = Len(cards) + 1
        /\ fallback' = fallback
        /\ cards' = Append(cards, [text |-> <<>>, finished |-> FALSE])
    BY <1>1, <1>9 DEF CreateCard
  <2>2. Len(cards') = Len(cards) + 1
    BY <1>1, <2>1, NewCard
  <2>3. Len(cards) = 0
    BY <1>3, <2>1 DEF NoCard
  <2> QED
    BY <1>3, <2>1, <2>2, <2>3
<1>10. CASE CreateFails(w) \/ StreamFails(w)
  BY <1>10 DEF CreateFails, StreamFails, CardFails
<1>16. CASE DropState(w) \/ RescueText(w) \/ ReadFallback(w)
  BY <1>3, <1>16 DEF DropState, RescueText, ReadFallback
<1>11. CASE ReadRendered(w) \/ StoreRendered(w)
  <2>1. /\ pc[w] \in {"append", "store"} /\ pc'[w] \in {"store", "stream"}
        /\ state' = state /\ fallback' = fallback /\ cards' = cards
    BY <1>1, <1>11 DEF ReadRendered, StoreRendered, sender, chat
  <2> QED
    BY <1>3, <2>1
<1>12. CASE StreamChunk(w)
  <2>1. /\ pc[w] = "stream" /\ pc'[w] = next[w] /\ state' = state /\ fallback' = fallback
        /\ cards' = Shown(obj[w], sending[w]) /\ wordless' = wordless
        /\ sending[w] \in Text
    BY <1>1, <1>12 DEF StreamChunk, sender, message, Typed
  <2>2. obj[w] \in DOMAIN cards
    BY <1>1, <2>1 DEF Equipped
  <2>3. Len(cards') = Len(cards)
    BY <1>1, <2>1, <2>2, ShownType
  <2>4. cards # <<>>
    BY <2>2
  <2> QED
    BY <1>3, <1>4, <2>1, <2>3, <2>4 DEF Sending
<1>13. CASE PopFallback(w)
  <2>1. /\ pc[w] = "finish" /\ pc'[w] = "pop_state" /\ state' = state /\ fallback' = <<>>
        /\ cards' = cards
    BY <1>1, <1>3, <1>13 DEF PopFallback, chat
  <2> QED
    BY <1>3, <2>1
<1>14. CASE PopState(w)
  <2>1. /\ pc[w] = "pop_state" /\ pc'[w] = IF state = NoCard THEN "done" ELSE "finish_card"
        /\ state' = NoCard /\ fallback' = fallback /\ cards' = cards /\ obj'[w] = state
    BY <1>1, <1>14 DEF PopState, chat
  <2> QED
    BY <1>3, <2>1 DEF NoCard
<1>15. CASE FinishCard(w)
  <2>1. /\ pc[w] = "finish_card" /\ pc'[w] = "done" /\ state' = state /\ fallback' = fallback
        /\ cards' = [cards EXCEPT ![obj[w]].finished = TRUE] \/ cardFailed' = TRUE
    BY <1>1, <1>15 DEF FinishCard, sender
  <2>2. obj[w] \in DOMAIN cards
    BY <1>1, <2>1 DEF Equipped
  <2>3. obj[w] = 1 /\ Len(cards) = 1
    BY <1>1, <1>3, <2>1, <2>2
  <2>4. Len(cards') = 1 /\ cards'[1].finished = TRUE
    BY <1>1, <2>1, <2>2, <2>3, FinishedType
  <2> QED
    BY <1>3, <2>1, <2>4
<1> QED
  BY <1>5, <1>6, <1>7, <1>8, <1>9, <1>10, <1>11, <1>12, <1>13, <1>14, <1>15,
     <1>16 DEF Handle

(* A message that is delivered once leaves no card that looks as if it     *)
(* were still being written, unless a call for the card failed.            *)
THEOREM CardsAreClosed == Spec => []EveryCardIsClosed
<1>1. Init => \A w \in Worker : Closing(w)
  BY DEF Init, Closing
<1>2. Inv /\ (\A w \in Worker : Closing(w)) /\ [Next]_vars => (\A w \in Worker : Closing(w))'
  <2> SUFFICES ASSUME Inv, \A w \in Worker : Closing(w), [Next]_vars, NEW w \in Worker
               PROVE  Closing(w)'
    OBVIOUS
  <2>1. CASE UNCHANGED vars
    BY <2>1 DEF vars, Closing, Alone
  <2>2. ASSUME NEW v \in Worker, Handle(v) PROVE Closing(w)'
    <3>1. CASE v = w
      BY <2>2, <3>1, ClosingStep
    <3>2. CASE v # w
      BY <2>2, <3>2, AloneBefore DEF Closing
    <3> QED
      BY <3>1, <3>2
  <2> QED
    BY <2>1, <2>2 DEF Next
<1>3. ASSUME Inv, \A w \in Worker : Closing(w) PROVE EveryCardIsClosed
  <2> SUFFICES ASSUME NEW w \in Worker, pc[w] = "done", Alone(w), ~wordless, ~cardFailed,
                      NEW k \in DOMAIN cards
               PROVE  cards[k].finished
    BY DEF EveryCardIsClosed
  <2>1. DOMAIN cards = 1 .. Len(cards)
    BY <1>3, LenProperties DEF Inv, Typed
  <2>2. cards # <<>>
    OBVIOUS
  <2>3. Len(cards) = 1 /\ cards[1].finished
    BY <1>3, <2>2 DEF Closing
  <2> QED
    BY <2>1, <2>3
<1> QED
  BY <1>1, <1>2, <1>3, Invariance, PTL DEF Spec
-----------------------------------------------------------------------------
(* FlattenSeq, which concatenates the texts of the webhook.                *)

(* Every nonempty set of natural numbers has a smallest one. *)
LEMMA Smallest ==
  ASSUME NEW S, S \subseteq Nat, S # {}
  PROVE  \E m \in S : \A n \in S : m <= n
<1>1. IsWellFoundedOn({pair \in Nat \X Nat : pair[1] < pair[2]}, Nat)
  BY NatLessThanWellFounded DEF OpToRel
<1>2. \E x \in S : \A y \in S : ~ (<<y, x>> \in {pair \in Nat \X Nat : pair[1] < pair[2]})
  BY <1>1, WFMin
<1>3. PICK m \in S : \A y \in S : ~ (<<y, m>> \in {pair \in Nat \X Nat : pair[1] < pair[2]})
  BY <1>2
<1>4. \A n \in S : ~ (n < m)
  BY <1>3
<1> QED
  BY <1>4

(* The function by which FlattenSeq is defined. *)
Flattens(f, s, n) == f = [i \in 1 .. n |-> IF i = 1 THEN s[i] ELSE f[i-1] \o s[i]]

LEMMA FlattensAt ==
  ASSUME NEW f, NEW s, NEW n, Flattens(f, s, n)
  PROVE  \A i \in 1 .. n : f[i] = IF i = 1 THEN s[i] ELSE f[i-1] \o s[i]
<1> DEFINE g == [i \in 1 .. n |-> IF i = 1 THEN s[i] ELSE f[i-1] \o s[i]]
<1>1. f = g
  BY DEF Flattens
<1>2. \A i \in 1 .. n : g[i] = IF i = 1 THEN s[i] ELSE f[i-1] \o s[i]
  OBVIOUS
<1> HIDE DEF g
<1> QED
  BY <1>1, <1>2

(* There is one ... *)
LEMMA FlattensExists == \A s, n : n \in Nat => \E f : Flattens(f, s, n)
<1> SUFFICES ASSUME NEW s, NEW k \in Nat, ~ \E f : Flattens(f, s, k)
             PROVE  FALSE
  OBVIOUS
<1> DEFINE bad == {n \in Nat : ~ \E f : Flattens(f, s, n)}
<1>1. PICK n \in bad : \A m \in bad : n <= m
  BY Smallest
<1>2. n # 0
  <2>1. Flattens([i \in 1 .. 0 |-> 0], s, 0)
    BY DEF Flattens
  <2> QED
    BY <2>1
<1>3. PICK f : Flattens(f, s, n - 1)
  BY <1>1, <1>2
<1> DEFINE g == [i \in 1 .. n |-> IF i = 1 THEN s[i] ELSE IF i = n THEN f[i-1] \o s[i] ELSE f[i]]
<1>4. /\ n \in Nat /\ n - 1 \in Nat
      /\ \A i \in 1 .. n - 1 : f[i] = IF i = 1 THEN s[i] ELSE f[i-1] \o s[i]
  BY <1>2, <1>3, FlattensAt
<1>5. \A i \in 1 .. n : i # 1 => g[i-1] = f[i-1]
  BY <1>4
<1>6. ASSUME NEW i \in 1 .. n
      PROVE  g[i] = IF i = 1 THEN s[i] ELSE g[i-1] \o s[i]
  <2>1. CASE i = 1
    BY <2>1
  <2>2. CASE i = n /\ i # 1
    BY <1>5, <2>2
  <2>3. CASE i # 1 /\ i # n
    <3>1. i \in 1 .. n - 1 /\ g[i] = f[i]
      BY <1>4, <2>3
    <3>2. f[i] = f[i-1] \o s[i]
      BY <1>4, <2>3, <3>1
    <3> QED
      BY <1>5, <2>3, <3>1, <3>2
  <2> QED
    BY <2>1, <2>2, <2>3
<1>7. Flattens(g, s, n)
  <2>1. g = [i \in 1 .. n |-> g[i]]
    OBVIOUS
  <2> HIDE DEF g
  <2> QED
    BY <1>6, <2>1 DEF Flattens
<1> QED
  BY <1>7

(* ... and what it says of a beginning depends on nothing else. *)
LEMMA FlattensUnique ==
  ASSUME NEW f, NEW g, NEW s, NEW u, NEW n \in Nat, NEW m \in Nat, n <= m,
         Flattens(f, s, n), Flattens(g, u, m), \A i \in 1 .. n : s[i] = u[i]
  PROVE  \A i \in 1 .. n : f[i] = g[i]
<1> SUFFICES ASSUME NEW k \in 1 .. n, f[k] # g[k]
             PROVE  FALSE
  OBVIOUS
<1> DEFINE bad == {i \in 1 .. n : f[i] # g[i]}
<1>1. PICK i \in bad : \A j \in bad : i <= j
  <2>1. bad \subseteq Nat /\ bad # {}
    OBVIOUS
  <2> HIDE DEF bad
  <2> QED
    BY <2>1, Smallest
<1>2. i \in 1 .. n /\ i \in 1 .. m /\ f[i] # g[i] /\ s[i] = u[i]
  OBVIOUS
<1>3. /\ f[i] = IF i = 1 THEN s[i] ELSE f[i-1] \o s[i]
      /\ g[i] = IF i = 1 THEN u[i] ELSE g[i-1] \o u[i]
  BY <1>2, FlattensAt
<1>4. i # 1 => i - 1 \in 1 .. n /\ ~ (i <= i - 1)
  BY <1>2
<1>5. i # 1 => f[i-1] = g[i-1]
  BY <1>1, <1>4
<1> QED
  BY <1>2, <1>3, <1>5

LEMMA FlattenIs ==
  ASSUME NEW s, Len(s) \in Nat, Len(s) # 0
  PROVE  \E f : Flattens(f, s, Len(s)) /\ FlattenSeq(s) = f[Len(s)]
<1> DEFINE f == CHOOSE f : Flattens(f, s, Len(s))
<1>1. Flattens(f, s, Len(s))
  BY FlattensExists
<1>2. FlattenSeq(s) = f[Len(s)]
  BY DEF FlattenSeq, Flattens
<1> QED
  BY <1>1, <1>2

LEMMA FlattenEmpty == FlattenSeq(<<>>) = <<>>
BY DEF FlattenSeq

(* One more text. *)
LEMMA FlattenAppend ==
  ASSUME NEW S, NEW s \in Seq(Seq(S)), NEW e \in Seq(S)
  PROVE  FlattenSeq(Append(s, e)) = IF s = <<>> THEN e ELSE FlattenSeq(s) \o e
<1> DEFINE u == Append(s, e)
           n == Len(s)
<1>1. /\ n \in Nat /\ Len(u) = n + 1
      /\ \A i \in 1 .. n : u[i] = s[i]
      /\ u[n + 1] = e
  OBVIOUS
<1>2. s = <<>> <=> n = 0
  OBVIOUS
<1> HIDE DEF u, n
<1>3. PICK g : Flattens(g, u, n + 1) /\ FlattenSeq(u) = g[n + 1]
  BY <1>1, FlattenIs
<1>4. g[n + 1] = IF n + 1 = 1 THEN e ELSE g[n] \o e
  <2>1. n + 1 \in 1 .. n + 1 /\ (n + 1) - 1 = n
    BY <1>1
  <2>2. g[n + 1] = IF n + 1 = 1 THEN u[n + 1] ELSE g[(n + 1) - 1] \o u[n + 1]
    BY <1>3, <2>1, FlattensAt
  <2> QED
    BY <1>1, <2>1, <2>2
<1>5. n = 0 => FlattenSeq(u) = e
  BY <1>3, <1>4
<1>6. n # 0 => FlattenSeq(u) = FlattenSeq(s) \o e
  <2> SUFFICES ASSUME n # 0 PROVE FlattenSeq(u) = FlattenSeq(s) \o e
    OBVIOUS
  <2>1. PICK f : Flattens(f, s, n) /\ FlattenSeq(s) = f[n]
    BY <1>1, FlattenIs DEF n
  <2>2. \A i \in 1 .. n : f[i] = g[i]
    BY <1>1, <1>3, <2>1, FlattensUnique
  <2>3. n \in 1 .. n
    BY <1>1
  <2>4. n + 1 # 1
    BY <1>1
  <2> QED
    BY <1>3, <1>4, <2>1, <2>2, <2>3, <2>4
<1> QED
  BY <1>2, <1>5, <1>6 DEF u
LEMMA FlattenType ==
  ASSUME NEW S, NEW s \in Seq(Seq(S))
  PROVE  FlattenSeq(s) \in Seq(S)
<1> DEFINE n == Len(s)
<1>1. n \in Nat /\ \A i \in 1 .. n : s[i] \in Seq(S)
  OBVIOUS
<1>2. s = <<>> <=> n = 0
  OBVIOUS
<1>3. CASE n = 0
  BY <1>2, <1>3 DEF FlattenSeq
<1>4. CASE n # 0
  <2> HIDE DEF n
  <2>1. PICK f : Flattens(f, s, n) /\ FlattenSeq(s) = f[n]
    BY <1>1, <1>4, FlattenIs DEF n
  <2> SUFFICES ASSUME FlattenSeq(s) \notin Seq(S) PROVE FALSE
    OBVIOUS
  <2> DEFINE bad == {i \in 1 .. n : f[i] \notin Seq(S)}
  <2>2. bad \subseteq Nat /\ n \in bad
    BY <1>1, <1>4, <2>1
  <2>3. PICK i \in bad : \A j \in bad : i <= j
    <3> HIDE DEF bad
    <3> QED
      BY <2>2, Smallest
  <2>4. i \in 1 .. n /\ f[i] \notin Seq(S)
    OBVIOUS
  <2>5. f[i] = IF i = 1 THEN s[i] ELSE f[i-1] \o s[i]
    BY <2>1, <2>4, FlattensAt
  <2>6. i # 1 => i - 1 \in 1 .. n /\ ~ (i <= i - 1)
    BY <1>1, <2>4
  <2>7. i # 1 => f[i-1] \in Seq(S)
    BY <2>3, <2>6
  <2>8. i # 1 => f[i-1] \o s[i] \in Seq(S)
    BY <1>1, <2>4, <2>7, ConcatProperties
  <2> QED
    BY <1>1, <2>4, <2>5, <2>8
<1> QED
  BY <1>3, <1>4
-----------------------------------------------------------------------------
(* Where the words of a message are that is delivered once. *)

LEMMA Concats ==
  /\ \A s, t, u \in Text : (s \o t) \o u = s \o (t \o u)
  /\ \A s \in Text : s \o <<>> = s /\ <<>> \o s = s
  /\ \A s, t \in Text, c \in Chunk : s \o Append(t, c) = Append(s \o t, c)
  /\ \A s \in Text, c \in Chunk : s \o <<c>> = Append(s, c)
<1>1. \A s, t, u \in Text : (s \o t) \o u = s \o (t \o u)
  BY ConcatAssociative DEF Text
<1>2. \A s \in Text : s \o <<>> = s /\ <<>> \o s = s
  BY ConcatEmptySeq DEF Text
<1>3. \A s \in Text, c \in Chunk : s \o <<c>> = Append(s, c)
  BY AppendIsConcat DEF Text
<1>4. \A s, t \in Text, c \in Chunk : s \o Append(t, c) = Append(s \o t, c)
  <2> SUFFICES ASSUME NEW s \in Text, NEW t \in Text, NEW c \in Chunk
               PROVE  s \o Append(t, c) = Append(s \o t, c)
    OBVIOUS
  <2>1. <<c>> \in Text /\ s \o t \in Text
    BY Texts
  <2>2. (s \o t) \o <<c>> = s \o (t \o <<c>>)
    BY <1>1, <2>1
  <2> QED
    BY <1>3, <2>1, <2>2
<1> QED
  BY <1>1, <1>2, <1>3, <1>4

LEMMA WordsType ==
  ASSUME Inv, NEW w \in Worker
  PROVE  /\ Words(w) \in Text
         /\ pc[w] = "idle" => Words(w) = <<>>
         /\ pc[w] # "idle" => Words(w) # <<>>
<1>1. /\ said[w] \in Nat /\ Budget(w)
      /\ MaxProgress[w] \in Nat /\ MaxReport \in Nat
  BY Workers DEF Inv, Typed
<1>2. said[w] <= MaxProgress[w] + MaxReport + 2
  BY <1>1 DEF Budget, Most
<1>3. \A n \in 1 .. said[w] : <<w, n>> \in Chunk
  BY <1>1, <1>2, ChunkType
<1>4. Words(w) \in Text /\ Len(Words(w)) = said[w]
  BY <1>1, <1>3 DEF Words, Text
<1>5. /\ pc[w] # "idle" => said[w] > 0
      /\ pc[w] = "idle" => said[w] = 0
  BY <1>1 DEF Budget, Most
<1>6. Words(w) = <<>> <=> said[w] = 0
  BY <1>1, <1>4 DEF Text
<1> QED
  BY <1>1, <1>4, <1>5, <1>6

LEMMA WordsGrow ==
  ASSUME Inv, NEW w \in Worker, said'[w] = said[w] + 1, NextChunk(w) \in Chunk
  PROVE  Words(w)' = Append(Words(w), NextChunk(w))
<1> DEFINE n == said[w]
           c == NextChunk(w)
           s == [i \in 1 .. n |-> <<w, i>>]
           t == [i \in 1 .. n + 1 |-> <<w, i>>]
<1>1. n \in Nat /\ s \in Text
  BY WordsType DEF Inv, Typed, Words
<1>2. c = <<w, n + 1>>
  BY DEF NextChunk
<1>3. t \in Seq(Chunk)
  <2>1. s \in Seq(Chunk) /\ Len(s) = n
    BY <1>1 DEF Text
  <2>2. \A i \in 1 .. n : <<w, i>> \in Chunk
    <3>1. \A i \in 1 .. n : s[i] \in Chunk
      <4> HIDE DEF s
      <4> QED
        BY <2>1, ElementOfSeq
    <3> QED
      BY <3>1
  <2>3. \A i \in 1 .. n + 1 : <<w, i>> \in Chunk
    BY <1>1, <1>2, <2>2
  <2> QED
    BY <1>1, <2>3
<1>4. Append(s, c) \in Seq(Chunk)
  BY <1>1, AppendProperties DEF Text
<1>5. /\ Len(Append(s, c)) = n + 1 /\ Len(t) = n + 1
      /\ \A i \in 1 .. n + 1 : Append(s, c)[i] = t[i]
  <2>1. /\ Len(s) = n /\ s \in Seq(Chunk) /\ \A i \in 1 .. n : s[i] = <<w, i>>
    BY <1>1 DEF Text
  <2>2. Len(t) = n + 1 /\ \A i \in 1 .. n + 1 : t[i] = <<w, i>>
    BY <1>1
  <2> HIDE DEF s, t, c, n
  <2>3. /\ Len(Append(s, c)) = Len(s) + 1
        /\ \A i \in 1 .. Len(s) : Append(s, c)[i] = s[i]
        /\ Append(s, c)[Len(s) + 1] = c
    BY <2>1, AppendProperties DEF c
  <2>4. ASSUME NEW i \in 1 .. n + 1 PROVE Append(s, c)[i] = t[i]
    <3>1. CASE i \in 1 .. n
      BY <2>1, <2>2, <2>3, <3>1
    <3>2. CASE i = n + 1
      BY <1>2, <2>1, <2>2, <2>3, <3>2
    <3>3. i \in 1 .. n \/ i = n + 1
      BY <1>1
    <3> QED
      BY <3>1, <3>2, <3>3
  <2> QED
    BY <2>1, <2>2, <2>3, <2>4
<1>6. t = Append(s, c)
  <2> HIDE DEF s, t, c
  <2> QED
    BY <1>1, <1>3, <1>4, <1>5, SeqEqual
<1> QED
  BY <1>6 DEF Words

(* What the user sees, or will see of what the sender keeps. *)
Out ==
  IF ~onCard THEN FlattenSeq(texts) ELSE
  IF fallback # <<>> THEN fallback ELSE
  IF state # NoCard THEN cards[state].text ELSE <<>>

LEMMA OutIs ==
  /\ ~onCard => Out = FlattenSeq(texts)
  /\ onCard /\ fallback # <<>> => Out = fallback
  /\ onCard /\ fallback = <<>> /\ state # NoCard => Out = cards[state].text
  /\ onCard /\ fallback = <<>> /\ state = NoCard => Out = <<>>
BY DEF Out

LEMMA OutType == Inv => Out \in Text
<1> SUFFICES ASSUME Inv PROVE Out \in Text
  OBVIOUS
<1>1. FlattenSeq(texts) \in Text
  BY FlattenType DEF Inv, Typed, Text
<1>2. state # NoCard => cards[state].text \in Text
  <2> SUFFICES ASSUME state # NoCard PROVE cards[state].text \in Text
    OBVIOUS
  <2>1. state \in 1 .. Len(cards)
    BY LenProperties DEF Inv, Typed, NoCard
  <2>2. cards[state] \in Card
    BY <2>1, ElementOfSeq DEF Inv, Typed
  <2> QED
    BY <2>2 DEF Card
<1> QED
  BY <1>1, <1>2, Texts DEF Out, Inv, Typed

(* Which of the places hold something: there is at most one card, it and   *)
(* the fallback exclude each other, and nothing waits at the end.          *)
Shape(w) ==
  /\ ~onCard => cards = <<>> /\ fallback = <<>> /\ state = NoCard
  /\ onCard /\ pc[w] # "done" => texts = <<>>
  /\ state \in {NoCard, 1} /\ Len(cards) <= 1
  /\ state = 1 => /\ Len(cards) = 1 /\ fallback = <<>>
                  /\ pc[w] \notin {"stream", "failed"} => rendered[1] = cards[1].text
  /\ state = NoCard /\ fallback = <<>> =>
       cards = <<>> \/ pc[w] \in {"dropped", "rescued", "degrade", "finish_text",
                                  "finish_card", "done"}
  /\ fallback # <<>> => cardFailed
  /\ pc[w] \in {"failed", "dropped", "rescued", "degrade", "finish_text"} => cardFailed
  /\ pc[w] \in {"reply", "finish"} => unsent[w] = <<>>
  /\ pc[w] \in Sending /\ next[w] \in {"reply", "finish", "done"} => unsent[w] = <<>>

(* What is shown, in hand and waiting is everything that was said. *)
Placed(w) ==
  /\ pc[w] = "idle" =>
       texts = <<>> /\ cards = <<>> /\ fallback = <<>> /\ state = NoCard /\ unsent[w] = <<>>
  /\ pc[w] \in {"run", "report", "flush", "reply", "finish"} => Out \o unsent[w] = Words(w)
  /\ pc[w] \in {"send", "append", "store"} => Out \o (sending[w] \o unsent[w]) = Words(w)
  /\ pc[w] \in {"create", "append", "store", "stream", "failed", "dropped", "rescued",
               "degrade", "finish_text"} => onCard
  /\ pc[w] \in {"append", "store", "stream"} => obj[w] = 1 /\ state = 1
  /\ pc[w] \in {"create", "failed", "dropped", "rescued", "degrade"} => fallback = <<>>
  /\ pc[w] \in {"create", "dropped", "rescued", "degrade"} => state = NoCard
  /\ pc[w] \in {"create", "rescued", "degrade"} => sending[w] \o unsent[w] = Words(w)
  /\ pc[w] \in {"failed", "dropped"} =>
       IF obj[w] = NoCard THEN sending[w] \o unsent[w] = Words(w)
                          ELSE obj[w] = 1 /\ rendered[1] \o unsent[w] = Words(w)
  /\ pc[w] = "failed" => state = obj[w]
  /\ pc[w] = "store" => seen[w] = rendered[1]
  /\ pc[w] = "stream" => rendered[1] = Out \o sending[w] /\ rendered[1] \o unsent[w] = Words(w)
  /\ pc[w] = "degrade" => seen[w] = <<>>
  /\ pc[w] = "finish_text" => sending[w] = Words(w)
  /\ pc[w] = "pop_state" => fallback = <<>> /\ Out = Words(w)
  /\ pc[w] = "finish_card" =>
       obj[w] = 1 /\ Len(cards) = 1 /\ texts = <<>> /\ cards[1].text = Words(w)
  /\ pc[w] = "done" =>
       \/ texts = <<>> /\ Len(cards) = 1 /\ cards[1].text = Words(w)
       \/ texts # <<>> /\ FlattenSeq(texts) = Words(w) /\ (onCard => Len(texts) = 1)
       \/ wordless /\ cardFailed

Solo(w) == Alone(w) /\ ~webhookFailed => Shape(w) /\ Placed(w)
(* The handlers put what they say behind what waits, ... *)
LEMMA SoloHandler ==
  ASSUME Inv, NEW w \in Worker, Shape(w), Placed(w),
         \/ Start(w) \/ Emit(w) \/ TaskEnds(w) \/ HandlerRaises(w)
         \/ EmitNow(w) \/ ReportEnds(w) \/ BridgeFinish(w) \/ LastReply(w)
  PROVE  Shape(w)' /\ Placed(w)'
<1> USE DEF Goto, Reply, Say
<1>1. /\ pc \in [Worker -> PC] /\ next \in [Worker -> PC] /\ said \in [Worker -> Nat]
      /\ unsent \in [Worker -> Text] /\ sending \in [Worker -> Text]
      /\ unsent[w] \in Text /\ sending[w] \in Text /\ Out \in Text /\ Words(w) \in Text
      /\ Routed(w) /\ <<>> \in Text
  BY OutType, WordsType, Texts DEF Inv, Typed
<1>2. /\ state' = state /\ rendered' = rendered /\ fallback' = fallback
      /\ cards' = cards /\ texts' = texts /\ seen'[w] = seen[w] /\ obj'[w] = obj[w]
  BY HandlerTypes DEF sender, chat
<1>0. cardFailed' = cardFailed
  BY HandlerTypes DEF chat
<1>3. onCard' = onCard => Out' = Out
  BY <1>2 DEF Out
<1>4. said' = said => Words(w)' = Words(w)
  BY DEF Words
<1> DEFINE c == NextChunk(w)
<1>5. c \in Chunk /\ said'[w] = said[w] + 1 => Words(w)' = Append(Words(w), c)
  BY WordsGrow
<1>6. CASE Start(w)
  <2>1. /\ pc[w] = "idle" /\ pc'[w] = "send" /\ said'[w] = said[w] + 1
        /\ sending'[w] = <<c>> /\ unsent'[w] = unsent[w]
        /\ next'[w] = IF wordless' THEN "done" ELSE "run"
    BY <1>1, <1>6 DEF Start
  <2>2. c \in Chunk
    BY <2>1, NextChunkType
  <2>3. /\ texts = <<>> /\ cards = <<>> /\ fallback = <<>> /\ state = NoCard
        /\ unsent[w] = <<>>
    BY <2>1 DEF Placed
  <2>4. Out' = <<>>
    BY <1>2, <2>3, FlattenEmpty DEF Out
  <2>5. Words(w)' = <<c>>
    <3>1. Words(w) = <<>>
      BY <2>1, WordsType
    <3>2. Append(<<>>, c) = <<c>>
      OBVIOUS
    <3> QED
      BY <1>5, <2>1, <2>2, <3>1, <3>2
  <2>6. <<>> \o (<<c>> \o <<>>) = <<c>>
    BY <2>2, Concats, Texts
  <2>7. Placed(w)'
    BY <2>1, <2>3, <2>4, <2>5, <2>6 DEF Placed
  <2>8. Shape(w)'
    BY <1>0, <1>2, <2>1, <2>3 DEF Shape, NoCard
  <2> QED
    BY <2>7, <2>8
<1>7. ASSUME /\ pc[w] \in {"run", "report", "reply"} /\ c \in Chunk
             /\ said'[w] = said[w] + 1 /\ onCard' = onCard
      PROVE  /\ Out' \o (Append(unsent[w], c) \o <<>>) = Words(w)'
             /\ Out' \o Append(unsent[w], c) = Words(w)'
             /\ unsent[w] = <<>> => Out' \o (<<c>> \o <<>>) = Words(w)'
  <2>1. Out \o unsent[w] = Words(w)
    BY <1>7 DEF Placed
  <2>2. Append(unsent[w], c) \in Text /\ <<c>> \in Text
    BY <1>1, <1>7, Texts
  <2>3. Append(unsent[w], c) \o <<>> = Append(unsent[w], c) /\ <<c>> \o <<>> = <<c>>
    BY <2>2, Concats
  <2>4. Out \o Append(unsent[w], c) = Append(Out \o unsent[w], c)
    BY <1>1, <1>7, Concats
  <2>5. unsent[w] = <<>> => Append(unsent[w], c) = <<c>>
    OBVIOUS
  <2> HIDE DEF c
  <2> QED
    BY <1>3, <1>5, <1>7, <2>1, <2>3, <2>4, <2>5
<1>8. CASE Emit(w)
  <2>1. /\ pc[w] = "run" /\ said'[w] = said[w] + 1 /\ onCard' = onCard
        /\ wordless' = wordless
        /\ \/ /\ pc' = pc /\ next' = next /\ sending' = sending
              /\ unsent'[w] = Append(unsent[w], c)
           \/ /\ pc'[w] = "send" /\ next'[w] = "run" /\ unsent'[w] = <<>>
              /\ sending'[w] = Append(unsent[w], c)
    BY <1>1, <1>8 DEF Emit, message
  <2>2. c \in Chunk
    BY <1>8, NextChunkType DEF Emit
  <2> HIDE DEF c
  <2>3. Placed(w)'
    BY <1>7, <2>1, <2>2 DEF Placed
  <2>4. Shape(w)'
    BY <1>0, <1>2, <2>1 DEF Shape, Sending
  <2> QED
    BY <2>3, <2>4
<1>9. CASE TaskEnds(w) \/ ReportEnds(w)
  <2>1. /\ pc[w] \in {"run", "report"} /\ pc'[w] \in {"report", "flush"} /\ onCard' = onCard
        /\ said' = said /\ unsent' = unsent /\ sending' = sending /\ wordless' = wordless
    BY <1>1, <1>9 DEF TaskEnds, ReportEnds, message, bridge, local
  <2>2. Placed(w)'
    BY <1>3, <1>4, <2>1 DEF Placed
  <2>3. Shape(w)'
    BY <1>0, <1>2, <2>1 DEF Shape, Sending
  <2> QED
    BY <2>2, <2>3
<1>10. CASE HandlerRaises(w)
  <2>1. pc[w] = "run" /\ pc'[w] = "lost" /\ onCard' = onCard /\ wordless' = wordless
    BY <1>1, <1>10 DEF HandlerRaises, message
  <2>2. Placed(w)'
    BY <2>1 DEF Placed
  <2>3. Shape(w)'
    BY <1>0, <1>2, <2>1 DEF Shape, Sending
  <2> QED
    BY <2>2, <2>3
<1>11. CASE EmitNow(w)
  <2>1. /\ pc[w] = "report" /\ said'[w] = said[w] + 1 /\ onCard' = onCard
        /\ wordless' = wordless
        /\ pc'[w] = "send" /\ next'[w] = "report" /\ unsent'[w] = <<>>
        /\ sending'[w] = Append(unsent[w], c)
    BY <1>1, <1>11 DEF EmitNow, message
  <2>2. c \in Chunk
    BY <1>11, NextChunkType DEF EmitNow
  <2> HIDE DEF c
  <2>3. Placed(w)'
    BY <1>7, <2>1, <2>2 DEF Placed
  <2>4. Shape(w)'
    BY <1>0, <1>2, <2>1 DEF Shape, Sending
  <2> QED
    BY <2>3, <2>4
<1>12. CASE BridgeFinish(w)
  <2>1. /\ pc[w] = "flush" /\ said' = said /\ onCard' = onCard /\ wordless' = wordless
        /\ \/ /\ pc'[w] = "send" /\ unsent'[w] = <<>> /\ sending'[w] = unsent[w]
           \/ /\ unsent[w] = <<>> /\ pc'[w] = next[w] /\ unsent' = unsent
              /\ sending' = sending
    BY <1>1, <1>12 DEF BridgeFinish, message
  <2>2. next[w] \in {"reply", "finish"} /\ Out \o unsent[w] = Words(w)
    BY <1>1, <2>1 DEF Routed, Placed
  <2>3. Out \o (unsent[w] \o <<>>) = Words(w)
    BY <1>1, <2>2, Concats
  <2>4. Placed(w)'
    BY <1>3, <1>4, <2>1, <2>2, <2>3 DEF Placed
  <2>5. Shape(w)'
    BY <1>0, <1>2, <2>1, <2>2 DEF Shape, Sending
  <2> QED
    BY <2>4, <2>5
<1>13. CASE LastReply(w)
  <2>1. /\ pc[w] = "reply" /\ said'[w] = said[w] + 1 /\ onCard' = onCard
        /\ wordless' = wordless
        /\ pc'[w] = "send" /\ next'[w] = "finish" /\ unsent'[w] = unsent[w]
        /\ sending'[w] = <<c>>
    BY <1>1, <1>13 DEF LastReply, message
  <2>2. c \in Chunk
    BY <2>1, NextChunkType
  <2>3. unsent[w] = <<>>
    BY <2>1 DEF Shape
  <2> HIDE DEF c
  <2>4. Placed(w)'
    BY <1>7, <2>1, <2>2, <2>3 DEF Placed
  <2>5. Shape(w)'
    BY <1>0, <1>2, <2>1, <2>3 DEF Shape
  <2> QED
    BY <2>4, <2>5
<1> QED
  BY <1>6, <1>8, <1>9, <1>10, <1>11, <1>12, <1>13
(* Where a call of the sender returns to the handler: what was in hand is  *)
(* now behind what is shown.                                               *)
LEMMA SoloReturns ==
  ASSUME Inv, NEW w \in Worker, Shape(w), pc[w] \in Sending, pc'[w] = next[w],
         unsent' = unsent, Words(w)' = Words(w), onCard' = onCard, wordless' = wordless,
         Out' \in Text, Out' \o unsent[w] = Words(w),
         Shape(w)',
         onCard => texts' = <<>> /\ (state' = 1 \/ fallback' # <<>>),
         ~onCard => texts' # <<>>
  PROVE  Placed(w)'
<1>1. next[w] \in {"run", "report", "reply", "finish", "done"} /\ (next[w] = "done" => wordless)
  BY DEF Inv, Routed
<1>2. CASE next[w] # "done"
  BY <1>1, <1>2 DEF Placed
<1>3. CASE next[w] = "done"
  <2>1. unsent[w] = <<>> /\ wordless
    BY <1>1, <1>3 DEF Shape
  <2>2. Out' = Words(w)
    BY <2>1, Concats
  <2>3. \/ texts' = <<>> /\ Len(cards') = 1 /\ cards'[1].text = Words(w)'
        \/ texts' # <<>> /\ FlattenSeq(texts') = Words(w)' /\ ~onCard'
        \/ wordless' /\ cardFailed'
    <3>1. CASE ~onCard
      BY <2>2, <3>1 DEF Out
    <3>2. CASE onCard /\ state' = 1
      <4>1. fallback' = <<>> /\ Len(cards') = 1
        BY <3>2 DEF Shape
      <4> QED
        BY <2>2, <3>2, <4>1 DEF Out, NoCard
    <3>3. CASE onCard /\ fallback' # <<>>
      BY <2>1, <3>3 DEF Shape
    <3> QED
      BY <3>1, <3>2, <3>3
  <2> QED
    BY <1>3, <2>3 DEF Placed
<1> QED
  BY <1>2, <1>3

(* ... a chunk goes to where the ones before it are, ... *)
LEMMA SoloSend ==
  ASSUME Inv, NEW w \in Worker, Shape(w), Placed(w), ~webhookFailed',
         \/ ToFallback(w) \/ ToWebhook(w) \/ ToCard(w)
         \/ CreateCard(w) \/ ReadRendered(w) \/ StoreRendered(w) \/ StreamChunk(w)
  PROVE  Shape(w)' /\ Placed(w)'
<1> USE DEF Goto, message, sender, bridge, local, chat
<1>1. /\ pc \in [Worker -> PC] /\ obj \in [Worker -> 0 .. Len(cards)]
      /\ seen \in [Worker -> Text]
      /\ unsent[w] \in Text /\ sending[w] \in Text /\ Out \in Text /\ Words(w) \in Text
      /\ fallback \in Text /\ texts \in Seq(Text) /\ rendered \in Seq(Text)
      /\ Typed /\ Equipped(w) /\ Routed(w)
  BY OutType, WordsType DEF Inv, Typed
<1>0. cardFailed' = cardFailed
  BY DEF ToFallback, ToWebhook, ToCard, CreateCard, ReadRendered, StoreRendered, StreamChunk
<1>2. /\ onCard' = onCard /\ wordless' = wordless /\ said' = said /\ next' = next
      /\ unsent' = unsent /\ sending' = sending
  BY DEF ToFallback, ToWebhook, ToCard, CreateCard, ReadRendered, StoreRendered, StreamChunk
<1>3. Words(w)' = Words(w)
  BY <1>2 DEF Words
<1>4. /\ Out \o sending[w] \in Text
      /\ (Out \o sending[w]) \o unsent[w] = Out \o (sending[w] \o unsent[w])
      /\ <<>> \o sending[w] = sending[w]
  BY <1>1, Concats, Texts
<1>5. CASE ToFallback(w)
  <2>1. /\ pc[w] = "send" /\ fallback # <<>> /\ fallback' = fallback \o sending[w]
        /\ pc'[w] = next[w] /\ state' = state /\ rendered' = rendered
        /\ cards' = cards /\ texts' = texts
    BY <1>1, <1>5 DEF ToFallback
  <2>2. onCard /\ state = NoCard /\ texts = <<>>
    BY <2>1 DEF Shape
  <2>3. sending[w] # <<>>
    BY <1>1, <2>1 DEF Equipped, Sending
  <2>4. fallback' # <<>>
    BY <1>1, <2>1, <2>3, Texts
  <2>5. Out' = Out \o sending[w]
    BY <1>2, <2>1, <2>2, <2>4 DEF Out
  <2>6. Out \o (sending[w] \o unsent[w]) = Words(w)
    BY <2>1 DEF Placed
  <2>7. Shape(w)'
    BY <1>0, <1>1, <1>2, <2>1, <2>2, <2>4 DEF Shape, Sending, NoCard
  <2>8. Placed(w)'
    BY <1>2, <1>3, <1>4, <2>1, <2>2, <2>4, <2>5, <2>6, <2>7, SoloReturns DEF Sending
  <2> QED
    BY <2>7, <2>8
<1>6. CASE ToWebhook(w)
  <2>1. /\ pc[w] = "send" /\ fallback = <<>> /\ ~onCard /\ texts' = Append(texts, sending[w])
        /\ pc'[w] = next[w] /\ state' = state /\ rendered' = rendered
        /\ cards' = cards /\ fallback' = fallback
    BY <1>1, <1>6 DEF ToWebhook
  <2>2. texts' # <<>>
    BY <1>1, <2>1, AppendProperties
  <2>3. FlattenSeq(texts') = IF texts = <<>> THEN sending[w] ELSE FlattenSeq(texts) \o sending[w]
    BY <1>1, <2>1, FlattenAppend DEF Text
  <2>4. Out' = Out \o sending[w]
    BY <1>2, <1>4, <2>1, <2>3, FlattenEmpty DEF Out
  <2>5. Out \o (sending[w] \o unsent[w]) = Words(w)
    BY <2>1 DEF Placed
  <2>6. Shape(w)'
    <3>1. next[w] \in {"run", "report", "reply", "finish", "done"}
      BY <1>1, <2>1 DEF Routed, Sending
    <3> QED
      BY <1>0, <1>1, <1>2, <2>1, <3>1 DEF Shape, Sending
  <2>7. Placed(w)'
    BY <1>2, <1>3, <1>4, <2>1, <2>2, <2>4, <2>5, <2>6, SoloReturns DEF Sending
  <2> QED
    BY <2>6, <2>7
<1>7. CASE ToCard(w)
  <2>1. /\ pc[w] = "send" /\ fallback = <<>> /\ onCard /\ obj'[w] = state
        /\ pc'[w] = IF state = NoCard THEN "create" ELSE "append"
        /\ state' = state /\ rendered' = rendered /\ fallback' = fallback
        /\ cards' = cards /\ texts' = texts
    BY <1>1, <1>7 DEF ToCard
  <2>2. Out' = Out
    BY <1>2, <2>1 DEF Out
  <2>3. state \in {NoCard, 1} /\ Out \o (sending[w] \o unsent[w]) = Words(w)
    BY <2>1 DEF Shape, Placed
  <2>4. state = NoCard => Out = <<>>
    BY <2>1 DEF Out
  <2>5. sending[w] \o unsent[w] \in Text
    BY <1>1, Texts
  <2>6. <<>> \o (sending[w] \o unsent[w]) = sending[w] \o unsent[w]
    BY <2>5, Concats
  <2>7. Shape(w)'
    BY <1>0, <1>2, <2>1 DEF Shape, Sending
  <2>8. Placed(w)'
    BY <1>2, <1>3, <2>1, <2>2, <2>3, <2>4, <2>6 DEF Placed, NoCard
  <2> QED
    BY <2>7, <2>8
<1>8. CASE CreateCard(w)
  <2>1. /\ pc[w] = "create" /\ pc'[w] = "append"
        /\ cards' = Append(cards, [text |-> <<>>, finished |-> FALSE])
        /\ rendered' = Append(rendered, <<>>)
        /\ state' = Len(cards) + 1 /\ obj'[w] = Len(cards) + 1
        /\ fallback' = fallback /\ texts' = texts
    BY <1>1, <1>8 DEF CreateCard
  <2>2. onCard /\ state = NoCard /\ fallback = <<>> /\ sending[w] \o unsent[w] = Words(w)
    BY <2>1 DEF Placed
  <2>3. cards = <<>> /\ texts = <<>>
    BY <2>1, <2>2 DEF Shape
  <2>4. Len(cards) = 0 /\ Len(rendered) = 0
    BY <1>1, <2>3 DEF Typed
  <2>5. /\ Len(cards') = Len(cards) + 1 /\ cards'[Len(cards) + 1].text = <<>>
        /\ rendered'[Len(cards) + 1] = <<>>
    <3>1. /\ Len(cards') = Len(cards) + 1
          /\ cards'[Len(cards) + 1] = [text |-> <<>>, finished |-> FALSE]
          /\ rendered'[Len(cards) + 1] = <<>>
      BY <1>1, <2>1, NewCard
    <3> QED
      BY <3>1
  <2>6. /\ Len(cards') = 1 /\ cards'[1].text = <<>> /\ rendered'[1] = <<>>
        /\ state' = 1 /\ obj'[w] = 1
    BY <2>1, <2>4, <2>5
  <2>7. Out' = <<>>
    BY <1>2, <2>1, <2>2, <2>6 DEF Out, NoCard
  <2>8. <<>> \o (sending[w] \o unsent[w]) = sending[w] \o unsent[w]
    <3>1. sending[w] \o unsent[w] \in Text
      BY <1>1, Texts
    <3> QED
      BY <3>1, Concats
  <2>9. Shape(w)'
    BY <1>0, <1>2, <2>1, <2>2, <2>3, <2>6 DEF Shape, Sending, NoCard
  <2>10. Placed(w)'
    BY <1>2, <1>3, <2>1, <2>2, <2>6, <2>7, <2>8 DEF Placed
  <2> QED
    BY <2>9, <2>10
<1>9. CASE ReadRendered(w)
  <2>1. /\ pc[w] = "append" /\ pc'[w] = "store" /\ seen'[w] = rendered[obj[w]]
        /\ state' = state /\ rendered' = rendered /\ fallback' = fallback /\ obj' = obj
        /\ cards' = cards /\ texts' = texts
    BY <1>1, <1>9 DEF ReadRendered
  <2>2. Out' = Out
    BY <1>2, <2>1 DEF Out
  <2>3. Shape(w)'
    BY <1>0, <1>2, <2>1 DEF Shape, Sending
  <2>4. Placed(w)'
    BY <1>2, <1>3, <2>1, <2>2 DEF Placed
  <2> QED
    BY <2>3, <2>4
<1>10. CASE StoreRendered(w)
  <2>1. /\ pc[w] = "store" /\ pc'[w] = "stream"
        /\ rendered' = [rendered EXCEPT ![obj[w]] = seen[w] \o sending[w]]
        /\ state' = state /\ fallback' = fallback /\ obj' = obj
        /\ cards' = cards /\ texts' = texts
    BY <1>1, <1>10 DEF StoreRendered
  <2>2. /\ onCard /\ obj[w] = 1 /\ state = 1 /\ seen[w] = rendered[1]
        /\ Out \o (sending[w] \o unsent[w]) = Words(w)
    BY <2>1 DEF Placed
  <2>3. Len(cards) = 1 /\ fallback = <<>> /\ rendered[1] = cards[1].text
    BY <2>1, <2>2 DEF Shape
  <2>4. Out = cards[1].text /\ Out' = Out
    BY <1>2, <2>1, <2>2, <2>3 DEF Out, NoCard
  <2>5. rendered'[1] = Out \o sending[w]
    <3>1. 1 \in DOMAIN rendered
      BY <1>1, <2>3, LenProperties DEF Typed
    <3> QED
      BY <2>1, <2>2, <2>3, <2>4, <3>1
  <2>6. Shape(w)'
    BY <1>0, <1>2, <2>1, <2>2, <2>3 DEF Shape, Sending
  <2>7. Placed(w)'
    BY <1>2, <1>3, <1>4, <2>1, <2>2, <2>4, <2>5 DEF Placed
  <2> QED
    BY <2>6, <2>7
<1>11. CASE StreamChunk(w)
  <2>0. cards' = Shown(obj[w], sending[w])
    BY <1>11 DEF StreamChunk
  <2>1. /\ pc[w] = "stream" /\ pc'[w] = next[w]
        /\ state' = state /\ rendered' = rendered /\ fallback' = fallback
        /\ texts' = texts
    BY <1>1, <1>11 DEF StreamChunk
  <2>2. /\ onCard /\ obj[w] = 1 /\ state = 1 /\ rendered[1] = Out \o sending[w]
        /\ rendered[1] \o unsent[w] = Words(w)
    BY <2>1 DEF Placed
  <2>3. Len(cards) = 1 /\ fallback = <<>> /\ texts = <<>>
    BY <2>1, <2>2 DEF Shape
  <2>4. Out = cards[1].text
    BY <2>2, <2>3 DEF Out, NoCard
  <2>5. 1 \in DOMAIN cards
    BY <1>1, <2>3, LenProperties DEF Typed
  <2>6. Len(cards') = 1 /\ cards'[1].text = rendered[1]
    BY <1>1, <2>0, <2>2, <2>3, <2>4, <2>5, ShownType
  <2>7. Out' = rendered[1]
    <3>1. onCard' /\ fallback' = <<>> /\ state' = 1
      BY <1>2, <2>1, <2>2, <2>3
    <3>2. Out' = cards'[1].text
      BY <3>1 DEF Out, NoCard
    <3> QED
      BY <2>6, <3>2
  <2>8. next[w] \in {"run", "report", "reply", "finish", "done"}
    BY <1>1, <2>1 DEF Routed, Sending
  <2>9. Shape(w)'
    BY <1>0, <1>2, <2>1, <2>2, <2>3, <2>6, <2>8 DEF Shape, Sending
  <2>10. Placed(w)'
    BY <1>2, <1>3, <1>4, <2>1, <2>2, <2>3, <2>7, <2>9, SoloReturns DEF Sending
  <2> QED
    BY <2>9, <2>10
<1> QED
  BY <1>5, <1>6, <1>7, <1>8, <1>9, <1>10, <1>11
(* ... what a failing card showed becomes text, behind which the rest      *)
(* goes, and the end of the stream sends or closes what there is.          *)
LEMMA SoloFinish ==
  ASSUME Inv, NEW w \in Worker, Shape(w), Placed(w), ~webhookFailed',
         \/ CreateFails(w) \/ StreamFails(w)
         \/ DropState(w) \/ RescueText(w) \/ ReadFallback(w) \/ StoreFallback(w)
         \/ PopFallback(w) \/ FinishText(w) \/ PopState(w) \/ FinishCard(w)
  PROVE  Shape(w)' /\ Placed(w)'
<1> USE DEF Goto, message, sender, bridge, local, chat
<1>1. /\ pc \in [Worker -> PC] /\ obj \in [Worker -> 0 .. Len(cards)]
      /\ seen \in [Worker -> Text] /\ sending \in [Worker -> Text]
      /\ unsent[w] \in Text /\ sending[w] \in Text /\ Out \in Text /\ Words(w) \in Text
      /\ fallback \in Text /\ texts \in Seq(Text) /\ rendered \in Seq(Text)
      /\ Typed /\ Equipped(w) /\ Routed(w)
  BY OutType, WordsType DEF Inv, Typed
<1>0. \/ cardFailed' = cardFailed
      \/ cardFailed' /\ (CreateFails(w) \/ StreamFails(w) \/ FinishCard(w))
  BY DEF CreateFails, CardFails, StreamFails, DropState, RescueText, ReadFallback,
     StoreFallback, PopFallback, FinishText, PopState, FinishCard
<1>2. onCard' = onCard /\ wordless' = wordless /\ said' = said /\ unsent' = unsent /\ next' = next
  BY DEF CreateFails, StreamFails,
     DropState, RescueText, ReadFallback, StoreFallback, PopFallback, FinishText, PopState,
     FinishCard, CardFails
<1>3. Words(w)' = Words(w)
  BY <1>2 DEF Words
<1>4. \A t \in Text : t \o <<>> = t /\ <<>> \o t = t
  BY Concats
<1>5. CASE CreateFails(w)
  <2>1. /\ pc[w] = "create" /\ pc'[w] = "failed" /\ cardFailed'
        /\ state' = state /\ sending' = sending /\ obj' = obj
        /\ rendered' = rendered /\ fallback' = fallback
        /\ cards' = cards /\ texts' = texts
    BY <1>1, <1>5 DEF CreateFails, CardFails
  <2>2. /\ onCard /\ state = NoCard /\ fallback = <<>> /\ obj[w] = NoCard
        /\ sending[w] \o unsent[w] = Words(w)
    BY <1>1, <2>1 DEF Placed, Equipped
  <2>3. cards = <<>> /\ texts = <<>>
    BY <2>1, <2>2 DEF Shape
  <2>4. Shape(w)'
    BY <1>0, <1>2, <2>1, <2>2, <2>3 DEF Shape, Sending, NoCard
  <2>5. Placed(w)'
    BY <1>2, <1>3, <2>1, <2>2 DEF Placed
  <2> QED
    BY <2>4, <2>5
<1>6. CASE StreamFails(w)
  <2>0. cards' \in {cards, Shown(obj[w], sending[w])}
    BY <1>6 DEF StreamFails
  <2>1. /\ pc[w] = "stream" /\ pc'[w] = "failed" /\ cardFailed'
        /\ state' = state /\ sending' = sending /\ obj' = obj
        /\ rendered' = rendered /\ fallback' = fallback /\ texts' = texts
    BY <1>1, <1>6 DEF StreamFails, CardFails
  <2>2. onCard /\ obj[w] = 1 /\ state = 1 /\ rendered[1] \o unsent[w] = Words(w)
    BY <2>1 DEF Placed
  <2>3. Len(cards) = 1 /\ fallback = <<>> /\ texts = <<>>
    BY <2>1, <2>2 DEF Shape
  <2>4. Len(cards') = 1
    <3>1. 1 \in DOMAIN cards
      BY <1>1, <2>3, LenProperties DEF Typed
    <3>2. Len(Shown(1, sending[w])) = 1
      BY <1>1, <2>3, <3>1, ShownType
    <3> QED
      BY <2>0, <2>2, <2>3, <3>2
  <2>5. pc[w] \in Sending /\ next[w] \in {"reply", "finish", "done"} => unsent[w] = <<>>
    BY DEF Shape
  <2>6. Shape(w)'
    BY <1>0, <1>2, <2>1, <2>2, <2>3, <2>4, <2>5 DEF Shape, Sending, NoCard
  <2>7. Placed(w)'
    BY <1>2, <1>3, <2>1, <2>2, <2>3 DEF Placed, NoCard
  <2> QED
    BY <2>6, <2>7
<1>12. CASE DropState(w)
  <2>1. /\ pc[w] = "failed" /\ pc'[w] = "dropped" /\ state' = NoCard
        /\ sending' = sending /\ obj' = obj /\ cardFailed' = cardFailed
        /\ rendered' = rendered /\ fallback' = fallback
        /\ cards' = cards /\ texts' = texts
    BY <1>1, <1>12 DEF DropState
  <2>2. Shape(w)'
    BY <1>0, <1>2, <2>1 DEF Shape, Sending, NoCard
  <2>3. Placed(w)'
    BY <1>2, <1>3, <2>1 DEF Placed
  <2> QED
    BY <2>2, <2>3
<1>13. CASE RescueText(w)
  <2>1. /\ pc[w] = "dropped" /\ pc'[w] = "rescued" /\ state' = state
        /\ sending'[w] = IF obj[w] = NoCard THEN sending[w] ELSE rendered[obj[w]]
        /\ cardFailed' = cardFailed /\ rendered' = rendered /\ fallback' = fallback
        /\ cards' = cards /\ texts' = texts
    BY <1>1, <1>13 DEF RescueText
  <2>2. Shape(w)'
    BY <1>0, <1>2, <2>1 DEF Shape, Sending
  <2>3. sending'[w] \o unsent[w] = Words(w)
    BY <2>1 DEF Placed
  <2>4. Placed(w)'
    BY <1>2, <1>3, <2>1, <2>3 DEF Placed
  <2> QED
    BY <2>2, <2>4
<1>14. CASE ReadFallback(w)
  <2>1. /\ pc[w] = "rescued" /\ pc'[w] = "degrade" /\ state' = state
        /\ sending' = sending /\ seen'[w] = fallback
        /\ cardFailed' = cardFailed /\ rendered' = rendered /\ fallback' = fallback
        /\ cards' = cards /\ texts' = texts
    BY <1>1, <1>14 DEF ReadFallback
  <2>2. Shape(w)'
    BY <1>0, <1>2, <2>1 DEF Shape, Sending
  <2>3. Placed(w)'
    BY <1>2, <1>3, <2>1 DEF Placed
  <2> QED
    BY <2>2, <2>3
<1>7. CASE StoreFallback(w)
  <2>1. /\ pc[w] = "degrade" /\ pc'[w] = next[w] /\ fallback' = seen[w] \o sending[w]
        /\ state' = state /\ rendered' = rendered /\ cards' = cards /\ texts' = texts
    BY <1>1, <1>7 DEF StoreFallback
  <2>2. /\ onCard /\ state = NoCard /\ seen[w] = <<>> /\ sending[w] \o unsent[w] = Words(w)
    BY <2>1 DEF Placed
  <2>3. sending[w] # <<>>
    BY <1>1, <2>1 DEF Equipped, Sending
  <2>4. fallback' = sending[w]
    BY <1>1, <1>4, <2>1, <2>2
  <2>5. Out' = sending[w]
    BY <1>2, <2>2, <2>3, <2>4 DEF Out
  <2>6. texts = <<>>
    BY <2>1, <2>2 DEF Shape
  <2>7. pc[w] \in Sending /\ next[w] \in {"reply", "finish", "done"} => unsent[w] = <<>>
    BY DEF Shape
  <2>8. Shape(w)'
    <3>1. next[w] \in {"run", "report", "reply", "finish", "done"}
      BY <1>1, <2>1 DEF Routed, Sending
    <3>2. cardFailed /\ cardFailed'
      BY <1>0, <2>1 DEF Shape
    <3> QED
      BY <1>2, <2>1, <2>2, <2>3, <2>4, <2>6, <2>7, <3>1, <3>2 DEF Shape, Sending, NoCard
  <2>9. Placed(w)'
    BY <1>1, <1>2, <1>3, <2>1, <2>2, <2>3, <2>4, <2>5, <2>6, <2>8, SoloReturns DEF Sending
  <2> QED
    BY <2>8, <2>9
<1>8. CASE PopFallback(w)
  <2>1. /\ pc[w] = "finish" /\ pc'[w] = IF fallback = <<>> THEN "pop_state" ELSE "finish_text"
        /\ sending'[w] = fallback /\ fallback' = <<>>
        /\ state' = state /\ rendered' = rendered /\ cards' = cards /\ texts' = texts
    BY <1>1, <1>8 DEF PopFallback
  <2>2. Out = Words(w)
    <3>1. unsent[w] = <<>> /\ Out \o unsent[w] = Words(w)
      BY <2>1 DEF Shape, Placed
    <3> QED
      BY <1>1, <1>4, <3>1
  <2>3. fallback # <<>> => onCard
    BY DEF Shape
  <2>4. fallback # <<>> => fallback = Words(w)
    BY <2>2, <2>3 DEF Out
  <2>5. fallback = <<>> => Out' = Words(w)
    BY <1>2, <2>1, <2>2 DEF Out
  <2>6. Shape(w)'
    BY <1>0, <1>2, <2>1, <2>3 DEF Shape, Sending
  <2>7. Placed(w)'
    BY <1>2, <1>3, <2>1, <2>3, <2>4, <2>5 DEF Placed
  <2> QED
    BY <2>6, <2>7
<1>9. CASE FinishText(w)
  <2>1. /\ pc[w] = "finish_text" /\ pc'[w] = "done" /\ texts' = Append(texts, sending[w])
        /\ state' = state /\ rendered' = rendered /\ cards' = cards /\ fallback' = fallback
    BY <1>1, <1>9 DEF FinishText
  <2>2. onCard /\ sending[w] = Words(w)
    BY <2>1 DEF Placed
  <2>3. texts = <<>>
    BY <2>1, <2>2 DEF Shape
  <2>4. texts' # <<>> /\ Len(texts') = 1
    BY <2>1, <2>3
  <2>5. FlattenSeq(texts') = sending[w]
    BY <1>1, <2>1, <2>3, FlattenAppend DEF Text
  <2>6. Shape(w)'
    BY <1>0, <1>2, <2>1, <2>2 DEF Shape, Sending
  <2>7. Placed(w)'
    BY <1>2, <1>3, <2>1, <2>2, <2>4, <2>5 DEF Placed
  <2> QED
    BY <2>6, <2>7
<1>10. CASE PopState(w)
  <2>1. /\ pc[w] = "pop_state" /\ pc'[w] = IF state = NoCard THEN "done" ELSE "finish_card"
        /\ state' = NoCard /\ obj'[w] = state /\ fallback' = fallback
        /\ rendered' = rendered /\ cards' = cards /\ texts' = texts
    BY <1>1, <1>10 DEF PopState
  <2>2. fallback = <<>> /\ Out = Words(w) /\ Words(w) # <<>>
    BY <2>1, WordsType DEF Placed
  <2>3. CASE state = NoCard
    <3>1. ~onCard
      BY <2>2, <2>3 DEF Out
    <3>2. FlattenSeq(texts) = Words(w)
      BY <2>2, <3>1 DEF Out
    <3>3. texts # <<>>
      BY <2>2, <3>2, FlattenEmpty
    <3>4. Shape(w)'
      BY <1>0, <1>2, <2>1, <2>3 DEF Shape, Sending
    <3>5. Placed(w)'
      BY <1>2, <1>3, <2>1, <2>3, <3>1, <3>2, <3>3 DEF Placed
    <3> QED
      BY <3>4, <3>5
  <2>4. CASE state # NoCard
    <3>1. onCard /\ state = 1 /\ Len(cards) = 1 /\ texts = <<>>
      BY <2>1, <2>4 DEF Shape
    <3>2. cards[1].text = Words(w)
      BY <2>2, <3>1 DEF Out, NoCard
    <3>3. Shape(w)'
      BY <1>0, <1>2, <2>1, <2>2, <2>4, <3>1 DEF Shape, Sending, NoCard
    <3>4. Placed(w)'
      BY <1>2, <1>3, <2>1, <2>4, <3>1, <3>2 DEF Placed
    <3> QED
      BY <3>3, <3>4
  <2> QED
    BY <2>3, <2>4
<1>11. CASE FinishCard(w)
  <2>0. cards' = [cards EXCEPT ![obj[w]].finished = TRUE] \/ cards' = cards
    BY <1>11 DEF FinishCard
  <2>1. /\ pc[w] = "finish_card" /\ pc'[w] = "done" /\ texts' = texts
        /\ state' = state /\ rendered' = rendered /\ fallback' = fallback
    BY <1>1, <1>11 DEF FinishCard
  <2>2. obj[w] = 1 /\ Len(cards) = 1 /\ texts = <<>> /\ cards[1].text = Words(w)
    BY <2>1 DEF Placed
  <2>3. Len(cards') = 1 /\ cards'[1].text = cards[1].text
    <3>1. 1 \in DOMAIN cards
      BY <1>1, <2>2, LenProperties DEF Typed
    <3> DEFINE c == [cards EXCEPT ![1].finished = TRUE]
    <3>2. Len(c) = 1 /\ c[1].text = cards[1].text
      BY <1>1, <2>2, <3>1, FinishedType
    <3>3. cards' = c \/ cards' = cards
      BY <2>0, <2>2
    <3> HIDE DEF c
    <3> QED
      BY <2>2, <3>2, <3>3
  <2>4. onCard /\ cards # <<>>
    <3>1. cards # <<>>
      BY <2>2
    <3> QED
      BY <3>1 DEF Shape
  <2>5. Shape(w)'
    BY <1>0, <1>2, <2>1, <2>2, <2>3, <2>4 DEF Shape, Sending
  <2>6. Placed(w)'
    BY <1>2, <1>3, <2>1, <2>2, <2>3 DEF Placed
  <2> QED
    BY <2>5, <2>6
<1> QED
  BY <1>5, <1>6, <1>7, <1>8, <1>9, <1>10, <1>11,
     <1>12, <1>13, <1>14

LEMMA SoloStep ==
  ASSUME Inv, NEW w \in Worker, Solo(w), Handle(w)
  PROVE  Solo(w)'
<1>1. ~webhookFailed' => ~webhookFailed
  BY DEF Handle, Start, Emit, TaskEnds, HandlerRaises, EmitNow, ReportEnds, BridgeFinish,
     LastReply, ToFallback, ToWebhook, ToCard, CreateCard, CreateFails, CardFails,
     ReadRendered, StoreRendered, StreamChunk, StreamFails,
     DropState, RescueText, ReadFallback, StoreFallback,
     PopFallback, FinishText, PopState, FinishCard, chat
<1> SUFFICES ASSUME Alone(w)', ~webhookFailed' PROVE Shape(w)' /\ Placed(w)'
  BY DEF Solo
<1>2. Shape(w) /\ Placed(w)
  BY <1>1, AloneBefore DEF Solo
<1> QED
  BY <1>2, SoloHandler, SoloSend, SoloFinish DEF Handle

(* A message that is delivered once: when its handler is done and the      *)
(* webhook works, all that was said is there in order and in one place,    *)
(* whatever DingTalk failed to do with the card and whenever the progress  *)
(* was flushed.  For the usage text of a wordless message this holds as    *)
(* long as the card works.                                                 *)
THEOREM WholeAnswersAreShown == Spec => []WholeAnswerIsShown
<1>1. Init => \A w \in Worker : Solo(w)
  BY DEF Init, Solo, Shape, Placed, Sending, NoCard
<1>2. Inv /\ (\A w \in Worker : Solo(w)) /\ [Next]_vars => (\A w \in Worker : Solo(w))'
  <2> SUFFICES ASSUME Inv, \A w \in Worker : Solo(w), [Next]_vars, NEW w \in Worker
               PROVE  Solo(w)'
    OBVIOUS
  <2>1. CASE UNCHANGED vars
    BY <2>1 DEF vars, Solo, Shape, Placed, Alone, Out, Words
  <2>2. ASSUME NEW v \in Worker, Handle(v) PROVE Solo(w)'
    <3>1. CASE v = w
      BY <2>2, <3>1, SoloStep
    <3>2. CASE v # w
      BY <2>2, <3>2, AloneBefore DEF Solo
    <3> QED
      BY <3>1, <3>2
  <2> QED
    BY <2>1, <2>2 DEF Next
<1>3. (\A w \in Worker : Solo(w)) => WholeAnswerIsShown
  BY DEF WholeAnswerIsShown, IsShown, Solo, Placed
<1> QED
  BY <1>1, <1>2, <1>3, Invariance, PTL DEF Spec
=============================================================================
