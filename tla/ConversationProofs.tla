------------------------- MODULE ConversationProofs -------------------------
(***************************************************************************)
(* Proofs about Conversation, for any set of conversations, any number of  *)
(* messages and any number of lost answers and restarts.                   *)
(*                                                                         *)
(* A conversation that is still undisturbed has at most one thread at work *)
(* (Alone), and what is pending for it is at each place of that thread     *)
(* what the chat will show once the thread has said its last word (InStep).*)
(***************************************************************************)
EXTENDS Conversation, TLAPS

Said == [word : LastWord, statement : Statement, resumed : BOOLEAN]

(* A thread is started by its callback. *)
Started == \A m \in Callback : pc[m] = "idle" <=> m \notin DOMAIN inbox

(* A thread has no statement before it has read the store, nor ever when   *)
(* it describes a fault.                                                   *)
Unread ==
  \A m \in Callback :
    pc[m] \in {"idle", "route", "read", "diagnose", "usage", "diagnosis"} =>
      statement[m] = NoStatement

(* A thread clears a request only for the statement of another message,    *)
(* and that is a statement whose tables can be named.                      *)
Clearing ==
  \A m \in Callback :
    /\ pc[m] = "clear" => Resumed(m)
    /\ pc[m] \in {"clear", "run"} /\ Resumed(m) => text(statement[m]) \in Parsable

Alone ==
  \A m, n \in Callback :
    Working(m) /\ Working(n) /\ conv(m) = conv(n) /\ undisturbed[conv(m)] => m = n

(* What is pending for the conversation of a thread that works there alone.*)
Expected(m) ==
  IF pc[m] = "prompt" THEN statement[m]
  ELSE IF pc[m] = "report" \/ (pc[m] \in {"run", "error"} /\ Resumed(m))
    THEN NoStatement
    ELSE OpenQuestion(chat[conv(m)])

InStep(m) ==
  Working(m) /\ undisturbed[conv(m)] /\ pc[m] # "clear" =>
    pending[conv(m)] = Expected(m)

Inv ==
  /\ TypeOK /\ Started /\ Unread /\ Clearing /\ PendingCanBeParsed
  /\ Alone /\ StoreMatchesChat
  /\ \A m \in Callback : InStep(m)

-----------------------------------------------------------------------------
(* What a sequence of last words leaves open after one more of them. *)
LEMMA OneMoreWord ==
  ASSUME NEW S, NEW words \in Seq(S), NEW said \in S
  PROVE  OpenQuestion(Append(words, said)) =
           IF said.word = "prompt" THEN said.statement
           ELSE IF Settles(said) THEN NoStatement ELSE OpenQuestion(words)
<1> DEFINE more == Append(words, said)
           n == Len(words)
<1>1. /\ DOMAIN more = 1 .. n + 1 /\ DOMAIN words = 1 .. n /\ n \in Nat
      /\ more[n + 1] = said
      /\ \A i \in 1 .. n : more[i] = words[i]
  OBVIOUS
<1>2. IsOpen(more, n + 1) <=> said.word = "prompt"
  BY <1>1 DEF IsOpen
<1>3. \A i \in 1 .. n : IsOpen(more, i) <=> IsOpen(words, i) /\ ~Settles(said)
  <2> TAKE i \in 1 .. n
  <2>1. ASSUME IsOpen(more, i) PROVE IsOpen(words, i) /\ ~Settles(said)
    <3>1. i < n + 1 /\ n + 1 \in DOMAIN more
      BY <1>1
    <3>2. ~Settles(said)
      BY <2>1, <3>1, <1>1 DEF IsOpen
    <3>3. \A j \in DOMAIN words : j \in DOMAIN more /\ more[j] = words[j]
      BY <1>1
    <3> QED BY <2>1, <3>2, <3>3, <1>1 DEF IsOpen
  <2>2. ASSUME IsOpen(words, i), ~Settles(said) PROVE IsOpen(more, i)
    <3>1. \A j \in DOMAIN more : j = n + 1 \/ (j \in DOMAIN words /\ more[j] = words[j])
      BY <1>1
    <3> QED BY <2>2, <3>1, <1>1 DEF IsOpen
  <2> QED BY <2>1, <2>2
<1>4. CASE said.word = "prompt"
  <2>1. Settles(said)
    BY <1>4 DEF Settles
  <2>2. \A i \in DOMAIN more : IsOpen(more, i) <=> i = n + 1
    BY <1>1, <1>2, <1>3, <1>4, <2>1
  <2>3. (CHOOSE i \in DOMAIN more : IsOpen(more, i)) = n + 1
    BY <1>1, <2>2
  <2>4. n + 1 \in DOMAIN more
    BY <1>1
  <2> QED BY <1>1, <1>4, <2>2, <2>3, <2>4 DEF OpenQuestion
<1>5. CASE said.word # "prompt" /\ Settles(said)
  <2>1. \A i \in DOMAIN more : ~IsOpen(more, i)
    BY <1>1, <1>2, <1>3, <1>5
  <2> QED BY <2>1, <1>5 DEF OpenQuestion
<1>6. CASE said.word # "prompt" /\ ~Settles(said)
  <2>1. \A i \in DOMAIN more : IsOpen(more, i) <=> i \in DOMAIN words /\ IsOpen(words, i)
    BY <1>1, <1>2, <1>3, <1>6
  <2>2. CASE \E i \in DOMAIN words : IsOpen(words, i)
    <3> DEFINE first == CHOOSE i \in DOMAIN words : IsOpen(words, i)
               last  == CHOOSE i \in DOMAIN more : IsOpen(more, i)
    <3>1. first \in DOMAIN words /\ IsOpen(words, first)
      BY <2>2
    <3>2. \E i \in DOMAIN more : IsOpen(more, i)
      BY <2>1, <3>1, <1>1
    <3>3. last \in DOMAIN more /\ IsOpen(more, last)
      BY <3>2
    <3>4. last \in DOMAIN words /\ IsOpen(words, last)
      BY <2>1, <3>3
    <3>5. first = last
      <4>1. ASSUME NEW i \in DOMAIN words, NEW j \in DOMAIN words,
                   IsOpen(words, i), IsOpen(words, j), i < j
            PROVE  FALSE
        BY <4>1 DEF IsOpen, Settles
      <4>2. first \in Int /\ last \in Int
        BY <3>1, <3>4, <1>1
      <4>3. ~(first < last) /\ ~(last < first)
        BY <3>1, <3>4, <4>1
      <4> QED BY <4>2, <4>3
    <3>6. more[last] = words[first]
      BY <3>4, <3>5, <1>1
    <3> QED BY <2>2, <3>2, <3>6, <1>6 DEF OpenQuestion
  <2>3. CASE ~ \E i \in DOMAIN words : IsOpen(words, i)
    <3>1. ~ \E i \in DOMAIN more : IsOpen(more, i)
      BY <2>1, <2>3
    <3> QED BY <2>3, <3>1, <1>6 DEF OpenQuestion
  <2> QED BY <2>2, <2>3
<1> QED BY <1>4, <1>5, <1>6

(* Nothing said, nothing open. *)
LEMMA NothingOpen == OpenQuestion(<<>>) = NoStatement
  BY DEF OpenQuestion

LEMMA MonotoneSeq ==
  ASSUME NEW S, NEW T, S \subseteq T, NEW s \in Seq(S)
  PROVE  s \in Seq(T)
  OBVIOUS

LEMMA SeqElement ==
  ASSUME NEW S, NEW s \in Seq(S), NEW i \in DOMAIN s
  PROVE  s[i] \in S
  OBVIOUS

LEMMA SentIsCallback ==
  ASSUME TypeOK
  PROVE  DOMAIN inbox \subseteq Callback
<1>1. inbox \in Seq([conv : ConversationId, text : Text]) /\ Len(inbox) <= MaxCallbacks
  BY DEF TypeOK
<1>2. DOMAIN inbox = 1 .. Len(inbox) /\ Len(inbox) \in Nat
  BY <1>1
<1> QED BY <1>1, <1>2, ConstantsAssumption DEF Callback

-----------------------------------------------------------------------------
LEMMA InitInv == Init => Inv
<1> SUFFICES ASSUME Init PROVE Inv
  OBVIOUS
<1> USE ConstantsAssumption
<1>1. DOMAIN inbox = {} /\ Len(inbox) = 0 /\ \A m \in Callback : ~Working(m)
  BY DEF Init, Working
<1>2. TypeOK
  <2>1. inbox \in Seq([conv : ConversationId, text : Text]) /\ Len(inbox) <= MaxCallbacks
    BY DEF Init
  <2>2. pc \in [Callback -> PC] /\ \A m \in Callback : pc[m] \notin {"clear", "run"}
    BY DEF Init, PC
  <2>3. chat \in [ConversationId -> Seq(Said)]
    BY DEF Init
  <2> QED BY <2>1, <2>2, <2>3 DEF TypeOK, Init, Statement, Said
<1>3. Started /\ Unread /\ Clearing
  BY <1>1 DEF Started, Unread, Clearing, Init
<1>4. PendingCanBeParsed
  BY DEF PendingCanBeParsed, Init
<1>5. Alone /\ \A m \in Callback : InStep(m)
  BY <1>1 DEF Alone, InStep
<1>6. StoreMatchesChat
  BY NothingOpen DEF StoreMatchesChat, Init
<1> QED BY <1>2, <1>3, <1>4, <1>5, <1>6 DEF Inv

-----------------------------------------------------------------------------
(* A step of a thread leaves the other threads and the other conversations *)
(* alone.                                                                  *)
LEMMA HandleIsLocal ==
  ASSUME TypeOK, Started, NEW m \in Callback, Handle(m)
  PROVE  /\ Working(m) /\ m \in DOMAIN inbox /\ inbox' = inbox
         /\ conv(m) \in ConversationId
         /\ \A n \in Callback \ {m} : pc'[n] = pc[n] /\ statement'[n] = statement[n]
         /\ \A c \in ConversationId \ {conv(m)} :
              /\ pending'[c] = pending[c] /\ chat'[c] = chat[c]
              /\ undisturbed'[c] = undisturbed[c]
         /\ undisturbed'[conv(m)] => undisturbed[conv(m)]
<1>1. Working(m) /\ pc[m] # "idle"
  BY DEF Handle, Route, ReadPending, ClearAnswered, SqlCompletes, SqlBlocked,
         TablesUnreadable, SqlFails, Diagnose, Answer, AnswerLost, Working, LastWord
<1>2. m \in DOMAIN inbox /\ inbox' = inbox
  BY <1>1 DEF Started, Handle, Route, ReadPending, ClearAnswered, SqlCompletes, SqlBlocked,
         TablesUnreadable, SqlFails, Diagnose, Answer, AnswerLost
<1>3. conv(m) \in ConversationId
  <2>1. inbox[m] \in [conv : ConversationId, text : Text]
    <3>1. inbox \in Seq([conv : ConversationId, text : Text])
      BY DEF TypeOK
    <3> QED BY <1>2, <3>1, SeqElement
  <2> QED BY <2>1 DEF conv
<1> USE DEF TypeOK, Goto, history
<1>4. CASE Route(m)
  BY <1>1, <1>2, <1>3, <1>4 DEF Route
<1>5. CASE ReadPending(m)
  BY <1>1, <1>2, <1>3, <1>5 DEF ReadPending
<1>6. CASE ClearAnswered(m)
  BY <1>1, <1>2, <1>3, <1>6 DEF ClearAnswered
<1>7. CASE SqlCompletes(m)
  BY <1>1, <1>2, <1>3, <1>7 DEF SqlCompletes
<1>8. CASE SqlBlocked(m)
  BY <1>1, <1>2, <1>3, <1>8 DEF SqlBlocked
<1>9. CASE TablesUnreadable(m)
  BY <1>1, <1>2, <1>3, <1>9 DEF TablesUnreadable
<1>10. CASE SqlFails(m)
  BY <1>1, <1>2, <1>3, <1>10 DEF SqlFails
<1>11. CASE Diagnose(m)
  BY <1>1, <1>2, <1>3, <1>11 DEF Diagnose
<1>12. CASE Answer(m)
  BY <1>1, <1>2, <1>3, <1>12 DEF Answer
<1>13. CASE AnswerLost(m)
  BY <1>1, <1>2, <1>3, <1>13 DEF AnswerLost
<1> QED BY <1>4, <1>5, <1>6, <1>7, <1>8, <1>9, <1>10, <1>11, <1>12, <1>13 DEF Handle

(* What a message said, and what has been sent, stays. *)
LEMMA InboxGrows ==
  ASSUME TypeOK, [Next]_vars
  PROVE  /\ DOMAIN inbox \subseteq DOMAIN inbox'
         /\ \A m \in DOMAIN inbox : inbox'[m] = inbox[m]
         /\ Statement \subseteq Statement'
<1>1. CASE inbox' = inbox
  BY <1>1 DEF Statement
<1>2. CASE \E c \in ConversationId, said \in Text : Deliver(c, said)
  <2>1. PICK c \in ConversationId, said \in Text : Deliver(c, said)
    BY <1>2
  <2>2. inbox \in Seq([conv : ConversationId, text : Text])
    BY DEF TypeOK
  <2>3. inbox' = Append(inbox, [conv |-> c, text |-> said])
    BY <2>1 DEF Deliver
  <2> QED BY <2>2, <2>3 DEF Statement
<1>3. CASE \E m \in Callback : Handle(m)
  BY <1>1, <1>3 DEF Handle, Route, ReadPending, ClearAnswered, SqlCompletes, SqlBlocked,
     TablesUnreadable, SqlFails, Diagnose, Answer, AnswerLost
<1>4. CASE Restart \/ UNCHANGED vars
  BY <1>1, <1>4 DEF Restart, vars
<1> QED BY <1>2, <1>3, <1>4 DEF Next

-----------------------------------------------------------------------------
(* Types. *)
LEMMA TypeOfDeliver ==
  ASSUME Inv, NEW c \in ConversationId, NEW said \in Text, Deliver(c, said)
  PROVE  TypeOK'
<1> DEFINE Message == [conv : ConversationId, text : Text]
<1> USE ConstantsAssumption
<1>1. TypeOK /\ [Next]_vars
  BY DEF Inv, Next
<1>2. inbox' \in Seq(Message) /\ Len(inbox') <= MaxCallbacks /\ Len(inbox) + 1 \in Callback
  <2>1. inbox \in Seq(Message) /\ [conv |-> c, text |-> said] \in Message
    BY <1>1 DEF TypeOK
  <2>2. Len(inbox) < MaxCallbacks /\ inbox' = Append(inbox, [conv |-> c, text |-> said])
    BY DEF Deliver
  <2> QED BY <2>1, <2>2 DEF Callback
<1>3. pc' = [pc EXCEPT ![Len(inbox) + 1] = "route"] /\ "route" \in PC
  BY DEF Deliver, Goto, PC
<1>4. pc' \in [Callback -> PC] /\ \A m \in Callback : pc'[m] \in {"clear", "run"} => pc'[m] = pc[m]
  BY <1>1, <1>2, <1>3 DEF TypeOK
<1>5. Statement \subseteq Statement' /\ Said \subseteq Said'
  BY <1>1, InboxGrows DEF Said
<1>6. chat' \in [ConversationId -> Seq(Said)']
  <2>1. chat' = chat /\ chat \in [ConversationId -> Seq(Said)]
    BY <1>1 DEF Deliver, TypeOK, Said
  <2>2. \A d \in ConversationId : chat[d] \in Seq(Said')
    BY <2>1, <1>5, MonotoneSeq
  <2> QED BY <2>1, <2>2
<1>7. statement' \in [Callback -> Statement'] /\ pending' \in [ConversationId -> Statement']
  BY <1>1, <1>5 DEF Deliver, TypeOK
<1>8. undisturbed' \in [ConversationId -> BOOLEAN]
  BY <1>1 DEF Deliver, TypeOK, Quiet
<1> QED BY <1>1, <1>2, <1>4, <1>6, <1>7, <1>8 DEF TypeOK, Deliver, Said

LEMMA TypeOfRestart ==
  ASSUME Inv, Restart
  PROVE  TypeOK'
<1>1. TypeOK /\ inbox' = inbox /\ Statement' = Statement
  BY DEF Inv, Restart, Statement
<1>2. pc' \in [Callback -> PC] /\ \A m \in Callback : pc'[m] \in {"clear", "run"} => pc'[m] = pc[m]
  BY <1>1 DEF TypeOK, Restart, PC
<1>3. pending' \in [ConversationId -> Statement] /\ undisturbed' \in [ConversationId -> BOOLEAN]
  BY <1>1 DEF Restart, Statement
<1>4. faults' \in 0 .. MaxFaults
  BY <1>1, ConstantsAssumption DEF Restart, Fault, TypeOK
<1> QED BY <1>1, <1>2, <1>3, <1>4 DEF TypeOK, Restart

LEMMA TypeOfHandle ==
  ASSUME Inv, NEW m \in Callback, Handle(m)
  PROVE  TypeOK'
<1>1. TypeOK /\ inbox' = inbox /\ Statement' = Statement /\ m \in DOMAIN inbox
      /\ conv(m) \in ConversationId
  BY HandleIsLocal DEF Inv, Statement
<1>2. NoStatement \in Statement /\ m \in Statement /\ m # NoStatement
  BY <1>1 DEF Statement, NoStatement, Callback
<1>3. statement[m] \in Statement /\ pending[conv(m)] \in Statement
  BY <1>1 DEF TypeOK
<1>4. statement \in [Callback -> Statement] /\ pending \in [ConversationId -> Statement]
      /\ pc \in [Callback -> PC] /\ faults \in 0 .. MaxFaults
      /\ undisturbed \in [ConversationId -> BOOLEAN]
      /\ chat \in [ConversationId -> Seq(Said)]
      /\ \A n \in Callback : pc[n] \in {"clear", "run"} => statement[n] # NoStatement
  BY <1>1 DEF TypeOK, Said
<1>5. statement' \in [Callback -> Statement]
      /\ \A n \in Callback : pc'[n] \in {"clear", "run"} => statement'[n] # NoStatement
  <2>1. CASE ReadPending(m)
    BY <1>2, <1>3, <1>4, <2>1 DEF ReadPending, Goto
  <2>2. CASE ClearAnswered(m)
    BY <1>4, <2>2 DEF ClearAnswered, Goto
  <2>3. CASE Route(m) \/ SqlCompletes(m) \/ SqlBlocked(m) \/ TablesUnreadable(m) \/ SqlFails(m)
             \/ Diagnose(m)
    BY <1>4, <2>3 DEF Route, SqlCompletes, SqlBlocked, TablesUnreadable, SqlFails, Diagnose, Goto
  <2>4. CASE Answer(m) \/ AnswerLost(m)
    BY <1>4, <2>4 DEF Answer, AnswerLost, Goto
  <2> QED BY <2>1, <2>2, <2>3, <2>4 DEF Handle
<1>6. pc' \in [Callback -> PC]
  BY <1>4 DEF Handle, Route, ReadPending, ClearAnswered, SqlCompletes, SqlBlocked,
     TablesUnreadable, SqlFails, Diagnose, Answer, AnswerLost, Goto, PC, LastWord
<1>7. pending' \in [ConversationId -> Statement]
  BY <1>2, <1>3, <1>4 DEF Handle, Route, ReadPending, ClearAnswered, SqlCompletes, SqlBlocked,
     TablesUnreadable, SqlFails, Diagnose, Answer, AnswerLost
<1>8. chat' \in [ConversationId -> Seq(Said)]
  <2>1. CASE Answer(m)
    <3> DEFINE said == [word |-> pc[m], statement |-> statement[m], resumed |-> Resumed(m)]
    <3>1. said \in Said
      BY <1>3, <2>1 DEF Answer, Said, Resumed
    <3>2. chat[conv(m)] \in Seq(Said)
      BY <1>1, <1>4
    <3>3. Append(chat[conv(m)], said) \in Seq(Said)
      BY <3>1, <3>2
    <3> QED BY <1>4, <2>1, <3>3 DEF Answer
  <2>2. CASE ~Answer(m)
    BY <1>4, <2>2 DEF Handle, Route, ReadPending, ClearAnswered, SqlCompletes, SqlBlocked,
       TablesUnreadable, SqlFails, Diagnose, AnswerLost, history
  <2> QED BY <2>1, <2>2
<1>9. faults' \in 0 .. MaxFaults /\ undisturbed' \in [ConversationId -> BOOLEAN]
  <2>1. CASE AnswerLost(m)
    <3>1. faults < MaxFaults /\ faults' = faults + 1
          /\ undisturbed' = [undisturbed EXCEPT ![conv(m)] = FALSE]
      BY <2>1 DEF AnswerLost, Fault
    <3>2. faults' \in 0 .. MaxFaults
      BY <1>4, <3>1, ConstantsAssumption
    <3>3. undisturbed' \in [ConversationId -> BOOLEAN]
      BY <1>4, <3>1
    <3> QED BY <3>2, <3>3
  <2>2. CASE ~AnswerLost(m)
    <3>1. UNCHANGED <<undisturbed, faults>>
      BY <2>2 DEF Handle, Route, ReadPending, ClearAnswered, SqlCompletes,
         SqlBlocked, TablesUnreadable, SqlFails, Diagnose, Answer, history
    <3> QED BY <1>4, <3>1
  <2> QED BY <2>1, <2>2
<1>10. Said' = Said
  BY <1>1 DEF Said
<1> QED BY <1>1, <1>5, <1>6, <1>7, <1>8, <1>9, <1>10 DEF TypeOK, Said

-----------------------------------------------------------------------------
(* What a callback and a restart leave of the invariant. *)
LEMMA DeliverKeepsInv ==
  ASSUME Inv, NEW c \in ConversationId, NEW said \in Text, Deliver(c, said)
  PROVE  Inv'
<1> DEFINE new == Len(inbox) + 1
<1> USE ConstantsAssumption
<1>1. TypeOK /\ TypeOK' /\ [Next]_vars
  BY TypeOfDeliver DEF Inv, Next
<1>2. /\ inbox \in Seq([conv : ConversationId, text : Text]) /\ Len(inbox) < MaxCallbacks
      /\ inbox' = Append(inbox, [conv |-> c, text |-> said])
      /\ UNCHANGED <<statement, pending, chat>>
      /\ pc' = [pc EXCEPT ![new] = "route"] /\ pc \in [Callback -> PC]
      /\ undisturbed' = [undisturbed EXCEPT ![c] = @ /\ Quiet(c)]
      /\ undisturbed \in [ConversationId -> BOOLEAN]
  BY <1>1 DEF TypeOK, Deliver, Goto
<1>3. /\ DOMAIN inbox' = DOMAIN inbox \union {new} /\ new \in Callback
      /\ new \notin DOMAIN inbox /\ DOMAIN inbox \subseteq Callback
      /\ inbox'[new] = [conv |-> c, text |-> said]
      /\ \A m \in DOMAIN inbox : inbox'[m] = inbox[m] /\ inbox[m].conv \in ConversationId
  <2>1. DOMAIN inbox = 1 .. Len(inbox) /\ Len(inbox) \in Nat /\ DOMAIN inbox' = 1 .. Len(inbox) + 1
    BY <1>2
  <2>2. \A m \in DOMAIN inbox : inbox[m] \in [conv : ConversationId, text : Text]
    BY <1>2, SeqElement
  <2>3. inbox'[new] = [conv |-> c, text |-> said] /\ \A m \in DOMAIN inbox : inbox'[m] = inbox[m]
    BY <1>2, <2>1
  <2> QED BY <1>2, <2>1, <2>2, <2>3 DEF Callback
<1>4. \A m \in Callback \ {new} : pc'[m] = pc[m]
  BY <1>2
<1>5. pc[new] = "idle" /\ pc'[new] = "route"
  BY <1>2, <1>3 DEF Inv, Started
<1>6. Started'
  BY <1>3, <1>4, <1>5 DEF Inv, Started
<1>7. Unread' /\ Clearing'
  <2>1. \A m \in Callback : statement[m] \in DOMAIN inbox \union {NoStatement}
    BY <1>1 DEF TypeOK, Statement
  <2>2. Unread'
    BY <1>2, <1>4, <1>5 DEF Inv, Unread
  <2>3. Clearing'
    BY <1>2, <1>3, <1>4, <1>5, <2>1 DEF Inv, Clearing, Resumed, text
  <2> QED BY <2>2, <2>3
<1>8. PendingCanBeParsed'
  <2>1. \A d \in ConversationId : pending[d] \in DOMAIN inbox \union {NoStatement}
    BY <1>1 DEF TypeOK, Statement
  <2> QED BY <1>2, <1>3, <2>1 DEF Inv, PendingCanBeParsed, text
<1>9. \A m \in Callback : Working(m)' /\ m # new => Working(m) /\ m \in DOMAIN inbox
  BY <1>4 DEF Working, Inv, Started
<1>10. \A d \in ConversationId : undisturbed'[d] => undisturbed[d] /\ (d = c => Quiet(c))
  BY <1>2
<1>11. Alone'
  <2> SUFFICES ASSUME NEW m \in Callback, NEW n \in Callback, Working(m)', Working(n)',
                      inbox'[m].conv = inbox'[n].conv, undisturbed'[inbox'[m].conv], m # n
               PROVE  FALSE
    BY DEF Alone, conv
  <2>1. CASE m # new /\ n # new
    <3>1. Working(m) /\ Working(n) /\ inbox[m].conv = inbox[n].conv
          /\ undisturbed[inbox[m].conv]
      BY <2>1, <1>3, <1>9, <1>10
    <3> QED BY <3>1 DEF Inv, Alone, conv
  <2>2. CASE m = new
    <3>1. Working(n) /\ n \in DOMAIN inbox /\ inbox[n].conv = c /\ undisturbed'[c]
      BY <2>2, <1>3, <1>9
    <3> QED BY <3>1, <1>10 DEF Quiet, conv
  <2>3. CASE n = new
    <3>1. Working(m) /\ m \in DOMAIN inbox /\ inbox[m].conv = c /\ undisturbed'[c]
      BY <2>3, <1>3, <1>9
    <3> QED BY <3>1, <1>10 DEF Quiet, conv
  <2> QED BY <2>1, <2>2, <2>3
<1>12. StoreMatchesChat'
  <2> SUFFICES ASSUME NEW d \in ConversationId, undisturbed'[d], Quiet(d)'
               PROVE  pending'[d] = OpenQuestion(chat'[d])
    BY DEF StoreMatchesChat
  <2>1. d # c
    <3>1. PICK n \in Callback : n = new
      BY <1>3
    <3>2. n \in DOMAIN inbox' /\ inbox'[n].conv = c /\ Working(n)'
      BY <3>1, <1>3, <1>5 DEF Working
    <3> QED BY <3>2 DEF Quiet, conv
  <2>2. Quiet(d)
    <3> SUFFICES ASSUME NEW m \in DOMAIN inbox, inbox[m].conv = d PROVE ~Working(m)
      BY DEF Quiet, conv
    <3>1. m \in Callback \ {new} /\ m \in DOMAIN inbox' /\ inbox'[m].conv = d
      BY <1>3
    <3>2. ~Working(m)'
      BY <3>1 DEF Quiet, conv
    <3> QED BY <3>1, <3>2, <1>4 DEF Working
  <2> QED BY <2>2, <1>2, <1>10 DEF Inv, StoreMatchesChat
<1>13. \A m \in Callback : InStep(m)'
  <2> SUFFICES ASSUME NEW m \in Callback, Working(m)', undisturbed'[inbox'[m].conv],
                      pc'[m] # "clear"
               PROVE  pending'[inbox'[m].conv] = Expected(m)'
    BY DEF InStep, conv
  <2>1. CASE m = new
    <3>1. inbox'[m].conv = c /\ pc'[m] = "route"
      BY <2>1, <1>3, <1>5
    <3>2. pending[c] = OpenQuestion(chat[c])
      BY <3>1, <1>10 DEF Inv, StoreMatchesChat
    <3> QED BY <3>1, <3>2, <1>2 DEF Expected, conv
  <2>2. CASE m # new
    <3>1. Working(m) /\ m \in DOMAIN inbox /\ inbox'[m].conv = conv(m) /\ pc'[m] = pc[m]
          /\ undisturbed[conv(m)]
      BY <2>2, <1>3, <1>4, <1>9, <1>10 DEF conv
    <3>2. pending[conv(m)] = Expected(m)
      BY <3>1 DEF Inv, InStep
    <3> QED BY <3>1, <3>2, <1>2 DEF Expected, Resumed, conv
  <2> QED BY <2>1, <2>2
<1> QED BY <1>1, <1>6, <1>7, <1>8, <1>11, <1>12, <1>13 DEF Inv

LEMMA RestartKeepsInv ==
  ASSUME Inv, Restart
  PROVE  Inv'
<1>1. TypeOK /\ TypeOK'
  BY TypeOfRestart DEF Inv
<1>2. UNCHANGED <<inbox, statement, chat>> /\ \A c \in ConversationId : ~undisturbed'[c]
  BY DEF Restart
<1>3. \A m \in Callback : pc'[m] = IF Working(m) THEN "lost" ELSE pc[m]
  BY DEF Restart
<1>4. Started'
  BY <1>2, <1>3 DEF Inv, Started, Working
<1>5. Unread' /\ Clearing'
  BY <1>2, <1>3 DEF Inv, Unread, Clearing, Resumed, text
<1>6. PendingCanBeParsed'
  BY DEF Restart, PendingCanBeParsed
<1>7. StoreMatchesChat'
  BY <1>2 DEF StoreMatchesChat
<1>8. \A m \in Callback : ~Working(m)'
  BY <1>3 DEF Working
<1>9. Alone' /\ \A m \in Callback : InStep(m)'
  BY <1>8 DEF Alone, InStep
<1> QED BY <1>1, <1>4, <1>5, <1>6, <1>7, <1>9 DEF Inv

-----------------------------------------------------------------------------
(* What a step of a thread does to the store of its own conversation. *)
LEMMA OwnStep ==
  ASSUME Inv, NEW m \in Callback, Handle(m), undisturbed'[conv(m)]
  PROVE  IF Working(m)' THEN pc'[m] = "clear" \/ pending'[conv(m)] = Expected(m)'
                        ELSE pending'[conv(m)] = OpenQuestion(chat'[conv(m)])
<1> DEFINE c == conv(m)
<1>1. /\ TypeOK /\ Working(m) /\ inbox' = inbox /\ c \in ConversationId /\ undisturbed[c]
      /\ conv(m)' = c /\ m \in DOMAIN inbox
  BY HandleIsLocal DEF Inv, conv
<1>2. pc[m] # "clear" => pending[c] = Expected(m)
  BY <1>1 DEF Inv, InStep
<1>3. /\ pc \in [Callback -> PC] /\ statement \in [Callback -> Statement]
      /\ pending \in [ConversationId -> Statement] /\ chat \in [ConversationId -> Seq(Said)]
      /\ undisturbed \in [ConversationId -> BOOLEAN]
  BY <1>1 DEF TypeOK, Said
<1>4. pc[m] \in {"route", "read", "diagnose", "usage", "diagnosis"} => ~Resumed(m)
  BY DEF Inv, Unread, Resumed
<1>5. pc[m] = "clear" => Resumed(m)
  BY DEF Inv, Clearing
<1>6. CASE Route(m)
  BY <1>1, <1>2, <1>3, <1>6 DEF Route, Goto, Expected, history, Working
<1>7. CASE ReadPending(m)
  BY <1>1, <1>2, <1>3, <1>4, <1>7 DEF ReadPending, Goto, Expected, history, Working, Resumed
<1>8. CASE ClearAnswered(m)
  BY <1>1, <1>3, <1>5, <1>8 DEF ClearAnswered, Goto, Expected, history, Working, Resumed
<1>9. CASE SqlCompletes(m) \/ SqlBlocked(m)
  BY <1>1, <1>3, <1>9 DEF SqlCompletes, SqlBlocked, Goto, Expected, Working, LastWord
<1>10. CASE TablesUnreadable(m)
  <2>1. ~Resumed(m)
    BY <1>10 DEF TablesUnreadable, Inv, Clearing, Parsable
  <2> QED BY <1>2, <1>3, <1>10, <2>1 DEF TablesUnreadable, Goto, Working, Expected, history
<1>11. CASE SqlFails(m)
  BY <1>1, <1>2, <1>3, <1>11 DEF SqlFails, Goto, Expected, history, Working, Resumed
<1>12. CASE Diagnose(m)
  BY <1>1, <1>2, <1>3, <1>4, <1>12 DEF Diagnose, Goto, Expected, history, Working, Resumed
<1>13. CASE Answer(m)
  <2> DEFINE said == [word |-> pc[m], statement |-> statement[m], resumed |-> Resumed(m)]
  <2>1. pc[m] \in LastWord /\ pc'[m] = "done" /\ pending' = pending
        /\ chat'[c] = Append(chat[c], said)
    BY <1>1, <1>3, <1>13 DEF Answer, Goto
  <2>2. said \in Said /\ chat[c] \in Seq(Said)
    BY <1>1, <1>3, <2>1 DEF Said, Resumed
  <2>3. OpenQuestion(chat'[c]) =
          IF said.word = "prompt" THEN said.statement
          ELSE IF Settles(said) THEN NoStatement ELSE OpenQuestion(chat[c])
    BY <2>1, <2>2, OneMoreWord
  <2>4. pending[c] = Expected(m)
    BY <1>2, <2>1 DEF LastWord
  <2>5. pending[c] = OpenQuestion(chat'[c])
    BY <1>4, <2>1, <2>3, <2>4 DEF Expected, Settles, LastWord
  <2> QED BY <2>1, <2>5 DEF Working
<1>14. CASE AnswerLost(m)
  BY <1>1, <1>3, <1>14 DEF AnswerLost
<1> QED BY <1>6, <1>7, <1>8, <1>9, <1>10, <1>11, <1>12, <1>13, <1>14 DEF Handle

LEMMA HandleKeepsInv ==
  ASSUME Inv, NEW m \in Callback, Handle(m)
  PROVE  Inv'
<1> DEFINE c == conv(m)
<1>1. /\ TypeOK /\ TypeOK' /\ Started
      /\ statement \in [Callback -> Statement] /\ pending \in [ConversationId -> Statement]
      /\ pc \in [Callback -> PC]
  BY TypeOfHandle DEF Inv, TypeOK
<1>2. /\ Working(m) /\ m \in DOMAIN inbox /\ inbox' = inbox /\ c \in ConversationId
      /\ \A n \in Callback \ {m} : pc'[n] = pc[n] /\ statement'[n] = statement[n]
      /\ \A d \in ConversationId \ {c} :
           pending'[d] = pending[d] /\ chat'[d] = chat[d] /\ undisturbed'[d] = undisturbed[d]
      /\ undisturbed'[c] => undisturbed[c]
  BY <1>1, HandleIsLocal
<1>3. \A n \in Callback : conv(n)' = conv(n) /\ text(n)' = text(n)
  BY <1>2 DEF conv, text
<1>4. Started'
  <2>1. pc'[m] # "idle"
    BY <1>1 DEF Handle, Route, ReadPending, ClearAnswered, SqlCompletes, SqlBlocked,
         TablesUnreadable, SqlFails, Diagnose, Answer, AnswerLost, Goto
  <2> QED BY <2>1, <1>2 DEF Inv, Started
<1>5. Unread'
  <2> SUFFICES ASSUME pc'[m] \in {"idle", "route", "read", "diagnose", "usage", "diagnosis"}
               PROVE  statement'[m] = NoStatement
    BY <1>2 DEF Inv, Unread
  <2>1. pc[m] \in {"route", "read", "diagnose"} => statement[m] = NoStatement
    BY DEF Inv, Unread
  <2> QED BY <1>1, <2>1 DEF Handle, Route, ReadPending, ClearAnswered, SqlCompletes, SqlBlocked,
         TablesUnreadable, SqlFails, Diagnose, Answer, AnswerLost, Goto
<1>6. Clearing'
  <2> SUFFICES /\ pc'[m] = "clear" => statement'[m] \notin {NoStatement, m}
               /\ pc'[m] \in {"clear", "run"} /\ statement'[m] \notin {NoStatement, m} =>
                    text(statement'[m]) \in Parsable
    BY <1>2 DEF Inv, Clearing, Resumed, text
  <2>1. CASE ReadPending(m)
    <3>1. pending[c] # NoStatement => text(pending[c]) \in Parsable
      BY <1>2 DEF Inv, PendingCanBeParsed
    <3>2. \/ /\ pc'[m] = "clear" /\ statement'[m] = pending[c]
             /\ text(m) = "name" /\ pending[c] # NoStatement
          \/ pc'[m] = "run" /\ statement'[m] = m
          \/ pc'[m] = "usage"
      BY <1>1, <2>1 DEF ReadPending, Goto
    <3>3. "name" \notin Parsable
      BY DEF Parsable
    <3> QED BY <3>1, <3>2, <3>3
  <2>2. CASE ClearAnswered(m)
    BY <1>1, <2>2 DEF ClearAnswered, Goto, Inv, Clearing, Resumed
  <2>3. CASE ~(ReadPending(m) \/ ClearAnswered(m))
    BY <1>1, <2>3 DEF Handle, Route, SqlCompletes, SqlBlocked,
         TablesUnreadable, SqlFails, Diagnose, Answer, AnswerLost, Goto, LastWord
  <2> QED BY <2>1, <2>2, <2>3
<1>7. PendingCanBeParsed'
  <2> SUFFICES ASSUME pending'[c] # NoStatement PROVE text(pending'[c]) \in Parsable
    BY <1>2 DEF Inv, PendingCanBeParsed, text
  <2>1. CASE SqlBlocked(m)
    BY <1>1, <1>2, <2>1 DEF SqlBlocked
  <2>2. CASE ClearAnswered(m) \/ SqlCompletes(m)
    BY <1>1, <1>2, <2>2 DEF ClearAnswered, SqlCompletes
  <2>3. CASE ~(SqlBlocked(m) \/ ClearAnswered(m) \/ SqlCompletes(m))
    <3>1. pending' = pending
      BY <2>3 DEF Handle, Route, ReadPending, TablesUnreadable, SqlFails, Diagnose, Answer, AnswerLost
    <3> QED BY <1>2, <3>1 DEF Inv, PendingCanBeParsed
  <2> QED BY <2>1, <2>2, <2>3
<1>8. \A n \in Callback : Working(n)' => Working(n) /\ conv(n) \in ConversationId
  <2>1. \A n \in Callback : Working(n)' => Working(n) /\ pc[n] # "idle"
    BY <1>2 DEF Working
  <2>2. \A n \in DOMAIN inbox : inbox[n] \in [conv : ConversationId, text : Text]
    BY <1>1, SeqElement DEF TypeOK
  <2> QED BY <2>1, <2>2, <1>1 DEF Started, conv
<1>9. \A d \in ConversationId : undisturbed'[d] => undisturbed[d]
  BY <1>2
<1>10. Alone'
  <2> SUFFICES ASSUME NEW n \in Callback, NEW o \in Callback, Working(n)', Working(o)',
                      conv(n) = conv(o), undisturbed'[conv(n)]
               PROVE  n = o
    BY <1>3 DEF Alone
  <2> QED BY <1>8, <1>9 DEF Inv, Alone
<1>11. \A n \in Callback \ {m} : Working(n) /\ undisturbed'[conv(n)] => conv(n) # c
  BY <1>2, <1>9 DEF Inv, Alone
<1>12. \A n \in Callback : InStep(n)'
  <2> SUFFICES ASSUME NEW n \in Callback, Working(n)', undisturbed'[conv(n)], pc'[n] # "clear"
               PROVE  pending'[conv(n)] = Expected(n)'
    BY <1>3 DEF InStep
  <2>1. CASE n = m
    BY <2>1, OwnStep
  <2>2. CASE n # m
    <3>1. Working(n) /\ conv(n) \in ConversationId \ {c} /\ undisturbed[conv(n)] /\ pc[n] # "clear"
      BY <2>2, <1>2, <1>8, <1>9, <1>11
    <3>2. pending[conv(n)] = Expected(n)
      BY <3>1 DEF Inv, InStep
    <3>3. pc'[n] = pc[n] /\ statement'[n] = statement[n] /\ pending'[conv(n)] = pending[conv(n)]
          /\ chat'[conv(n)] = chat[conv(n)]
      BY <2>2, <3>1, <1>2
    <3> QED BY <3>2, <3>3, <1>3 DEF Expected, Resumed
  <2> QED BY <2>1, <2>2
<1>13. StoreMatchesChat'
  <2> SUFFICES ASSUME NEW d \in ConversationId, undisturbed'[d], Quiet(d)'
               PROVE  pending'[d] = OpenQuestion(chat'[d])
    BY DEF StoreMatchesChat
  <2>1. CASE d = c
    <3>1. ~Working(m)'
      BY <2>1, <1>2, <1>3 DEF Quiet
    <3> QED BY <2>1, <3>1, OwnStep
  <2>2. CASE d # c
    <3>1. Quiet(d)
      <4> SUFFICES ASSUME NEW n \in DOMAIN inbox, conv(n) = d PROVE ~Working(n)
        BY DEF Quiet
      <4>1. n \in Callback \ {m} /\ conv(n)' = d
        BY <2>2, <1>1, <1>3, SentIsCallback
      <4>2. ~Working(n)'
        BY <4>1, <1>2 DEF Quiet
      <4> QED BY <4>1, <4>2, <1>2 DEF Working
    <3> QED BY <2>2, <3>1, <1>2 DEF Inv, StoreMatchesChat
  <2> QED BY <2>1, <2>2
<1> QED BY <1>1, <1>4, <1>5, <1>6, <1>7, <1>10, <1>12, <1>13 DEF Inv

LEMMA StepInv == Inv /\ [Next]_vars => Inv'
<1> SUFFICES ASSUME Inv, [Next]_vars PROVE Inv'
  OBVIOUS
<1>1. CASE \E c \in ConversationId, said \in Text : Deliver(c, said)
  BY <1>1, DeliverKeepsInv
<1>2. CASE \E m \in Callback : Handle(m)
  BY <1>2, HandleKeepsInv
<1>3. CASE Restart
  BY <1>3, RestartKeepsInv
<1>4. CASE UNCHANGED vars
  <2> USE <1>4 DEF vars, Inv
  <2>1. TypeOK'
    BY DEF TypeOK, Statement
  <2>2. Started' /\ Unread' /\ Clearing' /\ PendingCanBeParsed'
    BY DEF Started, Unread, Clearing, PendingCanBeParsed, Resumed, text
  <2>3. \A m \in Callback : Working(m)' = Working(m) /\ conv(m)' = conv(m)
    BY DEF Working, conv
  <2>4. \A c \in ConversationId : Quiet(c)' = Quiet(c)
    BY DEF Quiet, Working, conv
  <2>5. Alone'
    BY <2>3 DEF Alone
  <2>6. StoreMatchesChat'
    BY <2>4 DEF StoreMatchesChat
  <2>7. \A m \in Callback : InStep(m)'
    BY <2>3 DEF InStep, Expected, Resumed
  <2> QED BY <2>1, <2>2, <2>5, <2>6, <2>7
<1> QED BY <1>1, <1>2, <1>3, <1>4 DEF Next

LEMMA Invariance == Spec => []Inv
<1>1. Init => Inv
  BY InitInv
<1>2. Inv /\ [Next]_vars => Inv'
  BY StepInv
<1> QED BY <1>1, <1>2, PTL DEF Spec

-----------------------------------------------------------------------------
(* The variables keep their types, and run_sql is only given statements    *)
(* that somebody sent.                                                     *)
THEOREM TypeCorrect == Spec => []TypeOK
<1>1. Inv => TypeOK
  BY DEF Inv
<1> QED BY <1>1, Invariance, PTL

(* However many threads, conversations, lost answers and restarts: as long *)
(* as the messages of a conversation are handled one after the other, what *)
(* is pending for it is the question that the chat leaves open.            *)
THEOREM StoreFollowsChat == Spec => []StoreMatchesChat
<1>1. Inv => StoreMatchesChat
  BY DEF Inv
<1> QED BY <1>1, Invariance, PTL

(* Whatever is pending can be qualified with the database name of an       *)
(* answer.                                                                 *)
THEOREM PendingIsReadable == Spec => []PendingCanBeParsed
<1>1. Inv => PendingCanBeParsed
  BY DEF Inv
<1> QED BY <1>1, Invariance, PTL
=============================================================================
