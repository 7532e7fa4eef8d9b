-------------------------- MODULE SseStreamProofs --------------------------
(***************************************************************************)
(* The streams and the service providers of SseStream, for any number of   *)
(* requests, progress events and ways to cut a report.                     *)
(*                                                                         *)
(* A provider: the lock is held exactly while its factory runs, and it     *)
(* runs only while nothing is stored.  A stream: what was sent and what is *)
(* queued are one sequence in order, below a ceiling that rises with the   *)
(* place at which the worker stands; the worker passes the place that puts *)
(* a verdict before it puts the end.                                       *)
(***************************************************************************)
EXTENDS SseStream, FiniteSetTheorems, SequenceTheorems, TLAPS

(* The events by their place in a stream. *)
LEMMA Ranks ==
  /\ Rank("ready") = 1 /\ Rank("progress") = 2
  /\ Rank("markdown") = 3 /\ Rank("prompt") = 3
  /\ Rank("final_completed") = 4 /\ Rank("final_failed") = 4
  /\ Rank("error") = 4 /\ Rank("end") = 5 /\ Rank("done") = 5
BY DEF Rank

LEMMA RankType == \A e \in EventType : Rank(e.event) \in 1 .. 5
BY Ranks DEF EventType, EventName

LEMMA EventTypes ==
  /\ \A name \in EventName : Event(name) \in EventType /\ Event(name).event = name
  /\ \A n \in Nat : ReportChunk(n) \in EventType /\ ReportChunk(n).event = "markdown"
  /\ Prompt \in EventType /\ Prompt.event = "prompt"
  /\ \A o \in Outcome : Final(o) \in EventType /\ Rank(Final(o).event) = 4
BY Ranks DEF Event, ReportChunk, Prompt, Final, EventType, EventName

-----------------------------------------------------------------------------
(* Sequences in order. *)

InOrder(s) == \A i, j \in DOMAIN s : i < j => Before(s[i], s[j])

AllBefore(s, t) == \A i \in DOMAIN s, j \in DOMAIN t : Before(s[i], t[j])

(* The queue t of a stream that has sent s grows by e. *)
LEMMA PutInOrder ==
  ASSUME NEW s \in Seq(EventType), NEW t \in Seq(EventType), NEW e \in EventType,
         InOrder(t), AllBefore(s, t),
         \A i \in DOMAIN s : Before(s[i], e), \A i \in DOMAIN t : Before(t[i], e)
  PROVE  /\ Append(t, e) \in Seq(EventType)
         /\ InOrder(Append(t, e)) /\ AllBefore(s, Append(t, e))
<1> DEFINE u == Append(t, e)
<1>1. /\ u \in Seq(EventType) /\ Len(u) = Len(t) + 1 /\ Len(t) \in Nat
      /\ DOMAIN u = 1 .. Len(t) + 1 /\ DOMAIN t = 1 .. Len(t)
      /\ \A i \in 1 .. Len(t) : u[i] = t[i]
      /\ u[Len(t) + 1] = e
  OBVIOUS
<1> HIDE DEF u
<1>2. InOrder(u)
  <2> SUFFICES ASSUME NEW i \in DOMAIN u, NEW j \in DOMAIN u, i < j
               PROVE  Before(u[i], u[j])
    BY DEF InOrder
  <2>1. i \in 1 .. Len(t)
    BY <1>1
  <2>2. CASE j \in 1 .. Len(t)
    BY <1>1, <2>1, <2>2 DEF InOrder
  <2>3. CASE j = Len(t) + 1
    BY <1>1, <2>1, <2>3
  <2> QED
    BY <1>1, <2>2, <2>3
<1>3. AllBefore(s, u)
  <2> SUFFICES ASSUME NEW i \in DOMAIN s, NEW j \in DOMAIN u
               PROVE  Before(s[i], u[j])
    BY DEF AllBefore
  <2>1. CASE j \in 1 .. Len(t)
    BY <1>1, <2>1 DEF AllBefore
  <2>2. CASE j = Len(t) + 1
    BY <1>1, <2>2
  <2> QED
    BY <1>1, <2>1, <2>2
<1> QED
  BY <1>1, <1>2, <1>3 DEF u

(* The first event of the queue t is sent, as an event e of the same rank. *)
LEMMA SendInOrder ==
  ASSUME NEW s \in Seq(EventType), NEW t \in Seq(EventType), NEW e \in EventType,
         t # <<>>, Rank(e.event) = Rank(t[1].event),
         InOrder(s), InOrder(t), AllBefore(s, t)
  PROVE  /\ Append(s, e) \in Seq(EventType) /\ Tail(t) \in Seq(EventType)
         /\ InOrder(Append(s, e)) /\ InOrder(Tail(t))
         /\ AllBefore(Append(s, e), Tail(t))
<1> DEFINE u == Append(s, e)
           v == Tail(t)
<1>1. /\ u \in Seq(EventType) /\ Len(s) \in Nat
      /\ DOMAIN u = 1 .. Len(s) + 1 /\ DOMAIN s = 1 .. Len(s)
      /\ \A i \in 1 .. Len(s) : u[i] = s[i]
      /\ u[Len(s) + 1] = e
  OBVIOUS
<1>2. /\ v \in Seq(EventType) /\ Len(t) \in Nat /\ Len(t) > 0
      /\ DOMAIN v = 1 .. Len(t) - 1 /\ DOMAIN t = 1 .. Len(t)
      /\ \A i \in 1 .. Len(t) - 1 : v[i] = t[i + 1]
  OBVIOUS
<1> HIDE DEF u, v
<1>3. 1 \in DOMAIN t
  BY <1>2
<1>4. \A f : Before(f, t[1]) => Before(f, e)
  BY DEF Before
<1>5. \A f : Before(t[1], f) => Before(e, f)
  BY DEF Before
<1>6. \A j \in DOMAIN v : j + 1 \in DOMAIN t /\ v[j] = t[j + 1] /\ 1 < j + 1
  BY <1>2
<1>7. InOrder(u)
  <2> SUFFICES ASSUME NEW i \in DOMAIN u, NEW j \in DOMAIN u, i < j
               PROVE  Before(u[i], u[j])
    BY DEF InOrder
  <2>1. i \in 1 .. Len(s)
    BY <1>1
  <2>2. CASE j \in 1 .. Len(s)
    BY <1>1, <2>1, <2>2 DEF InOrder
  <2>3. CASE j = Len(s) + 1
    BY <1>1, <1>3, <1>4, <2>1, <2>3 DEF AllBefore
  <2> QED
    BY <1>1, <2>2, <2>3
<1>8. InOrder(v)
  <2> SUFFICES ASSUME NEW i \in DOMAIN v, NEW j \in DOMAIN v, i < j
               PROVE  Before(v[i], v[j])
    BY DEF InOrder
  <2>1. i + 1 < j + 1
    BY <1>2
  <2> QED
    BY <1>6, <2>1 DEF InOrder
<1>9. AllBefore(u, v)
  <2> SUFFICES ASSUME NEW i \in DOMAIN u, NEW j \in DOMAIN v
               PROVE  Before(u[i], v[j])
    BY DEF AllBefore
  <2>1. CASE i \in 1 .. Len(s)
    BY <1>1, <1>6, <2>1 DEF AllBefore
  <2>2. CASE i = Len(s) + 1
    BY <1>1, <1>3, <1>5, <1>6, <2>2 DEF InOrder
  <2> QED
    BY <1>1, <2>1, <2>2
<1> QED
  BY <1>1, <1>2, <1>7, <1>8, <1>9 DEF u, v

-----------------------------------------------------------------------------
(* The services. *)

(* A request that has not asked its provider has no service yet.           *)
Asking == \A r \in Request :
  /\ pc[r] \in {"idle", "get", "lock", "build"} => used[r] = NoService
  /\ client[r] \in {"idle", "accepted"} => pc[r] = "idle"

(* Who holds a lock runs the factory.                                      *)
Held == \A p \in Provider, r \in Request :
  lock[p] = r => pc[r] = "build" /\ providerOf(r) = p

(* A factory runs under the lock, for a provider that holds nothing.       *)
Building == \A r \in Request : pc[r] = "build" =>
  /\ lock[providerOf(r)] = r
  /\ service[providerOf(r)] = NoService

(* It is called once, before anything is stored. *)
CalledOnce == \A p \in Provider :
  built[p] = IF service[p] = NoService THEN 0 ELSE 1

(* Whoever has a service has the one that is stored. *)
UsedIsStored == \A r \in Request :
  used[r] # NoService => used[r] = service[providerOf(r)]

-----------------------------------------------------------------------------
(* The streams. *)

(* The highest rank of what the worker has put at each of its places.      *)
Ceiling(place) ==
  CASE place \in {"report", "final"} -> 3
    [] place = "finally" -> 4
    [] place = "ended" -> 5
    [] OTHER -> 2

Below(s, n) == \A i \in DOMAIN s : Rank(s[i].event) <= n

Has(s, n) == \E i \in DOMAIN s : Rank(s[i].event) = n

(* The stream of request r: in order, below the ceiling, and with a        *)
(* verdict once the worker is past it.                                     *)
Streamed(r) ==
  /\ InOrder(sent[r]) /\ InOrder(events[r]) /\ AllBefore(sent[r], events[r])
  /\ Below(sent[r], Ceiling(pc[r])) /\ Below(events[r], Ceiling(pc[r]))
  /\ pc[r] \in {"finally", "ended"} /\ kind[r] # "record" =>
       Has(sent[r], 4) \/ Has(events[r], 4)

(* The client's end of it: nothing before "ready", nothing after "end".    *)
Received(r) ==
  /\ client[r] \in {"idle", "accepted", "waiting"} => sent[r] = <<>>
  /\ client[r] \in {"idle", "accepted"} => events[r] = <<>>
  /\ client[r] = "reading" => sent[r] # <<>>
  /\ sent[r] # <<>> => sent[r][1].event = "ready"
  /\ client[r] = "closed" /\ kind[r] # "record" =>
       /\ sent[r][Len(sent[r])].event = "end"
       /\ Rank(sent[r][Len(sent[r]) - 1].event) = 4
       /\ pc[r] = "ended" /\ events[r] = <<>>

Inv ==
  /\ TypeOK /\ Asking /\ Building /\ CalledOnce /\ UsedIsStored
  /\ \A r \in Request : Streamed(r) /\ Received(r)

-----------------------------------------------------------------------------

LEMMA InitInv == Init => Inv
<1> SUFFICES ASSUME Init PROVE Inv
  OBVIOUS
<1> USE DEF Init
<1>1. TypeOK
  BY HttpAssumption DEF TypeOK, Outcome, NoRequest, Request, Connection, Place
<1>2. Asking /\ Building /\ CalledOnce /\ UsedIsStored
  BY DEF Asking, Building, CalledOnce, UsedIsStored, Provider, providerOf, NoService
<1>3. ASSUME NEW r \in Request PROVE Streamed(r) /\ Received(r)
  <2>1. /\ sent[r] = <<>> /\ events[r] = <<>> /\ pc[r] = "idle"
        /\ client[r] = "idle" /\ DOMAIN sent[r] = {} /\ DOMAIN events[r] = {}
    OBVIOUS
  <2>2. Streamed(r)
    BY <2>1 DEF Streamed, InOrder, AllBefore, Below
  <2>3. Received(r)
    BY <2>1 DEF Received
  <2> QED
    BY <2>2, <2>3
<1> QED
  BY <1>1, <1>2, <1>3 DEF Inv

(* A step of r leaves the other requests alone. *)
LEMMA StepIsLocal ==
  ASSUME TypeOK, NEW r \in Request,
         \/ \E k \in Kind : Receive(r, k)
         \/ ReceiveRecord(r) \/ Open(r) \/ Yield(r) \/ Disconnect(r)
         \/ Work(r)
  PROVE  /\ kind' \in [Request -> Kind \union {"none"}]
         /\ \A q \in Request \ {r} :
              /\ kind'[q] = kind[q] /\ client'[q] = client[q] /\ pc'[q] = pc[q]
              /\ events'[q] = events[q] /\ sent'[q] = sent[q]
              /\ outcome'[q] = outcome[q] /\ used'[q] = used[q]
<1> USE DEF Put, Send, Goto, GetReturns, worker, provider
<1>0. /\ kind \in [Request -> Kind \union {"none"}]
      /\ client \in [Request -> Connection] /\ pc \in [Request -> Place]
      /\ events \in [Request -> Seq(EventType)] /\ sent \in [Request -> Seq(EventType)]
      /\ outcome \in [Request -> Outcome] /\ used \in [Request -> Service \union {NoService}]
      /\ "record" \in Kind
  BY DEF TypeOK, Kind
<1>1. CASE (\E k \in Kind : Receive(r, k)) \/ ReceiveRecord(r) \/ Disconnect(r)
  BY <1>0, <1>1 DEF Receive, ReceiveRecord, Disconnect
<1>5. CASE Open(r)
  BY <1>0, <1>5 DEF Open
<1>6. CASE Yield(r)
  BY <1>0, <1>6 DEF Yield
<1>2. CASE GetWithoutLock(r) \/ TakeLock(r) \/ Build(r)
  BY <1>0, <1>2 DEF GetWithoutLock, TakeLock, Build
<1>3. CASE EmitProgress(r) \/ TaskRaises(r) \/ TaskReturns(r) \/ PutPrompt(r)
  BY <1>0, <1>3 DEF EmitProgress, TaskRaises, TaskReturns, PutPrompt
<1>4. CASE PutReport(r) \/ PutFinal(r) \/ PutDone(r) \/ Record(r)
  BY <1>0, <1>4 DEF PutReport, PutFinal, PutDone, Record
<1> QED
  BY <1>1, <1>2, <1>3, <1>4, <1>5, <1>6 DEF Work

LEMMA ChunksAreCounted ==
  ASSUME NEW r \in Request, sent[r] \in Seq(EventType), events[r] \in Seq(EventType)
  PROVE  ChunksPut(r) \in Nat
<1> DEFINE stream == sent[r] \o events[r]
           shown  == {i \in DOMAIN stream : stream[i].event = "markdown"}
<1>1. stream \in Seq(EventType)
  OBVIOUS
<1>2. DOMAIN stream = 1 .. Len(stream) /\ Len(stream) \in Nat
  <2> HIDE DEF stream
  <2> QED
    BY <1>1
<1>3. IsFiniteSet(DOMAIN stream)
  <2> HIDE DEF stream
  <2> QED
    BY <1>2, FS_Interval
<1>4. IsFiniteSet(shown)
  BY <1>3, FS_Subset
<1> QED
  BY <1>4, FS_CardinalityType DEF ChunksPut, Emitted

(* TypeOK without the condition on the lock. *)
LEMMA TypeStep ==
  ASSUME Inv, NEW r \in Request,
         \/ \E k \in Kind : Receive(r, k)
         \/ ReceiveRecord(r) \/ Open(r) \/ Yield(r) \/ Disconnect(r)
         \/ Work(r)
  PROVE  /\ client' \in [Request -> Connection]
         /\ pc' \in [Request -> Place]
         /\ events' \in [Request -> Seq(EventType)]
         /\ sent' \in [Request -> Seq(EventType)]
         /\ outcome' \in [Request -> Outcome]
         /\ service' \in [Provider -> Service \union {NoService}]
         /\ lock' \in [Provider -> {NoRequest} \union Request]
         /\ used' \in [Request -> Service \union {NoService}]
         /\ built' \in [Provider -> Nat]
<1> USE DEF Put, Send, Goto, GetReturns, worker, provider
<1>0. /\ client \in [Request -> Connection]
      /\ pc \in [Request -> Place]
      /\ events \in [Request -> Seq(EventType)]
      /\ sent \in [Request -> Seq(EventType)]
      /\ outcome \in [Request -> Outcome]
      /\ service \in [Provider -> Service \union {NoService}]
      /\ lock \in [Provider -> {NoRequest} \union Request]
      /\ used \in [Request -> Service \union {NoService}]
      /\ built \in [Provider -> Nat]
      /\ providerOf(r) \in Provider
  BY DEF Inv, TypeOK, providerOf, Provider
<1>1. \A name \in EventName : Event(name) \in EventType
  BY EventTypes
<1>2. /\ "ready" \in EventName /\ "progress" \in EventName /\ "error" \in EventName
      /\ "done" \in EventName /\ "end" \in EventName
  BY DEF EventName
<1>3. /\ "accepted" \in Connection /\ "waiting" \in Connection
      /\ "reading" \in Connection /\ "closed" \in Connection
      /\ "gone" \in Connection
  BY DEF Connection
<1>4. /\ "get" \in Place /\ "lock" \in Place /\ "build" \in Place
      /\ "run" \in Place /\ "prompt" \in Place /\ "report" \in Place
      /\ "final" \in Place /\ "finally" \in Place /\ "ended" \in Place
  BY DEF Place
<1>5. /\ "completed" \in Outcome /\ "failed" \in Outcome
      /\ "blocked" \in Outcome /\ "raised" \in Outcome
  BY DEF Outcome
<1>6. CASE \E k \in Kind : Receive(r, k)
  BY <1>0, <1>3, <1>6 DEF Receive
<1>7. CASE ReceiveRecord(r)
  BY <1>0, <1>3, <1>4, <1>7 DEF ReceiveRecord
<1>8. CASE Disconnect(r)
  BY <1>0, <1>3, <1>8 DEF Disconnect
<1>9. CASE Open(r)
  <2>1. Append(sent[r], Event("ready")) \in Seq(EventType)
        /\ <<Event("error"), Event("done")>> \in Seq(EventType)
    BY <1>0, <1>1, <1>2
  <2>2. client' \in [Request -> Connection] /\ pc' \in [Request -> Place]
    BY <1>0, <1>3, <1>4, <1>9 DEF Open
  <2>3. events' \in [Request -> Seq(EventType)] /\ sent' \in [Request -> Seq(EventType)]
    BY <1>0, <1>9, <2>1 DEF Open
  <2> QED
    BY <1>0, <1>9, <2>2, <2>3 DEF Open
<1>10. CASE Yield(r)
  <2>1. events[r] \in Seq(EventType) /\ events[r] # <<>> /\ sent[r] \in Seq(EventType)
    BY <1>0, <1>10 DEF Yield
  <2>2. Head(events[r]) \in EventType /\ Tail(events[r]) \in Seq(EventType)
    BY <2>1
  <2>3. /\ Append(sent[r], Event("end")) \in Seq(EventType)
        /\ Append(sent[r], Head(events[r])) \in Seq(EventType)
    BY <1>1, <1>2, <2>1, <2>2
  <2>4. client' \in [Request -> Connection] /\ pc' \in [Request -> Place]
    <3>1. CASE client' = client
      BY <1>0, <1>10, <3>1 DEF Yield
    <3>2. CASE client' = [client EXCEPT ![r] = "closed"]
      BY <1>0, <1>3, <1>10, <3>2 DEF Yield
    <3> QED
      BY <1>10, <3>1, <3>2 DEF Yield
  <2>5. events' \in [Request -> Seq(EventType)]
    BY <1>0, <1>10, <2>2 DEF Yield
  <2>6. sent' \in [Request -> Seq(EventType)]
    BY <1>0, <1>10, <2>3 DEF Yield
  <2> QED
    BY <1>0, <1>10, <2>4, <2>5, <2>6 DEF Yield
<1>11. CASE GetWithoutLock(r)
  <2>1. CASE service[providerOf(r)] # NoService
    <3>1. /\ used' = [used EXCEPT ![r] = service[providerOf(r)]]
          /\ pc' = [pc EXCEPT ![r] = "run"]
          /\ UNCHANGED <<client, sent, events, outcome, service, lock, built>>
      BY <1>11, <2>1 DEF GetWithoutLock
    <3>2. service[providerOf(r)] \in Service \union {NoService}
      BY <1>0
    <3> QED
      BY <1>0, <1>4, <3>1, <3>2
  <2>2. CASE service[providerOf(r)] = NoService
    BY <1>0, <1>4, <1>11, <2>2 DEF GetWithoutLock
  <2> QED
    BY <2>1, <2>2
<1>12. CASE TakeLock(r)
  <2>1. CASE service[providerOf(r)] # NoService
    <3>1. /\ used' = [used EXCEPT ![r] = service[providerOf(r)]]
          /\ pc' = [pc EXCEPT ![r] = "run"]
          /\ UNCHANGED <<client, sent, events, outcome, service, lock, built>>
      BY <1>12, <2>1 DEF TakeLock
    <3>2. service[providerOf(r)] \in Service \union {NoService}
      BY <1>0
    <3> QED
      BY <1>0, <1>4, <3>1, <3>2
  <2>2. CASE service[providerOf(r)] = NoService
    BY <1>0, <1>4, <1>12, <2>2 DEF TakeLock
  <2> QED
    BY <2>1, <2>2
<1>13. CASE Build(r)
  BY <1>0, <1>4, <1>13 DEF Build
(* The steps of the task put an event, go on, and note the outcome.        *)
<1>14. ASSUME NEW e \in EventType,
              events' \in {events, [events EXCEPT ![r] = Append(@, e)]},
              NEW place \in Place, pc' \in {pc, [pc EXCEPT ![r] = place]},
              NEW o \in Outcome, outcome' \in {outcome, [outcome EXCEPT ![r] = o]},
              UNCHANGED <<sent, used, service, lock, built>>,
              client' \in {client, [client EXCEPT ![r] = "closed"]}
       PROVE  /\ client' \in [Request -> Connection]
              /\ pc' \in [Request -> Place]
              /\ events' \in [Request -> Seq(EventType)]
              /\ sent' \in [Request -> Seq(EventType)]
              /\ outcome' \in [Request -> Outcome]
              /\ service' \in [Provider -> Service \union {NoService}]
              /\ lock' \in [Provider -> {NoRequest} \union Request]
              /\ used' \in [Request -> Service \union {NoService}]
              /\ built' \in [Provider -> Nat]
  <2>1. Append(events[r], e) \in Seq(EventType)
    BY <1>0, <1>14
  <2>2. events' \in [Request -> Seq(EventType)]
    BY <1>0, <1>14, <2>1
  <2>3. client' \in [Request -> Connection]
    BY <1>0, <1>3, <1>14
  <2>4. pc' \in [Request -> Place]
    BY <1>0, <1>14
  <2>5. outcome' \in [Request -> Outcome]
    BY <1>0, <1>14
  <2> QED
    BY <1>0, <1>14, <2>2, <2>3, <2>4, <2>5
<1>15. CASE EmitProgress(r)
  BY <1>1, <1>2, <1>4, <1>5, <1>14, <1>15 DEF EmitProgress
<1>16. CASE TaskRaises(r)
  BY <1>1, <1>2, <1>4, <1>5, <1>14, <1>16 DEF TaskRaises
<1>17. CASE TaskReturns(r)
  <2> PICK o \in {"completed", "failed", "blocked"} :
        /\ outcome' = [outcome EXCEPT ![r] = o]
        /\ Goto(r, IF o = "blocked" THEN "prompt" ELSE
                   IF o = "completed" THEN "report" ELSE "final")
    BY <1>17 DEF TaskReturns
  <2>1. UNCHANGED <<client, events, sent, used, service, lock, built>>
    BY <1>17 DEF TaskReturns
  <2>2. outcome' \in [Request -> Outcome]
    BY <1>0, <1>5
  <2>3. pc' \in [Request -> Place]
    BY <1>0, <1>4
  <2> QED
    BY <1>0, <2>1, <2>2, <2>3
<1>18. CASE PutPrompt(r)
  BY <1>4, <1>5, <1>14, <1>18, EventTypes DEF PutPrompt
<1>19. CASE PutReport(r)
  <2>1. ChunksPut(r) + 1 \in Nat
    BY <1>0, ChunksAreCounted
  <2>2. ReportChunk(ChunksPut(r) + 1) \in EventType
    BY <2>1, EventTypes
  <2> QED
    BY <1>4, <1>5, <1>14, <1>19, <2>2 DEF PutReport
<1>20. CASE PutFinal(r)
  <2>1. Final(outcome[r]) \in EventType
    BY <1>0, EventTypes
  <2> QED
    BY <1>4, <1>5, <1>14, <1>20, <2>1 DEF PutFinal
<1>21. CASE PutDone(r)
  BY <1>1, <1>2, <1>4, <1>5, <1>14, <1>21 DEF PutDone
<1>22. CASE Record(r)
  BY <1>1, <1>2, <1>4, <1>5, <1>14, <1>22 DEF Record
<1> QED
  BY <1>6, <1>7, <1>8, <1>9, <1>10, <1>11, <1>12, <1>13, <1>15, <1>16, <1>17,
     <1>18, <1>19, <1>20, <1>21, <1>22 DEF Work

(* The services and their locks. *)
LEMMA ServicesStep ==
  ASSUME Inv, NEW r \in Request,
         \/ \E k \in Kind : Receive(r, k)
         \/ ReceiveRecord(r) \/ Open(r) \/ Yield(r) \/ Disconnect(r)
         \/ Work(r)
  PROVE  /\ Asking' /\ Building' /\ CalledOnce' /\ UsedIsStored'
         /\ Held'
<1>0. /\ TypeOK /\ Held /\ Asking /\ Building /\ CalledOnce /\ UsedIsStored
      /\ providerOf(r) \in Provider /\ NoRequest \notin Request
      /\ \A q \in Request : providerOf(q) \in Provider
  <2>1. Held
    BY DEF Inv, Held, TypeOK
  <2>2. NoRequest \notin Request
    BY HttpAssumption DEF NoRequest, Request
  <2> QED
    BY <2>1, <2>2 DEF Inv, providerOf, Provider
<1>1. \A q \in Request \ {r} :
        /\ kind'[q] = kind[q] /\ client'[q] = client[q] /\ pc'[q] = pc[q]
        /\ used'[q] = used[q] /\ providerOf(q)' = providerOf(q)
  BY <1>0, StepIsLocal DEF providerOf
(* Steps that neither look at a provider nor begin a request. *)
<1>2. ASSUME UNCHANGED <<service, lock, built, used>>,
             pc'[r] = "build" => pc[r] = "build",
             pc[r] = "build" => pc'[r] = "build" /\ kind'[r] = kind[r],
             pc'[r] \in {"idle", "get", "lock", "build"} =>
               pc[r] \in {"idle", "get", "lock", "build"},
             client'[r] \in {"idle", "accepted"} => pc'[r] = "idle",
             used[r] # NoService => kind'[r] = kind[r]
      PROVE  /\ Asking' /\ Building' /\ CalledOnce' /\ UsedIsStored'
             /\ Held'
  <2>1. Asking'
    BY <1>0, <1>1, <1>2 DEF Asking
  <2>2. kind'[r] = kind[r] => providerOf(r)' = providerOf(r)
    BY DEF providerOf
  <2>3. Building' /\ CalledOnce' /\ UsedIsStored'
    BY <1>0, <1>1, <1>2, <2>2 DEF Building, CalledOnce, UsedIsStored
  <2>4. Held'
    BY <1>0, <1>1, <1>2, <2>2 DEF Held
  <2> QED
    BY <2>1, <2>3, <2>4
<1> USE DEF TypeOK, Put, Send, Goto, GetReturns, worker, provider
<1>3. CASE \E k \in Kind : Receive(r, k)
  BY <1>0, <1>2, <1>3 DEF Receive, Arrives, Asking
<1>4. CASE ReceiveRecord(r)
  BY <1>0, <1>2, <1>4 DEF ReceiveRecord, Arrives, Asking
<1>5. CASE Open(r) \/ Yield(r) \/ Disconnect(r)
  BY <1>0, <1>2, <1>5 DEF Open, Yield, Disconnect, Asking
<1>6. CASE EmitProgress(r) \/ TaskRaises(r) \/ TaskReturns(r) \/ PutPrompt(r)
  BY <1>0, <1>2, <1>6
  DEF EmitProgress, TaskRaises, TaskReturns, PutPrompt, Asking
<1>7. CASE PutReport(r) \/ PutFinal(r) \/ PutDone(r) \/ Record(r)
  BY <1>0, <1>2, <1>7 DEF PutReport, PutFinal, PutDone, Record, Asking
(* get() returns what is stored, *)
<1>8. ASSUME NEW s, s = service[providerOf(r)], s # NoService,
             pc[r] \in {"get", "lock"}, pc'[r] = "run", used'[r] = s,
             UNCHANGED <<service, lock, built, kind, client>>
      PROVE  /\ Asking' /\ Building' /\ CalledOnce' /\ UsedIsStored'
             /\ Held'
  <2>1. \A q : providerOf(q)' = providerOf(q)
    BY <1>8 DEF providerOf
  <2>2. Asking' /\ Building' /\ CalledOnce'
    BY <1>0, <1>1, <1>8, <2>1 DEF Asking, Building, CalledOnce
  <2>4. UsedIsStored'
    BY <1>0, <1>1, <1>8, <2>1 DEF UsedIsStored
  <2>3. Held'
    BY <1>0, <1>1, <1>8, <2>1 DEF Held
  <2> QED
    BY <2>2, <2>3, <2>4
(* or goes to the lock, *)
<1>9. CASE GetWithoutLock(r)
  <2>1. CASE service[providerOf(r)] # NoService
    BY <1>0, <1>8, <1>9, <2>1 DEF GetWithoutLock
  <2>2. CASE service[providerOf(r)] = NoService
    BY <1>0, <1>2, <1>9, <2>2 DEF GetWithoutLock, Asking
  <2> QED
    BY <2>1, <2>2
(* where it looks again, *)
<1>10. CASE TakeLock(r)
  <2>1. CASE service[providerOf(r)] # NoService
    BY <1>0, <1>8, <1>10, <2>1 DEF TakeLock
  <2>2. CASE service[providerOf(r)] = NoService
    <3>1. \A q : providerOf(q)' = providerOf(q)
      BY <1>10 DEF TakeLock, providerOf
    <3>2. /\ pc[r] = "lock" /\ lock[providerOf(r)] = NoRequest
          /\ lock' = [lock EXCEPT ![providerOf(r)] = r]
          /\ pc'[r] = "build"
          /\ UNCHANGED <<service, built, used, client>>
      BY <1>0, <1>10, <2>2 DEF TakeLock
    <3>3. /\ lock'[providerOf(r)] = r
          /\ \A p \in Provider : p # providerOf(r) => lock'[p] = lock[p]
      BY <1>0, <3>2
    <3>4. Asking' /\ CalledOnce' /\ UsedIsStored'
      BY <1>0, <1>1, <3>1, <3>2 DEF Asking, CalledOnce, UsedIsStored
    <3>5. Building'
      BY <1>0, <1>1, <2>2, <3>1, <3>2, <3>3 DEF Building
    <3>6. Held'
      BY <1>0, <1>1, <3>1, <3>2, <3>3 DEF Held
    <3> QED
      BY <3>4, <3>5, <3>6
  <2> QED
    BY <2>1, <2>2
(* and builds if there is still nothing. *)
<1>11. CASE Build(r)
  <2>1. \A q : providerOf(q)' = providerOf(q)
    BY <1>11 DEF Build, providerOf
  <2> PICK s \in Service : service' = [service EXCEPT ![providerOf(r)] = s] /\ GetReturns(r, s)
    BY <1>11 DEF Build
  <2>2. /\ pc[r] = "build" /\ pc'[r] = "run" /\ used'[r] = s /\ s # NoService
        /\ lock[providerOf(r)] = r /\ service[providerOf(r)] = NoService
        /\ UNCHANGED client
    BY <1>0, <1>11 DEF Build, Building, Service, NoService
  <2>3. /\ service'[providerOf(r)] = s /\ lock'[providerOf(r)] = NoRequest
        /\ built'[providerOf(r)] = built[providerOf(r)] + 1
        /\ \A p \in Provider : p # providerOf(r) =>
             service'[p] = service[p] /\ lock'[p] = lock[p] /\ built'[p] = built[p]
    BY <1>0, <1>11 DEF Build
  <2>4. Asking' /\ CalledOnce'
    BY <1>0, <1>1, <2>2, <2>3 DEF Asking, CalledOnce
  <2>5. Building'
    BY <1>0, <1>1, <2>1, <2>2, <2>3 DEF Building
  <2>6. UsedIsStored'
    BY <1>0, <1>1, <2>1, <2>2, <2>3 DEF UsedIsStored
  <2>7. Held'
    <3> SUFFICES ASSUME NEW p \in Provider, NEW q \in Request, lock'[p] = q
                 PROVE  pc'[q] = "build" /\ providerOf(q) = p
      BY <2>1 DEF Held
    <3>1. p # providerOf(r)
      BY <1>0, <2>3
    <3>2. lock[p] = q
      BY <2>3, <3>1
    <3>3. pc[q] = "build" /\ providerOf(q) = p /\ q # r
      BY <3>1, <3>2, <1>0 DEF Held
    <3> QED
      BY <1>1, <3>3
  <2> QED
    BY <2>4, <2>5, <2>6, <2>7
<1> QED
  BY <1>3, <1>4, <1>5, <1>6, <1>7, <1>9, <1>10, <1>11 DEF Work

-----------------------------------------------------------------------------
(* The stream of the request that takes a step. *)

LEMMA Ceilings ==
  /\ \A place \in {"idle", "get", "lock", "build", "run", "prompt"} : Ceiling(place) = 2
  /\ Ceiling("report") = 3 /\ Ceiling("final") = 3
  /\ Ceiling("finally") = 4 /\ Ceiling("ended") = 5
BY DEF Ceiling

LEMMA BelowAppend ==
  ASSUME NEW s \in Seq(EventType), NEW e \in EventType, NEW m \in Nat, NEW n \in Nat,
         Below(s, m), m <= n, Rank(e.event) <= n
  PROVE  Below(s, n) /\ Below(Append(s, e), n)
<1> DEFINE u == Append(s, e)
<1>1. /\ DOMAIN u = 1 .. Len(s) + 1 /\ DOMAIN s = 1 .. Len(s) /\ Len(s) \in Nat
      /\ \A i \in 1 .. Len(s) : u[i] = s[i] /\ s[i] \in EventType
      /\ u[Len(s) + 1] = e
  OBVIOUS
<1> HIDE DEF u
<1>2. ASSUME NEW i \in DOMAIN s PROVE Rank(s[i].event) <= n
  <2>1. Rank(s[i].event) <= m /\ Rank(s[i].event) \in 1 .. 5
    BY <1>1, RankType DEF Below
  <2> QED
    BY <2>1
<1>3. ASSUME NEW i \in DOMAIN u PROVE Rank(u[i].event) <= n
  <2>1. CASE i \in 1 .. Len(s)
    BY <1>1, <1>2, <2>1
  <2>2. CASE i = Len(s) + 1
    BY <1>1, <2>2
  <2> QED
    BY <1>1, <2>1, <2>2
<1> QED
  BY <1>2, <1>3 DEF Below, u

LEMMA HasAppend ==
  ASSUME NEW s \in Seq(EventType), NEW e \in EventType, NEW n,
         Has(s, n) \/ Rank(e.event) = n
  PROVE  Has(Append(s, e), n)
<1>1. CASE Has(s, n)
  <2> PICK i \in DOMAIN s : Rank(s[i].event) = n
    BY <1>1 DEF Has
  <2>1. i \in DOMAIN Append(s, e) /\ Append(s, e)[i] = s[i]
    OBVIOUS
  <2> QED
    BY <2>1 DEF Has
<1>2. CASE Rank(e.event) = n
  <2>1. Len(s) + 1 \in DOMAIN Append(s, e) /\ Append(s, e)[Len(s) + 1] = e
    OBVIOUS
  <2> QED
    BY <1>2, <2>1 DEF Has
<1> QED
  BY <1>1, <1>2

(* What stands below a ceiling may be followed by an event above it, and   *)
(* by one at it if the part may have several events.                       *)
LEMMA BelowBefore ==
  ASSUME NEW s \in Seq(EventType), NEW e \in EventType, NEW n \in Nat, Below(s, n),
         n < Rank(e.event) \/ (n = Rank(e.event) /\ n \in {2, 3})
  PROVE  \A i \in DOMAIN s : Before(s[i], e)
<1> SUFFICES ASSUME NEW i \in DOMAIN s PROVE Before(s[i], e)
  OBVIOUS
<1>1. s[i] \in EventType
  OBVIOUS
<1>2. Rank(s[i].event) \in 1 .. 5 /\ Rank(e.event) \in 1 .. 5
  BY <1>1, RankType
<1>3. Rank(s[i].event) <= n
  BY DEF Below
<1> QED
  BY <1>2, <1>3 DEF Before

(* The worker puts e and goes on to a place with a ceiling above e. *)
LEMMA PutStreamed ==
  ASSUME Inv, NEW r \in Request, NEW e \in EventType,
         Put(r, e), UNCHANGED sent, kind'[r] = kind[r],
         pc'[r] \in Place,
         Ceiling(pc[r]) <= Ceiling(pc'[r]), Rank(e.event) <= Ceiling(pc'[r]),
         \/ Ceiling(pc[r]) < Rank(e.event)
         \/ Ceiling(pc[r]) = Rank(e.event) /\ Rank(e.event) \in {2, 3},
         pc'[r] \in {"finally", "ended"} => pc[r] = "finally" \/ Rank(e.event) = 4
  PROVE  Streamed(r)'
<1>1. /\ Streamed(r) /\ events \in [Request -> Seq(EventType)]
      /\ sent[r] \in Seq(EventType) /\ events[r] \in Seq(EventType)
      /\ pc[r] \in Place
  BY DEF Inv, TypeOK
<1>2. events'[r] = Append(events[r], e) /\ sent'[r] = sent[r]
  BY <1>1 DEF Put
<1>3. Ceiling(pc[r]) \in Nat /\ Ceiling(pc'[r]) \in Nat
  BY DEF Ceiling
<1>4. /\ \A i \in DOMAIN sent[r] : Before(sent[r][i], e)
      /\ \A i \in DOMAIN events[r] : Before(events[r][i], e)
  BY <1>1, <1>3, BelowBefore DEF Streamed
<1>5. InOrder(events'[r]) /\ AllBefore(sent[r], events'[r])
  BY <1>1, <1>2, <1>4, PutInOrder DEF Streamed
<1>6. Below(sent[r], Ceiling(pc'[r])) /\ Below(events'[r], Ceiling(pc'[r]))
  BY <1>1, <1>2, <1>3, BelowAppend DEF Streamed
<1>7. pc'[r] \in {"finally", "ended"} /\ kind[r] # "record" =>
        Has(sent[r], 4) \/ Has(events'[r], 4)
  BY <1>1, <1>2, HasAppend DEF Streamed
<1> QED
  BY <1>1, <1>2, <1>5, <1>6, <1>7 DEF Streamed

(* The worker goes on without putting anything. *)
LEMMA GoStreamed ==
  ASSUME Inv, NEW r \in Request,
         sent'[r] = sent[r], events'[r] = events[r],
         Ceiling(pc[r]) <= Ceiling(pc'[r]),
         pc'[r] \in {"finally", "ended"} =>
           kind'[r] = "record" \/ (pc[r] \in {"finally", "ended"} /\ kind'[r] = kind[r])
  PROVE  Streamed(r)'
<1>1. /\ Streamed(r)
      /\ sent[r] \in Seq(EventType) /\ events[r] \in Seq(EventType)
  BY DEF Inv, TypeOK
<1>2. Ceiling(pc[r]) \in Nat /\ Ceiling(pc'[r]) \in Nat
  BY DEF Ceiling
<1>3. Event("ready") \in EventType /\ Rank(Event("ready").event) = 1
  BY EventTypes, Ranks DEF EventName
<1>4. 1 <= Ceiling(pc'[r])
  BY DEF Ceiling
<1>5. Below(sent[r], Ceiling(pc'[r])) /\ Below(events[r], Ceiling(pc'[r]))
  BY <1>1, <1>2, <1>3, <1>4, BelowAppend DEF Streamed
<1> QED
  BY <1>1, <1>5 DEF Streamed

(* The client's end of the stream while its worker is at work. *)
LEMMA WorkReceived ==
  ASSUME Inv, NEW r \in Request, Work(r)
  PROVE  Received(r)'
<1>1. /\ Received(r) /\ Asking
      /\ client \in [Request -> Connection] /\ kind'[r] = kind[r] /\ sent'[r] = sent[r]
  BY DEF Inv, TypeOK, Work, GetWithoutLock, TakeLock, Build, EmitProgress, TaskRaises,
         TaskReturns, PutPrompt, PutReport, PutFinal, PutDone, Record
<1>2. pc[r] \notin {"idle", "ended"}
  BY DEF Work, GetWithoutLock, TakeLock, Build, EmitProgress, TaskRaises, TaskReturns,
         PutPrompt, PutReport, PutFinal, PutDone, Record
<1>3. client[r] \notin {"idle", "accepted"}
        /\ (client[r] = "closed" => kind[r] = "record")
  BY <1>1, <1>2 DEF Asking, Received
<1>4. client'[r] = client[r] \/ (client'[r] = "closed" /\ kind[r] = "record")
  BY <1>1 DEF Work, GetWithoutLock, TakeLock, Build, EmitProgress, TaskRaises,
         TaskReturns, PutPrompt, PutReport, PutFinal, PutDone, Record
<1> QED
  BY <1>1, <1>3, <1>4 DEF Received

LEMMA WorkStreamed ==
  ASSUME Inv, NEW r \in Request, Work(r)
  PROVE  Streamed(r)'
<1> USE DEF Goto, GetReturns, worker, provider
<1>0. /\ kind \in [Request -> Kind \union {"none"}] /\ pc \in [Request -> Place]
      /\ sent[r] \in Seq(EventType) /\ events[r] \in Seq(EventType)
      /\ outcome[r] \in Outcome
      /\ pc' \in [Request -> Place]
  BY TypeStep DEF Inv, TypeOK
<1>1. \A name \in EventName : Event(name) \in EventType /\ Event(name).event = name
  BY EventTypes
<1>2. /\ "progress" \in EventName /\ "error" \in EventName /\ "done" \in EventName
  BY DEF EventName
<1>3. CASE GetWithoutLock(r) \/ TakeLock(r) \/ Build(r)
  <2>1. /\ pc[r] \in {"get", "lock", "build"} /\ pc'[r] \in {"lock", "build", "run"}
        /\ sent' = sent /\ events' = events
    BY <1>0, <1>3 DEF GetWithoutLock, TakeLock, Build
  <2> QED
    BY <2>1, GoStreamed, Ceilings
<1>4. CASE EmitProgress(r)
  <2>1. /\ pc[r] = "run" /\ pc' = pc /\ kind' = kind /\ sent' = sent
        /\ Put(r, Event("progress"))
    BY <1>4 DEF EmitProgress
  <2> QED
    BY <1>0, <1>1, <1>2, <2>1, PutStreamed, Ceilings, Ranks
<1>5. CASE TaskRaises(r)
  <2>1. /\ pc[r] = "run" /\ pc'[r] = "finally" /\ kind' = kind /\ sent' = sent
        /\ Put(r, Event("error"))
    BY <1>0, <1>5 DEF TaskRaises
  <2> QED
    BY <1>0, <1>1, <1>2, <2>1, PutStreamed, Ceilings, Ranks
<1>6. CASE TaskReturns(r)
  <2>1. /\ pc[r] = "run" /\ pc'[r] \in {"prompt", "report", "final"}
        /\ sent' = sent /\ events' = events
    BY <1>0, <1>6 DEF TaskReturns
  <2> QED
    BY <2>1, GoStreamed, Ceilings
<1>7. CASE PutPrompt(r)
  <2>1. /\ pc[r] = "prompt" /\ pc'[r] = "final" /\ kind' = kind /\ sent' = sent
        /\ Put(r, Prompt)
    BY <1>0, <1>7 DEF PutPrompt
  <2> QED
    BY <1>0, <2>1, PutStreamed, Ceilings, Ranks, EventTypes
<1>8. CASE PutReport(r)
  <2>1. pc[r] = "report" /\ kind' = kind /\ sent' = sent
    BY <1>8 DEF PutReport
  <2>2. CASE Put(r, ReportChunk(ChunksPut(r) + 1)) /\ UNCHANGED pc
    <3>1. ChunksPut(r) + 1 \in Nat
      BY <1>0, ChunksAreCounted
    <3> QED
      BY <1>0, <2>1, <2>2, <3>1, PutStreamed, Ceilings, Ranks, EventTypes
  <2>3. CASE pc'[r] = "final" /\ events' = events
    BY <2>1, <2>3, GoStreamed, Ceilings
  <2> QED
    BY <1>0, <1>8, <2>2, <2>3 DEF PutReport
<1>9. CASE PutFinal(r)
  <2>1. /\ pc[r] = "final" /\ pc'[r] = "finally" /\ kind' = kind /\ sent' = sent
        /\ Put(r, Final(outcome[r]))
    BY <1>0, <1>9 DEF PutFinal
  <2> QED
    BY <1>0, <2>1, PutStreamed, Ceilings, EventTypes
<1>10. CASE PutDone(r)
  <2>1. /\ pc[r] = "finally" /\ pc'[r] = "ended" /\ kind' = kind /\ sent' = sent
        /\ Put(r, Event("done"))
    BY <1>0, <1>10 DEF PutDone
  <2> QED
    BY <1>0, <1>1, <1>2, <2>1, PutStreamed, Ceilings, Ranks
<1>11. CASE Record(r)
  <2>1. /\ pc[r] = "run" /\ pc'[r] = "ended" /\ kind'[r] = "record"
        /\ sent' = sent /\ events' = events
    BY <1>0, <1>11 DEF Record
  <2> QED
    BY <2>1, GoStreamed, Ceilings
<1> QED
  BY <1>3, <1>4, <1>5, <1>6, <1>7, <1>8, <1>9, <1>10, <1>11 DEF Work

LEMMA OpenStreamed ==
  ASSUME Inv, NEW r \in Request, Open(r)
  PROVE  Streamed(r)' /\ Received(r)'
<1>1. /\ client[r] = "accepted" /\ sent[r] = <<>> /\ events[r] = <<>> /\ pc[r] = "idle"
      /\ pc \in [Request -> Place] /\ client \in [Request -> Connection]
      /\ sent \in [Request -> Seq(EventType)] /\ events \in [Request -> Seq(EventType)]
  BY DEF Inv, TypeOK, Asking, Received, Open
<1>2. /\ sent'[r] = <<Event("ready")>> /\ client'[r] = "reading" /\ kind' = kind
      /\ \/ events'[r] = <<>> /\ pc'[r] = "get"
         \/ events'[r] = <<Event("error"), Event("done")>> /\ pc'[r] = "ended"
  BY <1>1 DEF Open, Send, Goto
<1>3. /\ Event("ready").event = "ready" /\ Event("error").event = "error"
      /\ Event("done").event = "done"
  BY DEF Event
<1>4. Received(r)'
  BY <1>2, <1>3 DEF Received
<1>5. CASE events'[r] = <<>> /\ pc'[r] = "get"
  <2>1. InOrder(sent'[r]) /\ InOrder(events'[r]) /\ AllBefore(sent'[r], events'[r])
    BY <1>2, <1>5 DEF InOrder, AllBefore
  <2>2. Below(sent'[r], 2) /\ Below(events'[r], 2)
    BY <1>2, <1>3, <1>5, Ranks DEF Below
  <2>3. Ceiling(pc'[r]) = 2
    BY <1>5, Ceilings
  <2> QED
    BY <1>4, <1>5, <2>1, <2>2, <2>3 DEF Streamed
<1>6. CASE events'[r] = <<Event("error"), Event("done")>> /\ pc'[r] = "ended"
  <2>1. InOrder(sent'[r]) /\ InOrder(events'[r])
    BY <1>2, <1>3, <1>6, Ranks DEF InOrder, Before
  <2>2. AllBefore(sent'[r], events'[r])
    BY <1>2, <1>3, <1>6, Ranks DEF AllBefore, Before
  <2>3. Below(sent'[r], 5) /\ Below(events'[r], 5) /\ Has(events'[r], 4)
    BY <1>2, <1>3, <1>6, Ranks DEF Below, Has
  <2>4. Ceiling(pc'[r]) = 5
    BY <1>6, Ceilings
  <2> QED
    BY <1>4, <1>6, <2>1, <2>2, <2>3, <2>4 DEF Streamed
<1> QED
  BY <1>2, <1>4, <1>5, <1>6

LEMMA YieldStreamed ==
  ASSUME Inv, NEW r \in Request, Yield(r)
  PROVE  Streamed(r)' /\ Received(r)'
<1> DEFINE s == sent[r]
           t == events[r]
           e == IF t[1].event = "done" THEN Event("end") ELSE t[1]
<1>1. /\ s \in Seq(EventType) /\ t \in Seq(EventType) /\ t # <<>> /\ s # <<>>
      /\ client[r] = "reading" /\ s[1].event = "ready"
      /\ Streamed(r)
  BY DEF Inv, TypeOK, Received, Yield
<1>2. /\ sent'[r] = Append(s, e) /\ events'[r] = Tail(t)
      /\ client'[r] = IF t[1].event = "done" THEN "closed" ELSE "reading"
      /\ kind' = kind /\ pc' = pc
  <2>1. /\ sent \in [Request -> Seq(EventType)] /\ events \in [Request -> Seq(EventType)]
        /\ client \in [Request -> Connection] /\ Head(t) = t[1]
    BY <1>1 DEF Inv, TypeOK
  <2>2. CASE t[1].event = "done"
    BY <1>1, <2>1, <2>2 DEF Yield, Send
  <2>3. CASE t[1].event # "done"
    BY <1>1, <2>1, <2>3 DEF Yield, Send
  <2> QED
    BY <2>2, <2>3
<1>3. 1 \in DOMAIN t /\ t[1] \in EventType /\ Len(t) \in Nat /\ Len(t) > 0
      /\ DOMAIN t = 1 .. Len(t) /\ Len(s) \in Nat /\ Len(s) > 0
      /\ DOMAIN s = 1 .. Len(s)
  BY <1>1
<1>4. e \in EventType /\ Rank(e.event) = Rank(t[1].event)
  BY <1>3, EventTypes, Ranks DEF EventName
<1> HIDE DEF s, t, e
<1>5. /\ InOrder(Append(s, e)) /\ InOrder(Tail(t)) /\ AllBefore(Append(s, e), Tail(t))
  BY <1>1, <1>4, SendInOrder DEF Streamed, s, t
<1>6. Ceiling(pc[r]) \in Nat /\ Below(s, Ceiling(pc[r])) /\ Below(t, Ceiling(pc[r]))
  BY <1>1 DEF Ceiling, Streamed, s, t
<1>7. Below(Append(s, e), Ceiling(pc[r]))
  <2>1. Rank(e.event) <= Ceiling(pc[r])
    BY <1>3, <1>4, <1>6 DEF Below
  <2> QED
    BY <1>1, <1>4, <1>6, <2>1, BelowAppend
<1>8. \A j \in 1 .. Len(t) - 1 : Tail(t)[j] = t[j + 1] /\ j + 1 \in DOMAIN t
  BY <1>1, <1>3
<1>9. DOMAIN Tail(t) = 1 .. Len(t) - 1
  BY <1>1, <1>3
<1>10. Below(Tail(t), Ceiling(pc[r]))
  BY <1>6, <1>8, <1>9 DEF Below
<1>11. ASSUME Has(s, 4) \/ Has(t, 4)
       PROVE  Has(Append(s, e), 4) \/ Has(Tail(t), 4)
  <2>1. CASE Has(s, 4)
    BY <1>1, <1>4, <2>1, HasAppend
  <2>2. CASE Has(t, 4)
    <3> PICK i \in DOMAIN t : Rank(t[i].event) = 4
      BY <2>2 DEF Has
    <3>1. CASE i = 1
      BY <1>1, <1>4, <3>1, HasAppend
    <3>2. CASE i # 1
      <4>1. i - 1 \in 1 .. Len(t) - 1 /\ (i - 1) + 1 = i
        BY <1>3, <3>2
      <4>2. Tail(t)[i - 1] = t[i]
        BY <1>8, <4>1
      <4> QED
        BY <1>9, <4>1, <4>2 DEF Has
    <3> QED
      BY <3>1, <3>2
  <2> QED
    BY <1>11, <2>1, <2>2
<1>12. Streamed(r)'
  BY <1>1, <1>2, <1>5, <1>7, <1>10, <1>11 DEF Streamed, s, t
<1>13. /\ Append(s, e)[1] = s[1] /\ Append(s, e) # <<>>
       /\ Len(Append(s, e)) = Len(s) + 1 /\ Append(s, e)[Len(s) + 1] = e
       /\ Append(s, e)[Len(s)] = s[Len(s)]
  <2>1. /\ \A i \in 1 .. Len(s) : Append(s, e)[i] = s[i]
        /\ Len(Append(s, e)) = Len(s) + 1 /\ Append(s, e)[Len(s) + 1] = e
    BY <1>1, <1>4
  <2>2. 1 \in 1 .. Len(s) /\ Len(s) \in 1 .. Len(s) /\ Len(s) + 1 # 0
    BY <1>3
  <2>3. Append(s, e) # <<>>
    BY <2>1, <2>2
  <2> QED
    BY <2>1, <2>2, <2>3
(* "done" is the last of all, so that the verdict has been sent, and it    *)
(* was sent last.                                                          *)
<1>14. ASSUME t[1].event = "done", kind[r] # "record"
       PROVE  /\ e.event = "end" /\ Rank(s[Len(s)].event) = 4
              /\ pc[r] = "ended" /\ Tail(t) = <<>>
  <2>1. Rank(t[1].event) = 5 /\ e.event = "end"
    BY <1>14, Ranks, EventTypes DEF e, EventName
  <2>2. pc[r] = "ended"
    <3>1. 5 <= Ceiling(pc[r])
      BY <1>3, <1>6, <2>1 DEF Below
    <3> QED
      BY <3>1 DEF Ceiling
  <2>3. Len(t) = 1
    <3> SUFFICES ASSUME 2 <= Len(t) PROVE FALSE
      BY <1>3
    <3>1. 2 \in DOMAIN t
      BY <1>3
    <3>2. t[2] \in EventType
      BY <1>1, <3>1
    <3>3. Before(t[1], t[2])
      BY <1>1, <1>3, <3>1 DEF Streamed, InOrder, t
    <3> QED
      BY <2>1, <3>2, <3>3, RankType DEF Before
  <2>4. \A i \in DOMAIN s : s[i] \in EventType /\ Rank(s[i].event) < 5
    <3> SUFFICES ASSUME NEW i \in DOMAIN s
                 PROVE  s[i] \in EventType /\ Rank(s[i].event) < 5
      OBVIOUS
    <3>1. s[i] \in EventType
      BY <1>1
    <3>2. Before(s[i], t[1])
      BY <1>1, <1>3 DEF Streamed, AllBefore, s, t
    <3> QED
      BY <2>1, <3>1, <3>2, RankType DEF Before
  <2>5. PICK i \in DOMAIN s : Rank(s[i].event) = 4
    <3>1. Has(s, 4) \/ Has(t, 4)
      BY <1>1, <1>14, <2>2 DEF Streamed, s, t
    <3>2. ~Has(t, 4)
      BY <1>3, <2>1, <2>3 DEF Has
    <3> QED
      BY <3>1, <3>2 DEF Has
  <2>6. Rank(s[Len(s)].event) = 4
    <3>1. CASE i = Len(s)
      BY <2>5, <3>1
    <3>2. CASE i < Len(s)
      <4>1. Len(s) \in DOMAIN s
        BY <1>3
      <4>2. Before(s[i], s[Len(s)])
        BY <1>1, <3>2, <4>1 DEF Streamed, InOrder, s
      <4>3. Rank(s[Len(s)].event) \in 1 .. 5 /\ Rank(s[Len(s)].event) < 5
        BY <2>4, <4>1, RankType
      <4> QED
        BY <2>5, <4>2, <4>3 DEF Before
    <3> QED
      BY <1>3, <3>1, <3>2
  <2>7. Tail(t) = <<>>
    <3>1. Tail(t) \in Seq(EventType) /\ Len(Tail(t)) = 0
      BY <1>1, <2>3
    <3> QED
      BY <3>1, EmptySeq
  <2> QED
    BY <2>1, <2>2, <2>6, <2>7
<1>15. Received(r)'
  <2>1. /\ client'[r] \in {"closed", "reading"} /\ sent'[r] # <<>>
        /\ sent'[r][1].event = "ready"
    BY <1>1, <1>2, <1>13 DEF s, t
  <2>2. client'[r] = "closed" /\ kind'[r] # "record" =>
          /\ sent'[r][Len(sent'[r])].event = "end"
          /\ Rank(sent'[r][Len(sent'[r]) - 1].event) = 4
          /\ pc'[r] = "ended" /\ events'[r] = <<>>
    <3>1. (Len(s) + 1) - 1 = Len(s)
      BY <1>3
    <3> QED
      BY <1>2, <1>13, <1>14, <3>1
  <2> QED
    BY <2>1, <2>2 DEF Received
<1> QED
  BY <1>12, <1>15

-----------------------------------------------------------------------------

LEMMA StepInv == Inv /\ [Next]_vars => Inv'
<1> SUFFICES ASSUME Inv, [Next]_vars PROVE Inv'
  OBVIOUS
<1>1. CASE UNCHANGED vars
  BY <1>1 DEF vars, Inv, TypeOK, Asking, Building, CalledOnce, UsedIsStored,
     Streamed, Received, providerOf
<1>2. ASSUME NEW r \in Request,
             \/ \E k \in Kind : Receive(r, k)
             \/ ReceiveRecord(r) \/ Open(r) \/ Yield(r) \/ Disconnect(r)
             \/ Work(r)
      PROVE  Inv'
  <2>1. TypeOK'
    BY <1>2, TypeStep, StepIsLocal, ServicesStep DEF Inv, TypeOK, Held
  <2>2. Asking' /\ Building' /\ CalledOnce' /\ UsedIsStored'
    BY <1>2, ServicesStep
  <2>3. ASSUME NEW q \in Request \ {r} PROVE Streamed(q)' /\ Received(q)'
    BY <1>2, StepIsLocal DEF Inv, Streamed, Received
  <2>4. ASSUME Work(r) PROVE Streamed(r)' /\ Received(r)'
    BY <2>4, WorkStreamed, WorkReceived
  <2>5. ASSUME (\E k \in Kind : Receive(r, k)) \/ ReceiveRecord(r)
        PROVE  Streamed(r)' /\ Received(r)'
    <3>1. /\ client[r] = "idle" /\ client'[r] \in {"accepted", "waiting"}
          /\ sent' = sent /\ events' = events
          /\ pc'[r] \in {"idle", "get"} /\ pc[r] = "idle"
      BY <2>5 DEF Receive, ReceiveRecord, Arrives, Goto, worker, provider, Inv, TypeOK, Asking
    <3>2. Streamed(r)'
      BY <3>1, GoStreamed, Ceilings
    <3>3. Received(r)'
      BY <3>1 DEF Inv, Received
    <3> QED
      BY <3>2, <3>3
  <2>6. ASSUME Disconnect(r) PROVE Streamed(r)' /\ Received(r)'
    <3>1. /\ client'[r] = "gone" /\ client[r] \in {"accepted", "reading"}
          /\ kind' = kind /\ sent' = sent /\ events' = events /\ pc' = pc
      BY <2>6 DEF Disconnect, worker, provider, Inv, TypeOK
    <3> QED
      BY <3>1 DEF Inv, Streamed, Received
  <2>7. Streamed(r)' /\ Received(r)'
    BY <1>2, <2>4, <2>5, <2>6, OpenStreamed, YieldStreamed
  <2> QED
    BY <2>1, <2>2, <2>3, <2>7 DEF Inv
<1> QED
  BY <1>1, <1>2 DEF Next

THEOREM Invariance == Spec => []Inv
<1>1. Init => Inv
  BY InitInv
<1>2. Inv /\ [Next]_vars => Inv'
  BY StepInv
<1> QED
  BY <1>1, <1>2, PTL DEF Spec

(* The variables keep their types, and a lock is held only while a factory *)
(* runs: no failure leaves it taken.                                       *)
THEOREM TypeCorrect == Spec => []TypeOK
<1>1. Inv => TypeOK
  BY DEF Inv
<1> QED
  BY <1>1, Invariance, PTL

(* However many requests find a provider empty at the same time, its       *)
(* factory runs once and they all get the service it left behind.          *)
THEOREM OneService == Spec => []OneServicePerProvider
<1>1. Inv => OneServicePerProvider
  <2>1. Inv => \A p \in Provider : built[p] <= 1
    BY DEF Inv, CalledOnce
  <2> QED
    BY <2>1 DEF Inv, UsedIsStored, OneServicePerProvider
<1> QED
  BY <1>1, Invariance, PTL

(* What a client reads is the beginning of a stream in order with one      *)
(* verdict at most, and all of it when it reads the end.                   *)
THEOREM StreamsAreWellFormed == Spec => []StreamIsWellFormed
<1>1. Inv => StreamIsWellFormed
  BY DEF Inv, Streamed, Received, InOrder, StreamIsWellFormed
<1> QED
  BY <1>1, Invariance, PTL

-----------------------------------------------------------------------------
(* What a stream tells about its task.  It is looked at as a whole, with   *)
(* what the generator has not fetched yet.                                 *)

Stream(r) == sent[r] \o events[r]

Chunks(s) == {i \in DOMAIN s : s[i].event = "markdown"}

Prompts(s) == {i \in DOMAIN s : s[i].event = "prompt"}

Says(s, name) == \E i \in DOMAIN s : s[i].event = name

(* The parts of a report are there without a gap. *)
Numbered(s) ==
  \A i \in Chunks(s) : s[i] = ReportChunk(Cardinality({j \in Chunks(s) : j <= i}))

Complete(s) == Prompts(s) = {} /\ Numbered(s) /\ Cardinality(Chunks(s)) \in ReportLengths

Prompted(s) == Chunks(s) = {} /\ \E i \in DOMAIN s : Prompts(s) = {i} /\ s[i] = Prompt

Blank(s) == Chunks(s) = {} /\ Prompts(s) = {}

(* Where the worker stands, the stream fits to how the task ended, and a   *)
(* verdict fits to what stands before it.                                  *)
Told(r) ==
  LET s == Stream(r)
  IN  /\ pc[r] = "prompt" => outcome[r] = "blocked"
      /\ pc[r] = "report" => outcome[r] = "completed" /\ Numbered(s) /\ Prompts(s) = {}
      /\ pc[r] = "final" =>
           \/ outcome[r] = "completed" /\ Complete(s)
           \/ outcome[r] = "failed" /\ Blank(s)
           \/ outcome[r] = "blocked" /\ Prompted(s)
      /\ Says(s, "final_completed") => Complete(s)
      /\ Says(s, "final_failed") => Blank(s) \/ Prompted(s)
      /\ Says(s, "error") => Blank(s)

(* Two streams with the same words differ in nothing that Told looks at.   *)
LEMMA SameWords ==
  ASSUME NEW s, NEW u, DOMAIN u = DOMAIN s,
         \A i \in DOMAIN s : \/ u[i] = s[i]
                             \/ s[i].event = "done" /\ u[i].event = "end"
  PROVE  /\ Chunks(u) = Chunks(s) /\ Prompts(u) = Prompts(s)
         /\ Complete(u) <=> Complete(s)
         /\ Prompted(u) <=> Prompted(s)
         /\ Blank(u) <=> Blank(s)
         /\ Numbered(u) <=> Numbered(s)
         /\ \A name \in {"final_completed", "final_failed", "error"} :
              Says(u, name) <=> Says(s, name)
<1>1. Chunks(u) = Chunks(s) /\ \A i \in Chunks(s) : u[i] = s[i]
  BY DEF Chunks
<1>2. Prompts(u) = Prompts(s) /\ \A i \in Prompts(s) : u[i] = s[i]
  BY DEF Prompts
<1>3. \A name \in {"final_completed", "final_failed", "error"} :
        Says(u, name) <=> Says(s, name)
  BY DEF Says
<1>4. Numbered(u) <=> Numbered(s)
  BY <1>1 DEF Numbered
<1>5. Prompted(u) <=> Prompted(s)
  <2>1. \A i \in DOMAIN s : Prompts(s) = {i} => u[i] = s[i]
    BY <1>2
  <2> QED
    BY <1>1, <1>2, <2>1 DEF Prompted
<1> QED
  BY <1>1, <1>2, <1>3, <1>4, <1>5 DEF Complete, Blank

LEMMA MarksAppend ==
  ASSUME NEW s \in Seq(EventType), NEW e \in EventType
  PROVE  LET u == Append(s, e)
         IN  /\ u \in Seq(EventType) /\ DOMAIN u = DOMAIN s \cup {Len(s) + 1}
             /\ DOMAIN s = 1 .. Len(s) /\ Len(s) \in Nat
             /\ \A i \in DOMAIN s : u[i] = s[i]
             /\ u[Len(s) + 1] = e
             /\ Chunks(u) = Chunks(s) \cup IF e.event = "markdown" THEN {Len(s) + 1} ELSE {}
             /\ Prompts(u) = Prompts(s) \cup IF e.event = "prompt" THEN {Len(s) + 1} ELSE {}
             /\ \A name : Says(u, name) <=> Says(s, name) \/ e.event = name
             /\ IsFiniteSet(Chunks(s)) /\ Chunks(s) \subseteq 1 .. Len(s)
<1> DEFINE u == Append(s, e)
<1>1. /\ u \in Seq(EventType) /\ Len(u) = Len(s) + 1 /\ Len(s) \in Nat
      /\ DOMAIN u = 1 .. Len(s) + 1 /\ DOMAIN s = 1 .. Len(s)
      /\ \A i \in 1 .. Len(s) : u[i] = s[i]
      /\ u[Len(s) + 1] = e
  OBVIOUS
<1> HIDE DEF u
<1>2. DOMAIN u = DOMAIN s \cup {Len(s) + 1}
  BY <1>1
<1>3. Len(s) + 1 \notin DOMAIN s
  BY <1>1
<1>4. /\ Chunks(u) = Chunks(s) \cup IF e.event = "markdown" THEN {Len(s) + 1} ELSE {}
      /\ Prompts(u) = Prompts(s) \cup IF e.event = "prompt" THEN {Len(s) + 1} ELSE {}
  BY <1>1, <1>2, <1>3 DEF Chunks, Prompts
<1>5. \A name : Says(u, name) <=> Says(s, name) \/ e.event = name
  BY <1>1, <1>2 DEF Says
<1>6. IsFiniteSet(Chunks(s)) /\ Chunks(s) \subseteq 1 .. Len(s)
  <2>1. Chunks(s) \subseteq 1 .. Len(s)
    BY <1>1 DEF Chunks
  <2>2. IsFiniteSet(1 .. Len(s))
    BY <1>1, FS_Interval
  <2> QED
    BY <2>1, <2>2, FS_Subset
<1> QED
  BY <1>1, <1>2, <1>4, <1>5, <1>6 DEF u

LEMMA Joined ==
  ASSUME NEW S, NEW s \in Seq(S), NEW t \in Seq(S)
  PROVE  /\ s \o t \in Seq(S) /\ Len(s) \in Nat /\ Len(t) \in Nat
         /\ DOMAIN s = 1 .. Len(s) /\ DOMAIN t = 1 .. Len(t)
         /\ DOMAIN (s \o t) = 1 .. Len(s) + Len(t)
         /\ \A i \in 1 .. Len(s) + Len(t) :
              (s \o t)[i] = IF i <= Len(s) THEN s[i] ELSE t[i - Len(s)]
<1>1. /\ Len(s) \in Nat /\ DOMAIN s = 1 .. Len(s)
      /\ Len(t) \in Nat /\ DOMAIN t = 1 .. Len(t)
  BY LenProperties
<1>2. /\ s \o t \in Seq(S) /\ Len(s \o t) = Len(s) + Len(t)
      /\ \A i \in 1 .. Len(s) + Len(t) :
           (s \o t)[i] = IF i <= Len(s) THEN s[i] ELSE t[i - Len(s)]
  BY ConcatProperties
<1>3. DOMAIN (s \o t) = 1 .. Len(s \o t)
  BY <1>2, LenProperties
<1> QED
  BY <1>1, <1>2, <1>3

(* The queue grows at its end, and so does the whole. *)
LEMMA JoinedAppend ==
  ASSUME NEW S, NEW s \in Seq(S), NEW t \in Seq(S), NEW e \in S
  PROVE  s \o Append(t, e) = Append(s \o t, e)
<1>1. <<e>> \in Seq(S) /\ s \o t \in Seq(S)
  BY Joined
<1>2. Append(t, e) = t \o <<e>>
  BY AppendIsConcat
<1>3. Append(s \o t, e) = (s \o t) \o <<e>>
  BY <1>1, AppendIsConcat
<1>4. (s \o t) \o <<e>> = s \o (t \o <<e>>)
  BY <1>1, ConcatAssociative
<1> QED
  BY <1>2, <1>3, <1>4

(* An event that is no word leaves them as they are. *)
LEMMA AppendOther ==
  ASSUME NEW s \in Seq(EventType), NEW e \in EventType,
         e.event \notin {"markdown", "prompt"}
  PROVE  LET u == Append(s, e)
         IN  /\ Chunks(u) = Chunks(s) /\ Prompts(u) = Prompts(s)
             /\ Numbered(u) <=> Numbered(s)
             /\ Complete(u) <=> Complete(s)
             /\ Prompted(u) <=> Prompted(s)
             /\ Blank(u) <=> Blank(s)
             /\ \A name : Says(u, name) <=> Says(s, name) \/ e.event = name
<1> DEFINE u == Append(s, e)
<1>1. /\ Chunks(u) = Chunks(s) /\ Prompts(u) = Prompts(s)
      /\ DOMAIN u = DOMAIN s \cup {Len(s) + 1}
      /\ \A i \in DOMAIN s : u[i] = s[i]
      /\ \A name : Says(u, name) <=> Says(s, name) \/ e.event = name
  <2>1. \A name : Says(u, name) <=> Says(s, name) \/ e.event = name
    BY MarksAppend
  <2>2. DOMAIN u = DOMAIN s \cup {Len(s) + 1} /\ \A i \in DOMAIN s : u[i] = s[i]
    BY MarksAppend
  <2>3. /\ Chunks(u) = Chunks(s) \cup IF e.event = "markdown" THEN {Len(s) + 1} ELSE {}
        /\ Prompts(u) = Prompts(s) \cup IF e.event = "prompt" THEN {Len(s) + 1} ELSE {}
    BY MarksAppend
  <2> QED
    BY <2>1, <2>2, <2>3
<1> HIDE DEF u
<1>2. Chunks(s) \subseteq DOMAIN s /\ Prompts(s) \subseteq DOMAIN s
  BY DEF Chunks, Prompts
<1>3. Numbered(u) <=> Numbered(s)
  BY <1>1, <1>2 DEF Numbered
<1>4. Prompted(u) <=> Prompted(s)
  <2>1. \A i : Prompts(s) = {i} => i \in DOMAIN s /\ i \in DOMAIN u /\ u[i] = s[i]
    BY <1>1, <1>2
  <2> QED
    BY <1>1, <2>1 DEF Prompted
<1> QED
  BY <1>1, <1>3, <1>4 DEF Complete, Blank, u

(* The next part of a report. *)
LEMMA AppendChunk ==
  ASSUME NEW s \in Seq(EventType), Numbered(s), Prompts(s) = {},
         NEW e \in EventType, e = ReportChunk(Cardinality(Chunks(s)) + 1)
  PROVE  Numbered(Append(s, e)) /\ Prompts(Append(s, e)) = {}
<1> DEFINE u == Append(s, e)
           last == Len(s) + 1
<1>1. e.event = "markdown"
  BY DEF ReportChunk
<1>2. /\ Chunks(u) = Chunks(s) \cup {last} /\ Prompts(u) = {}
      /\ Len(s) \in Nat /\ Chunks(s) \subseteq 1 .. Len(s) /\ IsFiniteSet(Chunks(s))
      /\ \A i \in 1 .. Len(s) : u[i] = s[i]
      /\ u[last] = e
  BY <1>1, MarksAppend
<1> HIDE DEF u
<1>3. ASSUME NEW i \in Chunks(s)
      PROVE  u[i] = ReportChunk(Cardinality({j \in Chunks(u) : j <= i}))
  <2>1. {j \in Chunks(u) : j <= i} = {j \in Chunks(s) : j <= i}
    BY <1>2
  <2> QED
    BY <1>2, <2>1 DEF Numbered
<1>4. u[last] = ReportChunk(Cardinality({j \in Chunks(u) : j <= last}))
  <2>1. {j \in Chunks(u) : j <= last} = Chunks(s) \cup {last}
    BY <1>2
  <2>2. last \notin Chunks(s)
    BY <1>2
  <2>3. Cardinality(Chunks(s) \cup {last}) = Cardinality(Chunks(s)) + 1
    BY <1>2, <2>2, FS_AddElement
  <2> QED
    BY <1>2, <2>1, <2>3
<1>5. Numbered(u)
  BY <1>2, <1>3, <1>4 DEF Numbered
<1> QED
  BY <1>2, <1>5 DEF u

LEMMA AppendPrompt ==
  ASSUME NEW s \in Seq(EventType), Blank(s)
  PROVE  Prompted(Append(s, Prompt))
<1>1. Prompt \in EventType /\ Prompt.event = "prompt"
  BY EventTypes
<1>2. /\ Chunks(Append(s, Prompt)) = {} /\ Prompts(Append(s, Prompt)) = {Len(s) + 1}
      /\ Len(s) + 1 \in DOMAIN Append(s, Prompt)
      /\ Append(s, Prompt)[Len(s) + 1] = Prompt
  BY <1>1, MarksAppend DEF Blank
<1> QED
  BY <1>2 DEF Prompted

(* Below the rank of words there are none, below that of verdicts no       *)
(* verdict.                                                                *)
LEMMA BelowIsSilent ==
  ASSUME NEW s
  PROVE  /\ Below(s, 2) => Blank(s)
         /\ Below(s, 3) \/ Below(s, 2) =>
              \A name \in {"final_completed", "final_failed", "error"} : ~ Says(s, name)
BY Ranks DEF Below, Blank, Chunks, Prompts, Says

LEMMA StreamType ==
  ASSUME Inv, NEW r \in Request
  PROVE  /\ sent[r] \in Seq(EventType) /\ events[r] \in Seq(EventType)
         /\ Stream(r) \in Seq(EventType)
         /\ Len(sent[r]) \in Nat /\ Len(events[r]) \in Nat
         /\ DOMAIN sent[r] = 1 .. Len(sent[r]) /\ DOMAIN events[r] = 1 .. Len(events[r])
         /\ DOMAIN Stream(r) = 1 .. Len(sent[r]) + Len(events[r])
         /\ \A i \in 1 .. Len(sent[r]) + Len(events[r]) :
              Stream(r)[i] = IF i <= Len(sent[r]) THEN sent[r][i]
                                                  ELSE events[r][i - Len(sent[r])]
         /\ Below(Stream(r), Ceiling(pc[r]))
<1> DEFINE s == sent[r]
           t == events[r]
<1>1. s \in Seq(EventType) /\ t \in Seq(EventType)
  BY DEF Inv, TypeOK
<1>2. /\ Below(s, Ceiling(pc[r])) /\ Below(t, Ceiling(pc[r]))
      /\ Stream(r) = s \o t
  BY DEF Inv, Streamed, Stream
<1> HIDE DEF s, t
<1>3. /\ s \o t \in Seq(EventType) /\ Len(s) \in Nat /\ Len(t) \in Nat
      /\ DOMAIN s = 1 .. Len(s) /\ DOMAIN t = 1 .. Len(t)
  BY <1>1, Joined
<1>4. /\ DOMAIN (s \o t) = 1 .. Len(s) + Len(t)
      /\ \A i \in 1 .. Len(s) + Len(t) :
           (s \o t)[i] = IF i <= Len(s) THEN s[i] ELSE t[i - Len(s)]
  BY <1>1, Joined
<1>5. ASSUME NEW i \in DOMAIN (s \o t)
      PROVE  Rank((s \o t)[i].event) <= Ceiling(pc[r])
  <2>1. CASE i <= Len(s)
    <3>1. i \in DOMAIN s /\ (s \o t)[i] = s[i]
      BY <1>3, <1>4, <2>1
    <3> QED
      BY <1>2, <3>1 DEF Below
  <2>2. CASE ~ (i <= Len(s))
    <3>1. i - Len(s) \in DOMAIN t
      BY <1>3, <1>4, <2>2
    <3>2. (s \o t)[i] = t[i - Len(s)]
      BY <1>4, <2>2
    <3> QED
      BY <1>2, <3>1, <3>2 DEF Below
  <2> QED
    BY <2>1, <2>2
<1>6. Below(s \o t, Ceiling(pc[r]))
  BY <1>5 DEF Below
<1> QED
  BY <1>1, <1>2, <1>3, <1>4, <1>6 DEF s, t

(* What put and the generator do to the stream. *)
LEMMA PutExtends ==
  ASSUME Inv, NEW r \in Request, NEW e \in EventType, Put(r, e), UNCHANGED sent
  PROVE  Stream(r)' = Append(Stream(r), e)
<1>1. sent[r] \in Seq(EventType) /\ events[r] \in Seq(EventType)
  BY StreamType
<1>2. events'[r] = Append(events[r], e) /\ sent'[r] = sent[r]
  BY DEF Put, Inv, TypeOK
<1>3. sent[r] \o Append(events[r], e) = Append(sent[r] \o events[r], e)
  <2> DEFINE s == sent[r]
             t == events[r]
  <2>1. s \in Seq(EventType) /\ t \in Seq(EventType)
    BY <1>1
  <2> HIDE DEF s, t
  <2>2. s \o Append(t, e) = Append(s \o t, e)
    BY <2>1, JoinedAppend
  <2> QED
    BY <2>2 DEF s, t
<1> QED
  BY <1>2, <1>3 DEF Stream

LEMMA YieldKeepsWords ==
  ASSUME Inv, NEW r \in Request, Yield(r)
  PROVE  /\ DOMAIN Stream(r)' = DOMAIN Stream(r)
         /\ \A i \in DOMAIN Stream(r) :
              \/ Stream(r)'[i] = Stream(r)[i]
              \/ Stream(r)[i].event = "done" /\ Stream(r)'[i].event = "end"
<1> DEFINE s == sent[r]
           t == events[r]
           e == IF t[1].event = "done" THEN Event("end") ELSE t[1]
<1>1. s \in Seq(EventType) /\ t \in Seq(EventType) /\ t # <<>>
  BY StreamType DEF Yield
<1>2. sent'[r] = Append(s, e) /\ events'[r] = Tail(t)
  <2>1. /\ sent \in [Request -> Seq(EventType)] /\ events \in [Request -> Seq(EventType)]
        /\ Head(t) = t[1]
    BY <1>1 DEF Inv, TypeOK
  <2>2. CASE t[1].event = "done"
    BY <1>1, <2>1, <2>2 DEF Yield, Send
  <2>3. CASE t[1].event # "done"
    BY <1>1, <2>1, <2>3 DEF Yield, Send
  <2> QED
    BY <2>2, <2>3
<1>3. e \in EventType /\ (e = t[1] \/ (t[1].event = "done" /\ e.event = "end"))
  <2>1. t[1] \in EventType
    BY <1>1
  <2> QED
    BY <2>1, EventTypes DEF EventName
<1> DEFINE n      == Len(s)
           read   == Append(s, e)
           rest   == Tail(t)
           before == s \o t
           after  == read \o rest
<1>9. read \in Seq(EventType) /\ rest \in Seq(EventType)
  BY <1>1, <1>3
<1>4. /\ n \in Nat /\ Len(t) \in Nat /\ Len(t) > 0
      /\ Len(read) = n + 1 /\ Len(rest) = Len(t) - 1
      /\ \A i \in 1 .. n : read[i] = s[i]
      /\ read[n + 1] = e
      /\ \A i \in 1 .. Len(t) - 1 : rest[i] = t[i + 1]
  BY <1>1, <1>3
<1> HIDE DEF s, t, e, read, rest
<1>5. /\ DOMAIN before = 1 .. n + Len(t)
      /\ \A i \in 1 .. n + Len(t) : before[i] = IF i <= n THEN s[i] ELSE t[i - n]
  BY <1>1, Joined
<1>6. /\ DOMAIN after = 1 .. Len(read) + Len(rest)
      /\ \A i \in 1 .. Len(read) + Len(rest) :
           after[i] = IF i <= Len(read) THEN read[i] ELSE rest[i - Len(read)]
  BY <1>9, Joined
<1> HIDE DEF before, after, n
<1>7. DOMAIN after = DOMAIN before
  BY <1>4, <1>5, <1>6
<1>8. ASSUME NEW i \in DOMAIN before
      PROVE  after[i] = before[i] \/ (before[i].event = "done" /\ after[i].event = "end")
  <2>1. CASE i \in 1 .. n
    <3>1. i <= n /\ i <= Len(read) /\ read[i] = s[i]
      BY <1>4, <2>1
    <3> QED
      BY <1>5, <1>6, <1>7, <3>1
  <2>2. CASE i = n + 1
    <3>1. before[i] = t[1] /\ after[i] = e
      BY <1>4, <1>5, <1>6, <2>2
    <3> QED
      BY <1>3, <3>1
  <2>3. CASE i \in n + 2 .. n + Len(t)
    <3>1. /\ before[i] = t[i - n] /\ after[i] = rest[i - (n + 1)]
          /\ i - (n + 1) \in 1 .. Len(t) - 1 /\ (i - (n + 1)) + 1 = i - n
      BY <1>4, <1>5, <1>6, <2>3
    <3> QED
      BY <1>4, <3>1
  <2> QED
    BY <1>4, <1>5, <2>1, <2>2, <2>3
<1> QED
  BY <1>2, <1>7, <1>8 DEF Stream, s, t, e, read, rest, before, after

(* A step of the worker or the client that puts nothing. *)
LEMMA GoTold ==
  ASSUME NEW r \in Request, Told(r),
         sent'[r] = sent[r], events'[r] = events[r],
         \/ pc'[r] \notin {"prompt", "report", "final"}
         \/ pc'[r] = pc[r] /\ outcome'[r] = outcome[r]
  PROVE  Told(r)'
<1>1. Stream(r)' = Stream(r)
  BY DEF Stream
<1> QED
  BY <1>1 DEF Told

(* A step that puts no word. *)
LEMMA PutTold ==
  ASSUME Inv, NEW r \in Request, Told(r), NEW e \in EventType, Put(r, e), UNCHANGED sent,
         e.event \notin {"markdown", "prompt"},
         pc'[r] \notin {"prompt", "report", "final"},
         e.event = "final_completed" => Complete(Stream(r)),
         e.event = "final_failed" => Blank(Stream(r)) \/ Prompted(Stream(r)),
         e.event = "error" => Blank(Stream(r))
  PROVE  Told(r)'
<1> DEFINE s == Stream(r)
           u == Append(s, e)
<1>1. s \in Seq(EventType)
  BY StreamType
<1>2. Stream(r)' = u
  BY PutExtends
<1> HIDE DEF s
<1>3. /\ Complete(u) <=> Complete(s)
      /\ Prompted(u) <=> Prompted(s)
      /\ Blank(u) <=> Blank(s)
      /\ \A name : Says(u, name) <=> Says(s, name) \/ e.event = name
  BY <1>1, AppendOther
<1> HIDE DEF u
<1>4. /\ Says(s, "final_completed") => Complete(s)
      /\ Says(s, "final_failed") => Blank(s) \/ Prompted(s)
      /\ Says(s, "error") => Blank(s)
  BY DEF Told, s
<1>5. /\ e.event = "final_completed" => Complete(s)
      /\ e.event = "final_failed" => Blank(s) \/ Prompted(s)
      /\ e.event = "error" => Blank(s)
  BY DEF s
<1>6. /\ Says(u, "final_completed") => Complete(u)
      /\ Says(u, "final_failed") => Blank(u) \/ Prompted(u)
      /\ Says(u, "error") => Blank(u)
  BY <1>3, <1>4, <1>5
<1> QED
  BY <1>2, <1>6 DEF Told

LEMMA WorkTold ==
  ASSUME Inv, NEW r \in Request, Told(r), Work(r)
  PROVE  Told(r)'
<1> DEFINE s == Stream(r)
<1>0. /\ pc \in [Request -> Place] /\ outcome \in [Request -> Outcome]
      /\ outcome[r] \in Outcome
      /\ s \in Seq(EventType) /\ Below(s, Ceiling(pc[r]))
  BY StreamType DEF Inv, TypeOK
<1>1. /\ pc[r] \in {"run", "prompt"} => Blank(s)
      /\ pc[r] \in {"run", "prompt", "report", "final"} =>
           \A name \in {"final_completed", "final_failed", "error"} : ~ Says(s, name)
  BY <1>0, Ceilings, BelowIsSilent
<1>2. Blank(s) => Numbered(s)
  BY DEF Blank, Numbered
<1>3. CASE GetWithoutLock(r) \/ TakeLock(r) \/ Build(r) \/ Record(r)
  <2>1. /\ pc'[r] \in {"lock", "build", "run", "ended"}
        /\ sent' = sent /\ events' = events
    BY <1>0, <1>3 DEF GetWithoutLock, TakeLock, Build, Record, Goto, GetReturns
  <2> QED
    BY <2>1, GoTold
<1>4. CASE EmitProgress(r)
  <2>1. /\ pc'[r] = "run" /\ sent' = sent /\ Put(r, Event("progress"))
        /\ Event("progress") \in EventType /\ Event("progress").event = "progress"
    BY <1>4, EventTypes DEF EmitProgress, EventName
  <2> QED
    BY <2>1, PutTold
<1>5. CASE TaskRaises(r)
  <2>1. /\ pc[r] = "run" /\ pc'[r] = "finally" /\ sent' = sent /\ Put(r, Event("error"))
        /\ Event("error") \in EventType /\ Event("error").event = "error"
    BY <1>0, <1>5, EventTypes DEF TaskRaises, EventName, Goto
  <2> QED
    BY <1>1, <2>1, PutTold
<1>6. CASE TaskReturns(r)
  <2>1. /\ pc[r] = "run" /\ sent' = sent /\ events' = events
        /\ \/ pc'[r] = "prompt" /\ outcome'[r] = "blocked"
           \/ pc'[r] = "report" /\ outcome'[r] = "completed"
           \/ pc'[r] = "final" /\ outcome'[r] = "failed"
    BY <1>0, <1>6 DEF TaskReturns, Goto
  <2>2. Stream(r)' = s
    BY <2>1 DEF Stream
  <2>3. Blank(s) /\ Numbered(s) /\ Prompts(s) = {}
    BY <1>1, <1>2, <2>1 DEF Blank
  <2> QED
    BY <1>1, <2>1, <2>2, <2>3 DEF Told
<1>7. CASE PutPrompt(r)
  <2>1. /\ pc[r] = "prompt" /\ pc'[r] = "final" /\ sent' = sent /\ outcome' = outcome
        /\ Put(r, Prompt) /\ outcome[r] = "blocked"
        /\ Prompt \in EventType /\ Prompt.event = "prompt"
    BY <1>0, <1>7, EventTypes DEF PutPrompt, Goto, Told
  <2>2. Stream(r)' = Append(s, Prompt)
    BY <2>1, PutExtends
  <2>3. Prompted(Append(s, Prompt))
    BY <1>0, <1>1, <2>1, AppendPrompt
  <2>4. \A name : Says(Append(s, Prompt), name) <=> Says(s, name) \/ name = "prompt"
    BY <1>0, <2>1, MarksAppend
  <2> HIDE DEF s
  <2>5. \A name \in {"final_completed", "final_failed", "error"} :
          ~ Says(Append(s, Prompt), name)
    BY <1>1, <2>1, <2>4
  <2> QED
    BY <2>1, <2>2, <2>3, <2>5 DEF Told
<1>8. CASE PutReport(r)
  <2>1. /\ pc[r] = "report" /\ sent' = sent /\ outcome' = outcome
        /\ outcome[r] = "completed" /\ Numbered(s) /\ Prompts(s) = {}
    BY <1>8 DEF PutReport, Told
  <2>2. ChunksPut(r) = Cardinality(Chunks(s)) /\ ChunksPut(r) \in Nat
    <3>1. ChunksPut(r) = Cardinality(Chunks(s))
      BY DEF ChunksPut, Emitted, Chunks, Stream
    <3>2. ChunksPut(r) \in Nat
      BY StreamType, ChunksAreCounted
    <3> QED
      BY <3>1, <3>2
  <2>3. CASE Put(r, ReportChunk(ChunksPut(r) + 1)) /\ UNCHANGED pc
    <3> DEFINE e == ReportChunk(ChunksPut(r) + 1)
    <3>1. e \in EventType /\ e.event = "markdown"
      BY <2>2, EventTypes
    <3>2. Stream(r)' = Append(s, e)
      BY <2>1, <2>3, <3>1, PutExtends
    <3>3. Numbered(Append(s, e)) /\ Prompts(Append(s, e)) = {}
      BY <1>0, <2>1, <2>2, <3>1, AppendChunk
    <3>4. \A name : Says(Append(s, e), name) <=> Says(s, name) \/ name = "markdown"
      BY <1>0, <3>1, MarksAppend
    <3> HIDE DEF e, s
    <3>5. \A name \in {"final_completed", "final_failed", "error"} : ~ Says(Append(s, e), name)
      BY <1>1, <2>1, <3>4
    <3> QED
      BY <2>1, <2>3, <3>2, <3>3, <3>5 DEF Told
  <2>4. CASE ChunksPut(r) \in ReportLengths /\ Goto(r, "final") /\ UNCHANGED events
    <3>1. pc'[r] = "final" /\ Stream(r)' = s
      BY <1>0, <2>1, <2>4 DEF Goto, Stream
    <3>2. Complete(s)
      BY <2>1, <2>2, <2>4 DEF Complete
    <3> QED
      BY <1>1, <2>1, <3>1, <3>2 DEF Told
  <2> QED
    BY <1>8, <2>3, <2>4 DEF PutReport
<1>9. CASE PutFinal(r)
  <2> DEFINE e == Final(outcome[r])
  <2>1. /\ pc[r] = "final" /\ pc'[r] = "finally" /\ sent' = sent /\ Put(r, e)
        /\ e \in EventType
    BY <1>0, <1>9, EventTypes DEF PutFinal, Goto
  <2>2. \/ outcome[r] = "completed" /\ Complete(s) /\ e.event = "final_completed"
        \/ outcome[r] = "failed" /\ Blank(s) /\ e.event = "final_failed"
        \/ outcome[r] = "blocked" /\ Prompted(s) /\ e.event = "final_failed"
    BY <2>1 DEF Told, Final, Event
  <2> HIDE DEF e
  <2> QED
    BY <2>1, <2>2, PutTold
<1>10. CASE PutDone(r)
  <2>1. /\ pc'[r] = "ended" /\ sent' = sent /\ Put(r, Event("done"))
        /\ Event("done") \in EventType /\ Event("done").event = "done"
    BY <1>0, <1>10, EventTypes DEF PutDone, EventName, Goto
  <2> QED
    BY <2>1, PutTold
<1> QED
  BY <1>3, <1>4, <1>5, <1>6, <1>7, <1>8, <1>9, <1>10 DEF Work

LEMMA OpenTold ==
  ASSUME Inv, NEW r \in Request, Open(r)
  PROVE  Told(r)'
<1>1. /\ client[r] = "accepted" /\ sent[r] = <<>> /\ events[r] = <<>> /\ pc[r] = "idle"
      /\ pc \in [Request -> Place]
      /\ sent \in [Request -> Seq(EventType)] /\ events \in [Request -> Seq(EventType)]
  BY DEF Inv, TypeOK, Asking, Received, Open
<1>2. /\ sent'[r] = <<Event("ready")>>
      /\ \/ events'[r] = <<>> /\ pc'[r] = "get"
         \/ events'[r] = <<Event("error"), Event("done")>> /\ pc'[r] = "ended"
  BY <1>1 DEF Open, Send, Goto
<1>3. /\ Event("ready").event = "ready" /\ Event("error").event = "error"
      /\ Event("done").event = "done"
  BY DEF Event
<1> DEFINE s == sent'[r]
           t == events'[r]
           u == Stream(r)'
           Early(x) == \A i \in DOMAIN x : x[i].event \in {"ready", "error", "done"}
<1>4. /\ Early(s) /\ Early(t) /\ u = s \o t
      /\ s \in Seq(EventType) /\ t \in Seq(EventType)
  <2>1. s \in Seq(EventType) /\ t \in Seq(EventType)
    BY TypeStep
  <2>2. Early(s) /\ Early(t)
    BY <1>2, <1>3
  <2> QED
    BY <2>1, <2>2 DEF Stream
<1> HIDE DEF s, t, u
<1>5. ASSUME NEW i \in DOMAIN u PROVE u[i].event \in {"ready", "error", "done"}
  <2>1. /\ Len(s) \in Nat /\ Len(t) \in Nat
        /\ DOMAIN s = 1 .. Len(s) /\ DOMAIN t = 1 .. Len(t)
    BY <1>4, Joined
  <2>2. /\ DOMAIN u = 1 .. Len(s) + Len(t)
        /\ \A j \in 1 .. Len(s) + Len(t) : u[j] = IF j <= Len(s) THEN s[j] ELSE t[j - Len(s)]
    BY <1>4, Joined
  <2>3. CASE i <= Len(s)
    BY <1>4, <2>1, <2>2, <2>3
  <2>4. CASE ~ (i <= Len(s))
    <3>1. i - Len(s) \in DOMAIN t /\ u[i] = t[i - Len(s)]
      BY <2>1, <2>2, <2>4
    <3> QED
      BY <1>4, <3>1
  <2> QED
    BY <2>3, <2>4
<1>6. Blank(u) /\ ~ Says(u, "final_completed") /\ ~ Says(u, "final_failed")
  BY <1>5 DEF Blank, Chunks, Prompts, Says
<1> QED
  BY <1>2, <1>6 DEF Told, u

LEMMA YieldTold ==
  ASSUME Inv, NEW r \in Request, Told(r), Yield(r)
  PROVE  Told(r)'
<1> DEFINE s == Stream(r)
           u == Stream(r)'
<1>1. /\ DOMAIN u = DOMAIN s
      /\ \A i \in DOMAIN s : u[i] = s[i] \/ (s[i].event = "done" /\ u[i].event = "end")
  BY YieldKeepsWords
<1>2. pc' = pc /\ outcome' = outcome
  BY DEF Yield
<1> HIDE DEF s, u
<1>3. /\ Chunks(u) = Chunks(s) /\ Prompts(u) = Prompts(s)
      /\ Complete(u) <=> Complete(s)
      /\ Prompted(u) <=> Prompted(s)
      /\ Blank(u) <=> Blank(s)
      /\ Numbered(u) <=> Numbered(s)
      /\ \A name \in {"final_completed", "final_failed", "error"} :
           Says(u, name) <=> Says(s, name)
  BY <1>1, SameWords
<1> QED
  BY <1>2, <1>3 DEF Told, s, u

LEMMA TellStep ==
  ASSUME Inv, \A r \in Request : Told(r), [Next]_vars
  PROVE  \A r \in Request : Told(r)'
<1>1. CASE UNCHANGED vars
  BY <1>1 DEF vars, Told, Stream
<1>2. ASSUME NEW r \in Request,
             \/ \E k \in Kind : Receive(r, k)
             \/ ReceiveRecord(r) \/ Open(r) \/ Yield(r) \/ Disconnect(r)
             \/ Work(r)
      PROVE  \A q \in Request : Told(q)'
  <2>1. ASSUME NEW q \in Request \ {r} PROVE Told(q)'
    BY <1>2, StepIsLocal, GoTold DEF Inv
  <2>2. ASSUME (\E k \in Kind : Receive(r, k)) \/ ReceiveRecord(r) \/ Disconnect(r)
        PROVE  Told(r)'
    <3>1. /\ sent' = sent /\ events' = events /\ outcome' = outcome
          /\ pc'[r] = pc[r] \/ pc'[r] = "get"
      BY <2>2 DEF Receive, ReceiveRecord, Disconnect, Goto, worker, provider, Inv, TypeOK
    <3> QED
      BY <3>1, GoTold
  <2>3. Told(r)'
    BY <1>2, <2>2, WorkTold, OpenTold, YieldTold
  <2> QED
    BY <2>1, <2>3
<1> QED
  BY <1>1, <1>2 DEF Next

LEMMA Telling == Spec => [](\A r \in Request : Told(r))
<1>1. Init => \A r \in Request : Told(r)
  <2> SUFFICES ASSUME Init, NEW r \in Request PROVE Told(r)
    OBVIOUS
  <2>1. Stream(r) = <<>> /\ pc[r] = "idle"
    BY DEF Init, Stream
  <2> QED
    BY <2>1 DEF Told, Says
<1>2. Inv /\ (\A r \in Request : Told(r)) /\ [Next]_vars => (\A r \in Request : Told(r))'
  BY TellStep
<1> QED
  BY <1>1, <1>2, Invariance, PTL DEF Spec

(* The verdict fits to what was shown before it: a completed task has its  *)
(* whole report shown, part after part, a prompt is followed by the        *)
(* verdict that the task failed, and an error by no part of a report.      *)
THEOREM VerdictsFit == Spec => []VerdictFitsReport
<1>1. ASSUME Inv, \A r \in Request : Told(r) PROVE VerdictFitsReport
  <2> SUFFICES ASSUME NEW r \in Request, NEW v \in DOMAIN sent[r],
                      Rank(sent[r][v].event) = 4
               PROVE  LET s == sent[r]
                          shown == {i \in DOMAIN s : s[i].event \in {"markdown", "prompt"}}
                      IN  /\ s[v].event = "final_completed" =>
                               /\ Cardinality(shown) \in ReportLengths
                               /\ \A i \in shown :
                                    s[i] = ReportChunk(Cardinality({j \in shown : j <= i}))
                          /\ s[v].event = "final_failed" =>
                               shown = {} \/ \E i \in shown : shown = {i} /\ s[i] = Prompt
                          /\ s[v].event = "error" => shown = {}
    BY Ranks DEF VerdictFitsReport
  <2> DEFINE s == sent[r]
             t == events[r]
             u == Stream(r)
             shown == {i \in DOMAIN s : s[i].event \in {"markdown", "prompt"}}
  <2>1. /\ Len(s) \in Nat /\ Len(t) \in Nat
        /\ DOMAIN s = 1 .. Len(s) /\ DOMAIN t = 1 .. Len(t)
        /\ DOMAIN u = 1 .. Len(s) + Len(t)
        /\ \A i \in 1 .. Len(s) + Len(t) : u[i] = IF i <= Len(s) THEN s[i] ELSE t[i - Len(s)]
    BY <1>1, StreamType
  <2>2. AllBefore(s, t) /\ Told(r)
    BY <1>1 DEF Inv, Streamed
  <2> HIDE DEF s, t, u
  <2>3. ASSUME NEW i \in DOMAIN t PROVE t[i].event \notin {"markdown", "prompt"}
    <3>1. Before(s[v], t[i])
      BY <2>2 DEF AllBefore, s
    <3> QED
      BY <3>1, Ranks DEF Before, s
  <2>4. ASSUME NEW i \in DOMAIN u, u[i].event \in {"markdown", "prompt"}
        PROVE  i \in DOMAIN s /\ s[i] = u[i]
    <3>1. CASE i <= Len(s)
      BY <2>1, <3>1
    <3>2. CASE ~ (i <= Len(s))
      <4>1. i - Len(s) \in DOMAIN t /\ u[i] = t[i - Len(s)]
        BY <2>1, <3>2
      <4> QED
        BY <2>3, <2>4, <4>1
    <3> QED
      BY <3>1, <3>2
  <2>5. \A i \in DOMAIN s : i \in DOMAIN u /\ u[i] = s[i]
    BY <2>1
  <2>6. shown = Chunks(u) \cup Prompts(u) /\ \A i \in shown : u[i] = s[i]
    BY <2>4, <2>5 DEF Chunks, Prompts
  <2>7. Says(u, s[v].event)
    BY <2>5 DEF Says, s
  <2>8. /\ Says(u, "final_completed") => Complete(u)
        /\ Says(u, "final_failed") => Blank(u) \/ Prompted(u)
        /\ Says(u, "error") => Blank(u)
    BY <2>2 DEF Told, u
  <2> HIDE DEF shown
  <2>9. ASSUME s[v].event = "final_completed"
        PROVE  /\ Cardinality(shown) \in ReportLengths
               /\ \A i \in shown : s[i] = ReportChunk(Cardinality({j \in shown : j <= i}))
    <3>1. Complete(u) /\ shown = Chunks(u)
      BY <2>6, <2>7, <2>8, <2>9 DEF Complete
    <3> QED
      BY <2>6, <3>1 DEF Complete, Numbered
  <2>10. ASSUME s[v].event = "final_failed"
         PROVE  shown = {} \/ \E i \in shown : shown = {i} /\ s[i] = Prompt
    BY <2>6, <2>7, <2>8, <2>10 DEF Blank, Prompted
  <2>11. s[v].event = "error" => shown = {}
    BY <2>6, <2>7, <2>8 DEF Blank
  <2> QED
    BY <2>9, <2>10, <2>11 DEF s, shown
<1> QED
  BY <1>1, Invariance, Telling, PTL

=============================================================================
