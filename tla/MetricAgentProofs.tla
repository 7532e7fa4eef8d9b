------------------------- MODULE MetricAgentProofs --------------------------
(***************************************************************************)
(* Proofs about MetricAgent, for any number of threads, metrics and        *)
(* streams: what a diagnosis shows is its own, although all of them read   *)
(* from one stream.                                                        *)
(***************************************************************************)
EXTENDS MetricAgent, TLAPS

(* A thread that posts has a session, one that reads the endpoint event    *)
(* reads it from the stream it has just opened.                            *)
Connected ==
  \A t \in Threads :
    /\ where[t] \in Calls \cup {"initialized"} => mcp.session # 0
    /\ where[t] = "endpoint" => reading[t] # 0 /\ mcp.sse # 0

(* A thread goes through its metrics in order and stops after the last.    *)
Turned ==
  \A t \in Threads :
    /\ turn[t] <= MaxTurns[t]
    /\ where[t] = "done" => turn[t] = MaxTurns[t]

(* The metrics that a thread is done with.                                 *)
Past(t) ==
  {n \in DOMAIN Metrics : n < turn[t] \/ (where[t] = "done" /\ n = turn[t])}

(* Each of them was found, by a request of the own, or is missing.         *)
Settled(t) ==
  /\ \A found \in series[t] :
       /\ found.of[1] = t
       /\ found.of[2] \in Past(t)
       /\ found.metric = Metrics[found.of[2]]
  /\ \A found, other \in series[t] : found.of[2] = other.of[2] => found = other
  /\ missing[t] = {Metrics[n] : n \in Past(t)} \ {found.metric : found \in series[t]}

AgentInv ==
  /\ AgentTypeOK
  /\ Connected
  /\ Turned
  /\ \A t \in Threads : Settled(t)

-----------------------------------------------------------------------------
(* What the parameters are.                                                *)
LEMMA Parameters ==
  /\ DOMAIN Metrics = 1 .. Len(Metrics) /\ Len(Metrics) \in Nat
  /\ \A n \in DOMAIN Metrics : Metrics[n] \in STRING
  /\ \A t \in Threads : MaxTurns[t] \in DOMAIN Metrics /\ 1 \in DOMAIN Metrics
  /\ DOMAIN Metrics \subseteq Nat /\ Streams \subseteq Nat \ {0}
BY AgentAssumption DEF Streams

(* The invariant holds at the beginning.                                   *)
LEMMA InitInv == AgentInit => AgentInv
<1> SUFFICES ASSUME AgentInit PROVE AgentInv
  OBVIOUS
<1> USE Parameters DEF AgentInit
<1>1. AgentTypeOK
  BY DEF AgentTypeOK, Calls, McpRequest
<1>2. Connected
  BY DEF Connected, Calls
<1>3. Turned
  BY DEF Turned
<1>4. ASSUME NEW t \in Threads PROVE Settled(t)
  <2>1. Past(t) = {}
    BY DEF Past
  <2>2. series[t] = {} /\ missing[t] = {}
    OBVIOUS
  <2> QED BY <2>1, <2>2 DEF Settled
<1> QED BY <1>1, <1>2, <1>3, <1>4 DEF AgentInv

-----------------------------------------------------------------------------
(* What a step does to the metrics of the threads: nothing, or thread t    *)
(* finds its current one, or misses it.                                    *)
Quiet ==
  /\ UNCHANGED <<turn, series, missing>>
  /\ \A t \in Threads : where'[t] = "done" <=> where[t] = "done"

Finds(t) ==
  /\ where[t] # "done"
  /\ Collect(t, RequestOf(t))

Misses(t) ==
  /\ where[t] # "done"
  /\ missing' = [missing EXCEPT ![t] = @ \cup {Metrics[turn[t]]}]
  /\ NextMetric(t)
  /\ UNCHANGED series

(* Going anywhere but to the end is quiet.                                 *)
LEMMA GoToIsQuiet ==
  ASSUME AgentTypeOK, NEW t \in Threads, NEW place, place # "done",
         where[t] # "done", GoTo(t, place)
  PROVE  Quiet
BY DEF AgentTypeOK, GoTo, Quiet

(* So is taking an answer, unless it is the answer to the query.           *)
LEMMA TakeAnswerKinds ==
  ASSUME AgentTypeOK, NEW t \in Threads, where[t] # "done",
         TakeAnswer(t, RequestOf(t))
  PROVE  Quiet \/ Finds(t)
<1>1. CASE Answered(t, RequestOf(t))
  <2>1. CASE GoTo(t, "initialized") \/ GoTo(t, "tools/call")
    BY <2>1, GoToIsQuiet
  <2>2. CASE Collect(t, RequestOf(t))
    BY <2>2 DEF Finds
  <2> QED BY <1>1, <2>1, <2>2 DEF Answered
<1>2. CASE Raise(t)
  BY <1>2, GoToIsQuiet DEF Raise
<1> QED BY <1>1, <1>2 DEF TakeAnswer

LEMMA StepKinds ==
  ASSUME AgentTypeOK, AgentNext
  PROVE  Quiet \/ \E t \in Threads : Finds(t) \/ Misses(t)
<1>1. ASSUME NEW t \in Threads, Analyze(t) PROVE Quiet
  BY <1>1, GoToIsQuiet DEF Analyze
<1>2. ASSUME NEW t \in Threads, ThreadStep(t) PROVE Quiet \/ Finds(t) \/ Misses(t)
  <2>1. CASE EnsureSession(t)
    BY <2>1, GoToIsQuiet DEF EnsureSession, AfterSession
  <2>2. CASE OpenStream(t)
    BY <2>2 DEF OpenStream, Quiet, AgentTypeOK
  <2>3. CASE OpenFails(t)
    BY <2>3, GoToIsQuiet DEF OpenFails, Raise
  <2>4. CASE ReadEndpoint(t)
    BY <2>4, GoToIsQuiet DEF ReadEndpoint
  <2>5. CASE EndpointFails(t)
    BY <2>5, GoToIsQuiet DEF EndpointFails, Raise
  <2>6. CASE PostAnswered(t)
    BY <2>6, TakeAnswerKinds DEF PostAnswered, Posting, Calls
  <2>7. CASE PostAccepted(t)
    BY <2>7 DEF PostAccepted, Quiet
  <2>8. CASE Notify(t)
    BY <2>8, GoToIsQuiet DEF Notify, AfterSession, Raise
  <2>9. CASE ReadMessage(t)
    <3>1. where[t] # "done"
      BY <2>9 DEF ReadMessage, Waiting, Calls
    <3>2. CASE Head(inbox[reading[t]]) = RequestOf(t)
      <4>1. TakeAnswer(t, RequestOf(t))
        BY <2>9, <3>2 DEF ReadMessage
      <4> QED BY <3>1, <4>1, TakeAnswerKinds
    <3>3. CASE Head(inbox[reading[t]]) # RequestOf(t)
      BY <2>9, <3>3 DEF ReadMessage, Quiet
    <3> QED BY <3>2, <3>3
  <2>10. CASE ReadTorn(t)
    <3>1. CASE UNCHANGED threadVars
      BY <3>1 DEF threadVars, Quiet
    <3>2. CASE Raise(t)
      BY <2>10, <3>2, GoToIsQuiet DEF ReadTorn, Raise, Waiting, Calls
    <3> QED BY <2>10, <3>1, <3>2 DEF ReadTorn
  <2>11. CASE ReadEnd(t)
    BY <2>11, GoToIsQuiet DEF ReadEnd, Raise, Waiting, Calls
  <2>12. CASE ReadTimeout(t)
    BY <2>12, GoToIsQuiet DEF ReadTimeout, Raise, Waiting, Calls
  <2>13. CASE HttpQuery(t)
    BY <2>13 DEF HttpQuery, Finds, Misses
  <2> QED BY <1>2, <2>1, <2>2, <2>3, <2>4, <2>5, <2>6, <2>7, <2>8, <2>9,
             <2>10, <2>11, <2>12, <2>13 DEF ThreadStep
<1>3. CASE ServerAnswers
  BY <1>3 DEF ServerAnswers, threadVars, Quiet
<1>4. CASE ServerCloses
  BY <1>4 DEF ServerCloses, threadVars, Quiet
<1>5. CASE ServerFallsSilent
  BY <1>5 DEF ServerFallsSilent, threadVars, Quiet
<1> QED BY <1>1, <1>2, <1>3, <1>4, <1>5 DEF AgentNext

-----------------------------------------------------------------------------
(* A thread finishes a metric: its turn grows by one, or it stops.         *)
LEMMA TurnedStep ==
  ASSUME AgentInv, AgentNext
  PROVE  Turned'
<1> USE DEF AgentInv
<1>1. CASE Quiet
  BY <1>1 DEF Quiet, Turned
<1>2. ASSUME NEW t \in Threads, where[t] # "done", NextMetric(t) PROVE Turned'
  <2> SUFFICES ASSUME NEW u \in Threads
               PROVE  /\ turn'[u] <= MaxTurns[u]
                      /\ where'[u] = "done" => turn'[u] = MaxTurns[u]
    BY DEF Turned
  <2>1. turn[t] \in Nat /\ MaxTurns[t] \in Nat /\ turn[t] <= MaxTurns[t]
    BY Parameters DEF AgentTypeOK, Turned
  <2>2. CASE turn[t] < MaxTurns[t]
    <3>1. /\ turn'[u] = IF u = t THEN turn[t] + 1 ELSE turn[u]
          /\ where'[u] = IF u = t THEN "check" ELSE where[u]
      BY <1>2, <2>2 DEF NextMetric, AgentTypeOK
    <3> QED BY <2>1, <2>2, <3>1 DEF Turned
  <2>3. CASE ~ (turn[t] < MaxTurns[t])
    BY <1>2, <2>1, <2>3 DEF NextMetric, Turned, AgentTypeOK
  <2> QED BY <2>2, <2>3
<1>3. ASSUME NEW t \in Threads, Finds(t) \/ Misses(t) PROVE Turned'
  BY <1>2, <1>3 DEF Finds, Misses, Collect
<1> QED BY <1>1, <1>3, StepKinds

(* Then its past grows by the metric, and that of the others stays.        *)
LEMMA PastStep ==
  ASSUME AgentInv, NEW t \in Threads, where[t] # "done", NextMetric(t)
  PROVE  /\ turn[t] \in DOMAIN Metrics /\ turn[t] \notin Past(t)
         /\ Past(t)' = Past(t) \cup {turn[t]}
         /\ \A u \in Threads \ {t} : Past(u)' = Past(u)
<1> USE Parameters DEF AgentInv
<1>1. turn[t] \in DOMAIN Metrics /\ turn[t] \in Nat /\ MaxTurns[t] \in Nat
  BY DEF AgentTypeOK
<1>2. turn[t] \notin Past(t)
  BY <1>1 DEF Past
<1>3. Past(t)' = Past(t) \cup {turn[t]}
  <2>1. CASE turn[t] < MaxTurns[t]
    <3>1. turn'[t] = turn[t] + 1 /\ where'[t] = "check"
      BY <2>1 DEF NextMetric, AgentTypeOK
    <3>2. ASSUME NEW n \in DOMAIN Metrics PROVE n < turn[t] + 1 <=> n < turn[t] \/ n = turn[t]
      BY <1>1
    <3> QED BY <1>1, <3>1, <3>2 DEF Past
  <2>2. CASE ~ (turn[t] < MaxTurns[t])
    <3>1. turn'[t] = turn[t] /\ where'[t] = "done"
      BY <2>2 DEF NextMetric, AgentTypeOK
    <3> QED BY <1>1, <3>1 DEF Past
  <2> QED BY <2>1, <2>2
<1>4. ASSUME NEW u \in Threads \ {t} PROVE Past(u)' = Past(u)
  <2>1. turn'[u] = turn[u] /\ where'[u] = where[u]
    BY DEF NextMetric, AgentTypeOK
  <2> QED BY <2>1 DEF Past
<1> QED BY <1>1, <1>2, <1>3, <1>4

LEMMA SettledStep ==
  ASSUME AgentInv, AgentNext
  PROVE  \A t \in Threads : Settled(t)'
<1> USE DEF AgentInv
<1>1. CASE Quiet
  <2> SUFFICES ASSUME NEW t \in Threads PROVE Settled(t)'
    OBVIOUS
  <2>1. Past(t)' = Past(t)
    BY <1>1 DEF Quiet, Past
  <2> QED BY <1>1, <2>1 DEF Quiet, Settled
<1>2. ASSUME NEW t \in Threads, Finds(t) PROVE \A u \in Threads : Settled(u)'
  <2> DEFINE new == [metric |-> Metrics[turn[t]], of |-> RequestOf(t)]
  <2>1. NextMetric(t) /\ where[t] # "done" /\ missing' = missing
    BY <1>2 DEF Finds, Collect
  <2>2. series'[t] = series[t] \cup {new} /\ \A u \in Threads \ {t} : series'[u] = series[u]
    BY <1>2 DEF Finds, Collect, AgentTypeOK
  <2>3. new.of[1] = t /\ new.of[2] = turn[t] /\ new.metric = Metrics[turn[t]]
    BY DEF RequestOf
  <2> HIDE DEF new
  <2>4. \A found \in series[t] : found.of[2] \in Past(t)
    BY DEF Settled
  <2>5. Settled(t)'
    <3>1. \A found \in series'[t] :
            found.of[1] = t /\ found.of[2] \in Past(t)' /\ found.metric = Metrics[found.of[2]]
      BY <2>1, <2>2, <2>3, PastStep DEF Settled
    <3>2. \A found, other \in series'[t] : found.of[2] = other.of[2] => found = other
      BY <2>1, <2>2, <2>3, <2>4, PastStep DEF Settled
    <3>3. missing'[t] = {Metrics[n] : n \in Past(t)'} \ {found.metric : found \in series'[t]}
      <4>1. \A n \in Past(t) : Metrics[n] # Metrics[turn[t]]
        BY <2>1, PastStep, AgentAssumption DEF Past
      <4>2. {Metrics[n] : n \in Past(t)'} = {Metrics[n] : n \in Past(t)} \cup {Metrics[turn[t]]}
        BY <2>1, PastStep
      <4>3. {found.metric : found \in series'[t]}
              = {found.metric : found \in series[t]} \cup {Metrics[turn[t]]}
        BY <2>2, <2>3
      <4>4. missing'[t] = {Metrics[n] : n \in Past(t)} \ {found.metric : found \in series[t]}
        BY <2>1 DEF Settled
      <4> QED BY <4>1, <4>2, <4>3, <4>4
    <3> QED BY <3>1, <3>2, <3>3 DEF Settled
  <2>6. ASSUME NEW u \in Threads \ {t} PROVE Settled(u)'
    <3>1. Past(u)' = Past(u) /\ series'[u] = series[u] /\ missing'[u] = missing[u] /\ Settled(u)
      BY <2>1, <2>2, PastStep
    <3> QED BY <3>1 DEF Settled
  <2> QED BY <2>5, <2>6
<1>3. ASSUME NEW t \in Threads, Misses(t) PROVE \A u \in Threads : Settled(u)'
  <2>1. NextMetric(t) /\ where[t] # "done" /\ series' = series
    BY <1>3 DEF Misses
  <2>2. /\ missing'[t] = missing[t] \cup {Metrics[turn[t]]}
        /\ \A u \in Threads \ {t} : missing'[u] = missing[u]
    BY <1>3 DEF Misses, AgentTypeOK
  <2>3. Settled(t)'
    <3>1. \A found \in series'[t] :
            found.of[1] = t /\ found.of[2] \in Past(t)' /\ found.metric = Metrics[found.of[2]]
      BY <2>1, PastStep DEF Settled
    <3>2. missing'[t] = {Metrics[n] : n \in Past(t)'} \ {found.metric : found \in series'[t]}
      <4>1. \A n \in Past(t) : Metrics[n] # Metrics[turn[t]]
        BY <2>1, PastStep, AgentAssumption DEF Past
      <4>2. {Metrics[n] : n \in Past(t)'} = {Metrics[n] : n \in Past(t)} \cup {Metrics[turn[t]]}
        BY <2>1, PastStep
      <4>3. \A found \in series[t] : found.metric # Metrics[turn[t]]
        BY <4>1 DEF Settled
      <4>4. missing[t] = {Metrics[n] : n \in Past(t)} \ {found.metric : found \in series[t]}
        BY DEF Settled
      <4> QED BY <2>1, <2>2, <4>2, <4>3, <4>4
    <3> QED BY <2>1, <3>1, <3>2 DEF Settled
  <2>4. ASSUME NEW u \in Threads \ {t} PROVE Settled(u)'
    <3>1. Past(u)' = Past(u) /\ series'[u] = series[u] /\ missing'[u] = missing[u] /\ Settled(u)
      BY <2>1, <2>2, PastStep
    <3> QED BY <3>1 DEF Settled
  <2> QED BY <2>3, <2>4
<1> QED BY <1>1, <1>2, <1>3, StepKinds

-----------------------------------------------------------------------------
(* Type correctness, in three parts.                                       *)
ThreadType ==
  /\ where \in [Threads -> Calls \cup {"idle", "check", "open", "endpoint",
                                        "initialized", "http", "done"}]
  /\ turn \in [Threads -> DOMAIN Metrics]
  /\ reading \in [Threads -> Streams \cup {0}]
  /\ series \in [Threads -> SUBSET [metric : STRING, of : McpRequest]]
  /\ missing \in [Threads -> SUBSET STRING]

McpType ==
  /\ mcp \in [session : Streams \cup {0}, sse : Streams \cup {0}, tool : BOOLEAN]
  /\ mcp.session # 0 => mcp.sse # 0

ServerType ==
  /\ streams \in [Streams -> {"unopened", "open", "dead"}]
  /\ inbox \in [Streams -> Seq(McpRequest)]
  /\ owed \subseteq Streams \X McpRequest
  /\ chatty \in BOOLEAN
  /\ \A s \in Streams : inbox[s] # <<>> => streams[s] # "unopened"

LEMMA TypeParts == AgentTypeOK <=> ThreadType /\ McpType /\ ServerType
BY DEF AgentTypeOK, ThreadType, McpType, ServerType

Places == Calls \cup {"idle", "check", "open", "endpoint", "initialized", "http"}

LEMMA GoToType ==
  ASSUME ThreadType, NEW t \in Threads, NEW place \in Places, GoTo(t, place)
  PROVE  ThreadType'
BY DEF GoTo, ThreadType, Places

(* A request that was made is one.                                         *)
LEMMA RequestType ==
  ASSUME ThreadType, NEW t \in Threads, where[t] \in Calls \cup {"http"}
  PROVE  RequestOf(t) \in McpRequest
BY DEF ThreadType, RequestOf, McpRequest

LEMMA NextMetricType ==
  ASSUME ThreadType, NEW t \in Threads, NextMetric(t)
  PROVE  /\ where' \in [Threads -> Places \cup {"done"}]
         /\ turn' \in [Threads -> DOMAIN Metrics]
         /\ reading' \in [Threads -> Streams \cup {0}]
<1>1. reading' \in [Threads -> Streams \cup {0}]
  BY DEF NextMetric, ThreadType
<1>2. CASE turn[t] < MaxTurns[t]
  <2>1. turn[t] + 1 \in DOMAIN Metrics
    BY <1>2, Parameters DEF ThreadType
  <2> QED BY <1>1, <1>2, <2>1 DEF NextMetric, ThreadType, Places
<1>3. CASE ~ (turn[t] < MaxTurns[t])
  BY <1>1, <1>3 DEF NextMetric, ThreadType, Places
<1> QED BY <1>2, <1>3

LEMMA CollectType ==
  ASSUME ThreadType, NEW t \in Threads, NEW request \in McpRequest, Collect(t, request)
  PROVE  ThreadType'
<1>1. [metric |-> Metrics[turn[t]], of |-> request] \in [metric : STRING, of : McpRequest]
  BY Parameters DEF ThreadType
<1>2. series' \in [Threads -> SUBSET [metric : STRING, of : McpRequest]]
  BY <1>1 DEF Collect, ThreadType
<1>3. NextMetric(t) /\ missing' = missing
  BY DEF Collect
<1> QED BY <1>2, <1>3, NextMetricType DEF ThreadType, Places

LEMMA TakeAnswerType ==
  ASSUME ThreadType, McpType, NEW t \in Threads, where[t] \in Calls,
         TakeAnswer(t, RequestOf(t))
  PROVE  ThreadType' /\ McpType'
<1>1. CASE Answered(t, RequestOf(t))
  <2>1. McpType'
    BY <1>1 DEF Answered, McpType
  <2>2. CASE GoTo(t, "initialized") \/ GoTo(t, "tools/call")
    BY <2>1, <2>2, GoToType DEF Places, Calls
  <2>3. CASE Collect(t, RequestOf(t))
    BY <2>1, <2>3, CollectType, RequestType
  <2> QED BY <1>1, <2>1, <2>2, <2>3 DEF Answered
<1>2. CASE Raise(t) /\ mcp' = mcp
  BY <1>2, GoToType DEF Raise, McpType, Places
<1> QED BY <1>1, <1>2 DEF TakeAnswer

LEMMA TypeStep ==
  ASSUME AgentTypeOK, Connected, AgentNext
  PROVE  AgentTypeOK'
<1> USE TypeParts
<1> SUFFICES ThreadType' /\ McpType' /\ ServerType'
  BY DEF AgentTypeOK, ThreadType, McpType, ServerType
<1>1. ASSUME NEW t \in Threads, Analyze(t) PROVE ThreadType' /\ McpType' /\ ServerType'
  BY <1>1, GoToType DEF Analyze, McpType, ServerType, serverVars, Places
<1>2. ASSUME NEW t \in Threads, ThreadStep(t)
      PROVE  ThreadType' /\ McpType' /\ ServerType'
  <2>1. CASE EnsureSession(t)
    BY <2>1, GoToType DEF EnsureSession, AfterSession, McpType, ServerType, serverVars,
                          Places, Calls
  <2>2. CASE OpenStream(t)
    <3>1. ThreadType'
      BY <2>2 DEF OpenStream, ThreadType
    <3>2. McpType'
      BY <2>2, Parameters DEF OpenStream, McpType
    <3>3. ServerType'
      BY <2>2 DEF OpenStream, ServerType
    <3> QED BY <3>1, <3>2, <3>3
  <2>3. CASE OpenFails(t)
    BY <2>3, GoToType DEF OpenFails, Raise, McpType, ServerType, serverVars, Places
  <2>4. CASE ReadEndpoint(t)
    <3>1. ThreadType'
      BY <2>4, GoToType DEF ReadEndpoint, Places, Calls
    <3>2. McpType'
      BY <2>4 DEF ReadEndpoint, McpType, ThreadType, Connected
    <3>3. ServerType'
      BY <2>4 DEF ReadEndpoint, ServerType, serverVars
    <3> QED BY <3>1, <3>2, <3>3
  <2>5. CASE EndpointFails(t)
    BY <2>5, GoToType DEF EndpointFails, Raise, McpType, ServerType, Places
  <2>6. CASE PostAnswered(t)
    BY <2>6, TakeAnswerType DEF PostAnswered, Posting, ServerType, serverVars
  <2>7. CASE PostAccepted(t)
    <3>1. ThreadType' /\ McpType'
      BY <2>7 DEF PostAccepted, ThreadType, McpType
    <3>2. <<mcp.session, RequestOf(t)>> \in Streams \X McpRequest
      BY <2>7, RequestType DEF PostAccepted, Posting, Connected, McpType
    <3>3. ServerType'
      BY <2>7, <3>2 DEF PostAccepted, ServerType
    <3> QED BY <3>1, <3>3
  <2>8. CASE Notify(t)
    BY <2>8, GoToType DEF Notify, AfterSession, Raise, McpType, ServerType, serverVars,
                          Places, Calls
  <2>9. CASE ReadMessage(t)
    <3>1. reading[t] \in Streams /\ inbox[reading[t]] # <<>>
      BY <2>9 DEF ReadMessage, Waiting, ThreadType
    <3>2. ServerType'
      BY <2>9, <3>1 DEF ReadMessage, ServerType
    <3>3. CASE Head(inbox[reading[t]]) = RequestOf(t)
      <4>1. TakeAnswer(t, RequestOf(t)) /\ where[t] \in Calls
        BY <2>9, <3>3 DEF ReadMessage, Waiting
      <4> QED BY <3>2, <4>1, TakeAnswerType
    <3>4. CASE Head(inbox[reading[t]]) # RequestOf(t)
      BY <2>9, <3>2, <3>4 DEF ReadMessage, ThreadType, McpType
    <3> QED BY <3>3, <3>4
  <2>10. CASE ReadTorn(t)
    <3>1. reading[t] \in Streams /\ inbox[reading[t]] # <<>>
      BY <2>10 DEF ReadTorn, Waiting, ThreadType
    <3>2. ServerType' /\ McpType'
      BY <2>10, <3>1 DEF ReadTorn, ServerType, McpType
    <3>3. ThreadType'
      BY <2>10, GoToType DEF ReadTorn, Raise, threadVars, ThreadType, Places
    <3> QED BY <3>2, <3>3
  <2>11. CASE ReadEnd(t)
    BY <2>11, GoToType DEF ReadEnd, Raise, McpType, ServerType, serverVars, Places
  <2>12. CASE ReadTimeout(t)
    BY <2>12, GoToType DEF ReadTimeout, Raise, McpType, ServerType, Places
  <2>13. CASE HttpQuery(t)
    <3>1. McpType' /\ ServerType'
      BY <2>13 DEF HttpQuery, McpType, ServerType, serverVars
    <3>2. CASE Collect(t, RequestOf(t))
      BY <2>13, <3>1, <3>2, CollectType, RequestType DEF HttpQuery
    <3>3. CASE Misses(t)
      <4>1. missing' \in [Threads -> SUBSET STRING]
        BY <3>3, Parameters DEF Misses, ThreadType
      <4> QED BY <3>1, <3>3, <4>1, NextMetricType DEF Misses, ThreadType, Places
    <3> QED BY <2>13, <3>2, <3>3 DEF HttpQuery, Misses
  <2> QED BY <1>2, <2>1, <2>2, <2>3, <2>4, <2>5, <2>6, <2>7, <2>8, <2>9,
             <2>10, <2>11, <2>12, <2>13 DEF ThreadStep
<1>3. CASE ServerAnswers
  BY <1>3 DEF ServerAnswers, threadVars, ThreadType, McpType, ServerType
<1>4. CASE ServerCloses
  BY <1>4 DEF ServerCloses, threadVars, ThreadType, McpType, ServerType
<1>5. CASE ServerFallsSilent
  BY <1>5 DEF ServerFallsSilent, threadVars, ThreadType, McpType, ServerType
<1> QED BY <1>1, <1>2, <1>3, <1>4, <1>5 DEF AgentNext

-----------------------------------------------------------------------------
(* A thread that goes on with the session there is stays connected, and    *)
(* nobody loses it.                                                        *)
LEMMA GoToConnected ==
  ASSUME ThreadType, Connected, NEW t \in Threads, NEW place,
         GoTo(t, place), place # "endpoint",
         place \in Calls \cup {"initialized"} => mcp.session # 0,
         mcp.session # 0 => mcp'.session # 0, mcp.sse # 0 => mcp'.sse # 0
  PROVE  Connected'
BY DEF GoTo, Connected, ThreadType

LEMMA CollectConnected ==
  ASSUME ThreadType, Connected, NEW t \in Threads, NextMetric(t), mcp' = mcp
  PROVE  Connected'
<1>1. PICK place \in {"check", "done"} : where' = [where EXCEPT ![t] = place]
  BY DEF NextMetric
<1>2. \A u \in Threads \ {t} : where'[u] = where[u] /\ reading'[u] = reading[u]
  BY <1>1 DEF NextMetric, ThreadType
<1>3. where'[t] \notin Calls \cup {"initialized", "endpoint"}
  BY <1>1 DEF ThreadType, Calls
<1> QED BY <1>2, <1>3 DEF Connected

LEMMA TakeAnswerConnected ==
  ASSUME ThreadType, McpType, Connected, NEW t \in Threads, where[t] \in Calls,
         TakeAnswer(t, RequestOf(t))
  PROVE  Connected'
<1>1. mcp.session # 0
  BY DEF Connected
<1>2. CASE Answered(t, RequestOf(t))
  <2>1. mcp'.session = mcp.session /\ mcp'.sse = mcp.sse
    BY <1>2 DEF Answered, McpType
  <2>2. CASE GoTo(t, "initialized") \/ GoTo(t, "tools/call")
    BY <1>1, <2>1, <2>2, GoToConnected DEF Calls
  <2>3. CASE where[t] = "tools/call" /\ Collect(t, RequestOf(t))
    BY <1>2, <2>3, CollectConnected DEF Answered, Collect
  <2> QED BY <1>2, <2>2, <2>3 DEF Answered
<1>3. CASE Raise(t) /\ mcp' = mcp
  BY <1>3, GoToConnected DEF Raise, Calls
<1> QED BY <1>2, <1>3 DEF TakeAnswer

LEMMA ConnectedStep ==
  ASSUME AgentTypeOK, Connected, AgentNext
  PROVE  Connected'
<1> USE TypeParts
<1>1. ASSUME NEW t \in Threads, Analyze(t) PROVE Connected'
  BY <1>1, GoToConnected DEF Analyze, Calls
<1>2. ASSUME NEW t \in Threads, ThreadStep(t) PROVE Connected'
  <2>1. CASE EnsureSession(t)
    BY <2>1, GoToConnected DEF EnsureSession, AfterSession, Calls
  <2>2. CASE OpenStream(t)
    <3>1. PICK s \in Streams : mcp' = [mcp EXCEPT !.sse = s]
                               /\ reading' = [reading EXCEPT ![t] = s]
      BY <2>2 DEF OpenStream
    <3>2. mcp'.session = mcp.session /\ mcp'.sse = s /\ s # 0
      BY <3>1, Parameters DEF McpType
    <3>3. /\ where'[t] = "endpoint" /\ reading'[t] = s
          /\ \A u \in Threads \ {t} : where'[u] = where[u] /\ reading'[u] = reading[u]
      BY <2>2, <3>1 DEF OpenStream, ThreadType
    <3> QED BY <3>2, <3>3 DEF Connected, Calls
  <2>3. CASE OpenFails(t)
    BY <2>3, GoToConnected DEF OpenFails, Raise, Calls
  <2>4. CASE ReadEndpoint(t)
    <3>1. reading[t] # 0 /\ mcp'.session = reading[t] /\ mcp'.sse = mcp.sse
      BY <2>4 DEF ReadEndpoint, Connected, McpType
    <3>2. /\ where'[t] = "initialize"
          /\ \A u \in Threads \ {t} : where'[u] = where[u] /\ reading'[u] = reading[u]
      BY <2>4 DEF ReadEndpoint, GoTo, ThreadType
    <3> QED BY <3>1, <3>2 DEF Connected
  <2>5. CASE EndpointFails(t)
    BY <2>5, GoToConnected DEF EndpointFails, Raise, Calls
  <2>6. CASE PostAnswered(t)
    BY <2>6, TakeAnswerConnected DEF PostAnswered, Posting
  <2>7. CASE PostAccepted(t)
    <3>1. \A u \in Threads \ {t} : reading'[u] = reading[u]
      BY <2>7 DEF PostAccepted, ThreadType
    <3> QED BY <2>7, <3>1 DEF PostAccepted, Posting, Connected, Calls
  <2>8. CASE Notify(t)
    BY <2>8, GoToConnected DEF Notify, AfterSession, Raise, Calls, Connected
  <2>9. CASE ReadMessage(t)
    <3>1. where[t] \in Calls
      BY <2>9 DEF ReadMessage, Waiting
    <3>2. CASE Head(inbox[reading[t]]) = RequestOf(t)
      <4>1. TakeAnswer(t, RequestOf(t))
        BY <2>9, <3>2 DEF ReadMessage
      <4> QED BY <3>1, <4>1, TakeAnswerConnected
    <3>3. CASE Head(inbox[reading[t]]) # RequestOf(t)
      <4>1. UNCHANGED <<where, mcp>> /\ \A u \in Threads \ {t} : reading'[u] = reading[u]
        BY <2>9, <3>3 DEF ReadMessage, ThreadType
      <4> QED BY <3>1, <4>1 DEF Connected, Calls
    <3> QED BY <3>2, <3>3
  <2>10. CASE ReadTorn(t)
    <3>1. CASE UNCHANGED threadVars
      BY <2>10, <3>1 DEF ReadTorn, threadVars, Connected
    <3>2. CASE Raise(t)
      BY <2>10, <3>2, GoToConnected DEF ReadTorn, Raise, Calls
    <3> QED BY <2>10, <3>1, <3>2 DEF ReadTorn
  <2>11. CASE ReadEnd(t)
    BY <2>11, GoToConnected DEF ReadEnd, Raise, Calls
  <2>12. CASE ReadTimeout(t)
    BY <2>12, GoToConnected DEF ReadTimeout, Raise, Calls
  <2>13. CASE HttpQuery(t)
    BY <2>13, CollectConnected DEF HttpQuery, Collect
  <2> QED BY <1>2, <2>1, <2>2, <2>3, <2>4, <2>5, <2>6, <2>7, <2>8, <2>9,
             <2>10, <2>11, <2>12, <2>13 DEF ThreadStep
<1>3. CASE ServerAnswers \/ ServerCloses \/ ServerFallsSilent
  BY <1>3 DEF ServerAnswers, ServerCloses, ServerFallsSilent, threadVars, Connected
<1> QED BY <1>1, <1>2, <1>3 DEF AgentNext

-----------------------------------------------------------------------------
LEMMA StepInv == AgentInv /\ [AgentNext]_agentVars => AgentInv'
<1>1. ASSUME AgentInv, AgentNext PROVE AgentInv'
  BY <1>1, TypeStep, ConnectedStep, TurnedStep, SettledStep DEF AgentInv
<1>2. ASSUME AgentInv, UNCHANGED agentVars PROVE AgentInv'
  BY <1>2 DEF AgentInv, AgentTypeOK, Connected, Turned, Settled, Past,
              agentVars, threadVars, serverVars
<1> QED BY <1>1, <1>2

LEMMA Invariance == AgentSpec => []AgentInv
BY InitInv, StepInv, PTL DEF AgentSpec

(* The variables of the metric agents keep their types.                    *)
THEOREM AgentTypeCorrect == AgentSpec => []AgentTypeOK
<1>1. AgentInv => AgentTypeOK
  BY DEF AgentInv
<1> QED BY <1>1, Invariance, PTL

(* However the threads interleave on the shared session, and whatever the  *)
(* server answers, late or never, a diagnosis only shows answers to its    *)
(* own queries, each metric at most once, and accounts for every metric.   *)
THEOREM MetricsBelongToTheirDiagnosis == AgentSpec => []MetricsAreOwn
<1>1. ASSUME AgentInv PROVE MetricsAreOwn
  <2> SUFFICES ASSUME NEW t \in Threads
      PROVE /\ \A found \in series[t] :
                 found.of[1] = t /\ found.metric = Metrics[found.of[2]]
            /\ \A found, other \in series[t] : found.metric = other.metric => found = other
            /\ where[t] = "done" =>
                 missing[t] = {Metrics[n] : n \in 1 .. MaxTurns[t]}
                                \ {found.metric : found \in series[t]}
    BY DEF MetricsAreOwn
  <2>1. Settled(t)
    BY <1>1 DEF AgentInv
  <2>2. \A found, other \in series[t] : found.metric = other.metric => found = other
    <3>1. \A found \in series[t] : found.of[2] \in DOMAIN Metrics
      BY <2>1 DEF Settled, Past
    <3> QED BY <2>1, <3>1, AgentAssumption DEF Settled
  <2>3. where[t] = "done" => Past(t) = 1 .. MaxTurns[t]
    BY <1>1, Parameters DEF AgentInv, Turned, Past
  <2> QED BY <2>1, <2>2, <2>3 DEF Settled
<1> QED BY <1>1, Invariance, PTL
=============================================================================
