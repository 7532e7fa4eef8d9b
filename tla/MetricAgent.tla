---------------------------- MODULE MetricAgent -----------------------------
(***************************************************************************)
(* PrometheusMetricAgent.analyze in several diagnoses at a time, each on a *)
(* thread of its own.  They share one PrometheusMcpClient: one session,    *)
(* one SSE stream that carries the answers to the requests of all, and no  *)
(* lock.  A metric that MCP does not give is asked for over HTTP.          *)
(*                                                                         *)
(*   where     of each thread: the JSON-RPC method it is about to post or  *)
(*             waits for, or another point of range_query                  *)
(*   turn      of each thread: the metric it is at, an index of Metrics    *)
(*   reading   of each thread: the stream it reads from, 0 if none         *)
(*   series    of each thread: its metrics, with the request each answers  *)
(*   missing   of each thread: the metrics noted as missing                *)
(*   mcp       the fields of the client: session stands for _session_id    *)
(*             and _messages_url, which are set together                   *)
(*   streams   of each stream: whether it is unopened, open, or dead (read *)
(*             to the end, or timed out: Python reads no more from it)     *)
(*   inbox     of each stream: what the server wrote and nobody read yet   *)
(*   owed      the requests accepted and not answered, with their session  *)
(*   chatty    the server sends pings, so that no read ever times out      *)
(*                                                                         *)
(* A request is named by its thread, turn and method: the counter of the   *)
(* client gives every request a number of its own.                         *)
(***************************************************************************)
EXTENDS Integers, Sequences, FiniteSets, TLC

CONSTANTS
  Threads,
  Metrics,     \* what _metric_specs asks for, in order
  MaxTurns,    \* of each thread: the metrics it is followed for (bound)
  MaxStreams   \* streams that the server lets the client open (bound)

ASSUME AgentAssumption ==
  /\ Metrics \in Seq(STRING)
  /\ \A m, n \in DOMAIN Metrics : Metrics[m] = Metrics[n] => m = n
  /\ MaxTurns \in [Threads -> DOMAIN Metrics]
  /\ MaxStreams \in Nat

VARIABLES where, turn, reading, series, missing, mcp, streams, inbox, owed, chatty

threadVars == <<where, turn, reading, series, missing>>
serverVars == <<streams, inbox, owed, chatty>>
agentVars == <<threadVars, mcp, serverVars>>

Streams == 1 .. MaxStreams

Calls == {"initialize", "tools/list", "tools/call"}

McpRequest == Threads \X (DOMAIN Metrics) \X (Calls \cup {"http"})

(* As if every client thread counted for itself. *)
CountedPerThread(t) == <<CHOOSE u \in Threads : TRUE, turn[t], where[t]>>

RequestOf(t) == <<t, turn[t], where[t]>>

AgentInit ==
  /\ where = [t \in Threads |-> "idle"]
  /\ turn = [t \in Threads |-> 1]
  /\ reading = [t \in Threads |-> 0]
  /\ series = [t \in Threads |-> {}]
  /\ missing = [t \in Threads |-> {}]
  /\ mcp = [session |-> 0, sse |-> 0, tool |-> FALSE]
  /\ streams = [s \in Streams |-> "unopened"]
  /\ inbox = [s \in Streams |-> <<>>]
  /\ owed = {}
  /\ chatty = TRUE

GoTo(t, place) ==
  /\ where' = [where EXCEPT ![t] = place]
  /\ reading' = [reading EXCEPT ![t] = 0]
  /\ UNCHANGED <<turn, series, missing>>

(* Any exception of range_query, and an answer without data, lead to the   *)
(* HTTP client.                                                            *)
Raise(t) == GoTo(t, "http")

(* The metric is done; the next one, or the end of analyze.                *)
NextMetric(t) ==
  /\ IF turn[t] < MaxTurns[t]
     THEN turn' = [turn EXCEPT ![t] = @ + 1] /\ where' = [where EXCEPT ![t] = "check"]
     ELSE where' = [where EXCEPT ![t] = "done"] /\ UNCHANGED turn
  /\ reading' = [reading EXCEPT ![t] = 0]

Collect(t, request) ==
  /\ series' = [series EXCEPT ![t] = @ \cup {[metric |-> Metrics[turn[t]], of |-> request]}]
  /\ NextMetric(t)
  /\ UNCHANGED missing

-----------------------------------------------------------------------------
Analyze(t) ==
  /\ where[t] = "idle"
  /\ GoTo(t, "check")
  /\ UNCHANGED <<mcp, serverVars>>

(* The name of the tool is asked for once.                                 *)
AfterSession == IF mcp.tool THEN "tools/call" ELSE "tools/list"

(* _ensure_session *)
EnsureSession(t) ==
  /\ where[t] = "check"
  /\ GoTo(t, IF mcp.session # 0 THEN AfterSession ELSE "open")
  /\ UNCHANGED <<mcp, serverVars>>

(* _discover_messages_url, first half: the new stream becomes the stream   *)
(* of the client at once.                                                  *)
OpenStream(t) ==
  /\ where[t] = "open"
  /\ \E s \in Streams :
       /\ streams[s] = "unopened"
       /\ \A r \in Streams : r < s => streams[r] # "unopened"
       /\ streams' = [streams EXCEPT ![s] = "open"]
       /\ mcp' = [mcp EXCEPT !.sse = s]
       /\ reading' = [reading EXCEPT ![t] = s]
  /\ where' = [where EXCEPT ![t] = "endpoint"]
  /\ UNCHANGED <<turn, series, missing, inbox, owed, chatty>>

OpenFails(t) ==
  /\ where[t] = "open"
  /\ Raise(t)
  /\ UNCHANGED <<mcp, serverVars>>

(* Second half: the endpoint event names the session.                      *)
ReadEndpoint(t) ==
  /\ where[t] = "endpoint"
  /\ mcp' = [mcp EXCEPT !.session = reading[t]]
  /\ GoTo(t, "initialize")
  /\ UNCHANGED serverVars

EndpointFails(t) ==
  /\ where[t] = "endpoint"
  /\ streams' = [streams EXCEPT ![reading[t]] = "dead"]
  /\ Raise(t)
  /\ UNCHANGED <<mcp, inbox, owed, chatty>>

Posting(t) == where[t] \in Calls /\ reading[t] = 0

(* The answer to a request is there and has a result.                      *)
Answered(t, request) ==
  \/ /\ where[t] = "initialize"
     /\ GoTo(t, "initialized")
     /\ UNCHANGED mcp
  \/ /\ where[t] = "tools/list"
     /\ mcp' = [mcp EXCEPT !.tool = TRUE]
     /\ GoTo(t, "tools/call")
  \/ /\ where[t] = "tools/call"
     /\ Collect(t, request)
     /\ UNCHANGED mcp

(* It may also be an error, no answer to what was asked, or without data.  *)
TakeAnswer(t, request) == Answered(t, request) \/ (Raise(t) /\ UNCHANGED mcp)

(* _post_json: an answer in the body of the response (or a failure) ...    *)
PostAnswered(t) ==
  /\ Posting(t)
  /\ TakeAnswer(t, RequestOf(t))
  /\ UNCHANGED serverVars

(* ... or the word Accepted: the answer will come on the stream of the     *)
(* session, and is awaited on the stream the client holds now.             *)
PostAccepted(t) ==
  /\ Posting(t)
  /\ mcp.sse # 0
  /\ owed' = owed \cup {<<mcp.session, RequestOf(t)>>}
  /\ reading' = [reading EXCEPT ![t] = mcp.sse]
  /\ UNCHANGED <<where, turn, series, missing, mcp, streams, inbox, chatty>>

(* The notification that follows initialize has no answer.                 *)
Notify(t) ==
  /\ where[t] = "initialized"
  /\ GoTo(t, AfterSession) \/ Raise(t)
  /\ UNCHANGED <<mcp, serverVars>>

-----------------------------------------------------------------------------
Waiting(t) == where[t] \in Calls /\ reading[t] # 0

(* _read_jsonrpc_response_from_sse: a message that is not the own answer   *)
(* is thrown away, whoever waits for it, and the next one is read from the *)
(* stream that the client holds by then.                                   *)
ReadMessage(t) ==
  LET s == reading[t]
  IN  /\ Waiting(t) /\ inbox[s] # <<>>
      /\ inbox' = [inbox EXCEPT ![s] = Tail(@)]
      /\ IF Head(inbox[s]) = RequestOf(t)
         THEN TakeAnswer(t, Head(inbox[s]))
         ELSE /\ reading' = [reading EXCEPT ![t] = mcp.sse]
              /\ UNCHANGED <<where, turn, series, missing, mcp>>
      /\ UNCHANGED <<streams, owed, chatty>>

(* A message is read line by line.  When two threads read the same stream  *)
(* each may get some of its lines: nobody has the message, and what one    *)
(* of them has may not even be JSON.                                       *)
ReadTorn(t) ==
  LET s == reading[t]
  IN  /\ Waiting(t) /\ inbox[s] # <<>>
      /\ \E u \in Threads \ {t} : Waiting(u) /\ reading[u] = s
      /\ inbox' = [inbox EXCEPT ![s] = Tail(@)]
      /\ UNCHANGED threadVars \/ Raise(t)
      /\ UNCHANGED <<mcp, streams, owed, chatty>>

(* The stream ends, or has timed out before.                               *)
ReadEnd(t) ==
  /\ Waiting(t)
  /\ streams[reading[t]] = "dead" /\ inbox[reading[t]] = <<>>
  /\ Raise(t)
  /\ UNCHANGED <<mcp, serverVars>>

(* As if the stream had been opened without a timeout, so that only its    *)
(* end is noticed.                                                         *)
NoTimeout(t) ==
  /\ Waiting(t)
  /\ streams[reading[t]] = "unopened"
  /\ Raise(t)
  /\ UNCHANGED <<mcp, serverVars>>

(* Nothing, not even a ping, arrives for the read timeout.                 *)
ReadTimeout(t) ==
  /\ Waiting(t)
  /\ streams[reading[t]] = "open" /\ inbox[reading[t]] = <<>> /\ ~ chatty
  /\ streams' = [streams EXCEPT ![reading[t]] = "dead"]
  /\ Raise(t)
  /\ UNCHANGED <<mcp, inbox, owed, chatty>>

(* The second client in order; without data from it the metric is missing. *)
HttpQuery(t) ==
  /\ where[t] = "http"
  /\ \/ Collect(t, RequestOf(t))
     \/ /\ missing' = [missing EXCEPT ![t] = @ \cup {Metrics[turn[t]]}]
        /\ NextMetric(t)
        /\ UNCHANGED series
  /\ UNCHANGED <<mcp, serverVars>>

-----------------------------------------------------------------------------
(* The MCP server writes an answer, ends a stream, or stops pinging.       *)
ServerAnswers ==
  \E s \in Streams, request \in McpRequest :
     /\ <<s, request>> \in owed
     /\ streams[s] = "open"
     /\ inbox' = [inbox EXCEPT ![s] = Append(@, request)]
     /\ owed' = owed \ {<<s, request>>}
     /\ UNCHANGED <<threadVars, mcp, streams, chatty>>

ServerCloses ==
  \E s \in Streams :
     /\ streams[s] = "open"
     /\ streams' = [streams EXCEPT ![s] = "dead"]
     /\ UNCHANGED <<threadVars, mcp, inbox, owed, chatty>>

ServerFallsSilent ==
  /\ chatty
  /\ \E t \in Threads : where[t] # "idle"
  /\ chatty' = FALSE
  /\ UNCHANGED <<threadVars, mcp, streams, inbox, owed>>

ThreadStep(t) ==
  \/ EnsureSession(t)
  \/ OpenStream(t) \/ OpenFails(t) \/ ReadEndpoint(t) \/ EndpointFails(t)
  \/ PostAnswered(t) \/ PostAccepted(t) \/ Notify(t)
  \/ ReadMessage(t) \/ ReadTorn(t) \/ ReadEnd(t) \/ ReadTimeout(t)
  \/ HttpQuery(t)

AgentNext ==
  \/ \E t \in Threads : Analyze(t) \/ ThreadStep(t)
  \/ ServerAnswers \/ ServerCloses \/ ServerFallsSilent

(* A thread that can go on does; the server owes nothing.                  *)
AgentFairness == \A t \in Threads : WF_agentVars(ThreadStep(t))

AgentSpec == AgentInit /\ [][AgentNext]_agentVars /\ AgentFairness

-----------------------------------------------------------------------------
(* The variables keep their types: a client with a session has a stream,   *)
(* however its threads open them, and a stream that nobody opened is empty.*)
AgentTypeOK ==
  /\ where \in [Threads -> Calls \cup {"idle", "check", "open", "endpoint",
                                        "initialized", "http", "done"}]
  /\ turn \in [Threads -> DOMAIN Metrics]
  /\ reading \in [Threads -> Streams \cup {0}]
  /\ mcp \in [session : Streams \cup {0}, sse : Streams \cup {0}, tool : BOOLEAN]
  /\ mcp.session # 0 => mcp.sse # 0
  /\ series \in [Threads -> SUBSET [metric : STRING, of : McpRequest]]
  /\ missing \in [Threads -> SUBSET STRING]
  /\ streams \in [Streams -> {"unopened", "open", "dead"}]
  /\ inbox \in [Streams -> Seq(McpRequest)]
  /\ owed \subseteq Streams \X McpRequest
  /\ chatty \in BOOLEAN
  /\ \A s \in Streams : inbox[s] # <<>> => streams[s] # "unopened"

(* What a diagnosis shows as its own metric answers its own query for that *)
(* metric, although answers to other threads, and late answers to requests *)
(* given up, arrive on the same stream; no metric is shown twice, and at   *)
(* the end every metric is either shown or reported as missing.  About the *)
(* ids of _jsonrpc_call, the reading loop and the two clients of           *)
(* _query_metric_spec.                                                     *)
MetricsAreOwn ==
  \A t \in Threads :
    /\ \A found \in series[t] :
         found.of[1] = t /\ found.metric = Metrics[found.of[2]]
    /\ \A found, other \in series[t] : found.metric = other.metric => found = other
    /\ where[t] = "done" =>
         missing[t] = {Metrics[n] : n \in 1 .. MaxTurns[t]}
                        \ {found.metric : found \in series[t]}

(* Once the server no longer pings, every analysis comes to an end,        *)
(* whatever happened to the answers it waits for.  (With pings the read    *)
(* timeout never fires, and a thread whose answer another one threw away   *)
(* waits for ever.)                                                        *)
EveryAnalysisEnds ==
  \A t \in Threads : where[t] # "idle" /\ ~ chatty ~> where[t] = "done"
=============================================================================
