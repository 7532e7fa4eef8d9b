------------------------------ MODULE MCHttp --------------------------------
(***************************************************************************)
(* The threads of the API process, explored in one run: the requests and   *)
(* their streams (SseStream), and the metric queries of two diagnoses that *)
(* share the MCP client (MetricAgent).  A stream takes the diagnosis as a  *)
(* whole, so that the two share no variable and a behaviour is one of      *)
(* either.                                                                 *)
(***************************************************************************)
EXTENDS SseStream, MetricAgent

BothMetrics == <<"cpu_usage", "active_threads">>

(* Every diagnosis is followed for its first metric (for more of them see *)
(* MCMessage).                                                            *)
Turns == <<1, 1>>

MCInit == Init /\ AgentInit

StreamStep == AgentInit /\ Next /\ UNCHANGED agentVars

AgentStep == Init /\ AgentNext /\ UNCHANGED vars

MCSpec ==
  /\ MCInit
  /\ [][StreamStep \/ AgentStep]_<<vars, agentVars>>
  /\ Fairness /\ AgentFairness

=============================================================================
