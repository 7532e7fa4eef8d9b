----------------------------- MODULE MCMessage ------------------------------
(***************************************************************************)
(* What becomes of a message of the chat, explored in one run: a statement *)
(* on its way through the graph (SqlWorkflow), an alert on its way through *)
(* its own (FaultDiagnosis), the metric queries of two diagnoses at a time *)
(* (MetricAgent), and the sending of whatever comes out (CardStream).  The *)
(* four share no variable, so that a behaviour is one of either while the  *)
(* others stay where they begin.                                           *)
(***************************************************************************)
EXTENDS SqlWorkflow, FaultDiagnosis, MetricAgent, CardStream

InstanceTable == <<[version |-> "8.0", default |-> NoSchema],
                   [version |-> "5.7", default |-> 2]>>

Case(id, version, scenario, roots, quality) ==
  [id |-> id, version |-> version, scenario |-> scenario, roots |-> roots,
   quality |-> quality]

CaseLibrary ==
  <<Case("c1", "8.0", {"join"}, {"missing_index"}, 3),
    Case("c2", "8.0", {}, {"missing_index"}, 2),
    Case("c3", NoVersion, {"union"}, {"stats_stale"}, 2),
    Case("c4", "5.7", {"join"}, {"missing_index"}, 1),
    Case("c5", NoVersion, {}, {"missing_index"}, 1),
    Case("c6", NoVersion, {"join"}, {}, 0)>>

BothMetrics == <<"cpu_usage", "active_threads">>

(* The first diagnosis is followed for both metrics, the second for one. *)
Turns == <<2, 1>>

Entry(label, ip) == [label |-> label, ip |-> ip]

(* Alerts with up to two addresses, of the host or of another one. *)
AlertTexts ==
  LET one == {Entry("management", <<"management", 2>>), Entry("business", <<"business", 2>>),
              Entry("instance", <<"management", 2>>), Entry("plain", <<"management", 1>>)}
  IN  {<<>>} \cup {<<a>> : a \in one} \cup {<<a, b>> : a, b \in one}

Named(management, business, primary, window, alert_time) ==
  [management_ip |-> management, business_ip |-> business, primary_ip |-> primary,
   window |-> window, alert_time |-> alert_time]

(* Qwen names nothing, the host, another one, or only some fields. *)
QwenProfiles ==
  {Named(m, b, p, w, t) :
     m \in {NoIp, <<"management", 2>>}, b \in {NoIp, <<"business", 1>>},
     p \in {NoIp, <<"management", 1>>}, w \in {"valid", "malformed"},
     t \in {"none", "malformed"}}

(* The first delivery of a message reports progress, the second does not. *)
Deliveries == <<1, 0>>

MCInit == SqlInit /\ FaultInit /\ AgentInit /\ Init

SqlStep ==
  /\ FaultInit /\ AgentInit /\ Init
  /\ SqlNext /\ UNCHANGED <<faultVars, agentVars, vars>>

FaultStep ==
  /\ SqlInit /\ AgentInit /\ Init
  /\ FaultNext /\ UNCHANGED <<sqlVars, agentVars, vars>>

AgentStep ==
  /\ SqlInit /\ FaultInit /\ Init
  /\ AgentNext /\ UNCHANGED <<sqlVars, faultVars, vars>>

CardStep ==
  /\ SqlInit /\ FaultInit /\ AgentInit
  /\ Next /\ UNCHANGED <<sqlVars, faultVars, agentVars>>

MCSpec ==
  MCInit /\ [][SqlStep \/ FaultStep \/ AgentStep \/ CardStep]_
               <<sqlVars, faultVars, agentVars, vars>>

=============================================================================
