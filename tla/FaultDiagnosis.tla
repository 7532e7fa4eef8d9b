--------------------------- MODULE FaultDiagnosis ---------------------------
(***************************************************************************)
(* The graph of build_fault_diagnosis_graph: an alert becomes a profile,   *)
(* the profile two pieces of evidence, and those a report.  Qwen is asked  *)
(* three times (for the profile, the adjudication and the report), and     *)
(* what it says is used after repairs; whatever fails has a fallback.      *)
(*                                                                         *)
(*   stage          the last node of the graph that ran                    *)
(*   profile        the addresses and times to look at                     *)
(*   advised        history: Qwen put an address into the profile          *)
(*   top_sql, metrics, adjudication, diagnosis   the keys of the state     *)
(*                                                                         *)
(* An address is <<network, host>>.  A markdown text is the sequence of    *)
(* its parts:                                                              *)
(*   "brief", "advice"     the headings of sections one and five           *)
(*   "finding"             the line that opens the TopSQL findings         *)
(*   "all_sql", "some_sql" the TopSQL in full, and shortened               *)
(*   "now", "time"         the line with the time of the report, right or  *)
(*                         as Qwen made it up                              *)
(*   "appendix"            the heading of a section that is not wanted     *)
(*   "gaps", "gap_list"    the heading of the gaps, and their list         *)
(* The other words of a report, the system name, the plan and the list     *)
(* missing_fields are left out: no step depends on them.                   *)
(***************************************************************************)
EXTENDS Integers, Sequences, FiniteSets, SequencesExt

CONSTANTS
  Hosts,
  MetricNames, \* what _metric_specs asks for
  Alerts,      \* each a sequence of addresses with their labels
  Advice,      \* the profiles that Qwen may return
  MaxParts     \* parts of a report by Qwen (bound)

VARIABLES stage, profile, advised, top_sql, metrics, adjudication, diagnosis

faultVars == <<stage, profile, advised, top_sql, metrics, adjudication, diagnosis>>

NoIp == <<"none", 0>>

Ip == {"management", "business"} \X Hosts

Profiles ==
  [management_ip : Ip \cup {NoIp}, business_ip : Ip \cup {NoIp}, primary_ip : Ip \cup {NoIp},
   window : {"valid", "malformed"}, alert_time : {"none", "valid", "malformed"}]

ASSUME FaultAssumption ==
  /\ MaxParts \in Nat
  /\ Alerts \subseteq Seq([label : {"management", "business", "instance", "plain"}, ip : Ip])
  /\ Advice \subseteq Profiles

(* x or y, in Python *)
Or(x, y) == IF x = NoIp THEN y ELSE x

Parts == {"brief", "finding", "all_sql", "some_sql", "advice", "time", "appendix", "gaps"}

(* What Qwen may write: every text of a few parts.                         *)
Drafts == UNION {[1 .. n -> Parts] : n \in 1 .. MaxParts}

NoProfile == [management_ip |-> NoIp, business_ip |-> NoIp, primary_ip |-> NoIp,
              window |-> "valid", alert_time |-> "none"]

NoTopSql == [status |-> "none", host |-> NoIp]

NoMetrics == [status |-> "none", metrics |-> {}, missing_metrics |-> {}]

NoDiagnosis == [summary |-> <<>>, root_cause |-> "none", markdown |-> <<>>]

FaultInit ==
  /\ stage = "idle"
  /\ profile = NoProfile /\ advised = FALSE
  /\ top_sql = NoTopSql /\ metrics = NoMetrics
  /\ adjudication = "none" /\ diagnosis = NoDiagnosis

-----------------------------------------------------------------------------
(* What stands at some places of a text or an alert, in the same order.    *)
At(text, places) ==
  LET taken[n \in 0 .. Len(text)] ==
        IF n = 0 THEN <<>>
        ELSE IF n \in places THEN Append(taken[n - 1], text[n])
        ELSE taken[n - 1]
  IN  taken[Len(text)]

Labelled(alert, labels) == At(alert, {i \in DOMAIN alert : alert[i].label \in labels})

(* _extract_first_ip.  The pattern for IP also matches the end of the      *)
(* label of a business address.                                            *)
FirstIp(alert) ==
  LET tagged == Labelled(alert, {"management", "business"})
                  \o Labelled(alert, {"instance"}) \o alert
  IN  IF tagged = <<>> THEN NoIp ELSE tagged[1].ip

(* As if every host of the CMDB had the row that is asked for. *)
AnyRow(ip, known) == IF known /\ ip # NoIp THEN <<"business", Min(Hosts)>> ELSE NoIp

(* The business address of the CMDB row of a management address; known     *)
(* says whether that row is there, complete, and the database answers.     *)
BusinessIpOf(ip, known) ==
  IF known /\ ip[1] = "management" THEN <<"business", ip[2]>> ELSE NoIp

(* _fallback_profile: the times are those of the program.                  *)
FallbackProfile(alert, known, timed) ==
  LET ip == FirstIp(alert)
  IN  [management_ip |-> ip, business_ip |-> BusinessIpOf(ip, known), primary_ip |-> ip,
       window |-> "valid", alert_time |-> IF timed THEN "valid" ELSE "none"]

(* _merge_profile_cmdb_fields: what Qwen says goes first, field by field.  *)
Merged(own, fallback) ==
  LET management == Or(Or(own.management_ip, fallback.management_ip), own.primary_ip)
  IN  [own EXCEPT
        !.management_ip = management,
        !.business_ip = Or(@, fallback.business_ip),
        !.primary_ip = Or(@, management),
        !.alert_time = IF @ = "none" THEN fallback.alert_time ELSE @]

(* parse_input without Qwen, or when its answer is not a profile.          *)
ParseInput ==
  /\ stage = "idle"
  /\ \E alert \in Alerts, known, timed \in BOOLEAN :
       profile' = FallbackProfile(alert, known, timed)
  /\ stage' = "parse_input"
  /\ UNCHANGED <<advised, top_sql, metrics, adjudication, diagnosis>>

(* parse_input with a profile of Qwen.                                     *)
ParseInputWithQwen ==
  /\ stage = "idle"
  /\ \E alert \in Alerts, known, timed \in BOOLEAN, own \in Advice :
       /\ profile' = Merged(own, FallbackProfile(alert, known, timed))
       /\ advised' = (\E ip \in {own.management_ip, own.business_ip, own.primary_ip} :
                         ip # NoIp)
  /\ stage' = "parse_input"
  /\ UNCHANGED <<top_sql, metrics, adjudication, diagnosis>>

-----------------------------------------------------------------------------
(* The window that _top_sql_time_bounds makes of the profile can be read.  *)
TopSqlTimeValid ==
  (IF profile.alert_time = "none" THEN profile.window ELSE profile.alert_time) = "valid"

(* MysqlTopSqlAgent.analyze: rows of the host, or a failure with a reason  *)
(* (no address, no source, a query that fails or returns nothing).         *)
CollectTopSql(found) ==
  LET ip == Or(profile.management_ip, profile.primary_ip)
  IN  /\ stage = "parse_input"
      /\ found => ip # NoIp /\ TopSqlTimeValid
      /\ top_sql' = [status |-> IF found THEN "success" ELSE "failure", host |-> ip]
      /\ stage' = "collect_top_sql"
      /\ UNCHANGED <<profile, advised, metrics, adjudication, diagnosis>>

(* analyze of the metric agent without a business address or a source.     *)
MetricsImpossible(reason) ==
  /\ stage = "collect_top_sql"
  /\ reason = "mapping" <=> profile.business_ip = NoIp
  /\ metrics' = [status |-> "failure", metrics |-> {}, missing_metrics |-> {reason}]
  /\ stage' = "collect_metrics"
  /\ UNCHANGED <<profile, advised, top_sql, adjudication, diagnosis>>

(* EmptyMetricAgent, in a graph that was built without a metric agent: a   *)
(* failure that names no metric.                                           *)
MetricsNotConfigured ==
  /\ stage = "collect_top_sql"
  /\ metrics' = [status |-> "failure", metrics |-> {}, missing_metrics |-> {}]
  /\ stage' = "collect_metrics"
  /\ UNCHANGED <<profile, advised, top_sql, adjudication, diagnosis>>

(* The evidence of an analysis that asked for the metrics.                 *)
MetricEvidence(got) ==
  [status |-> IF got = {} THEN "failure" ELSE "success",
   metrics |-> got, missing_metrics |-> MetricNames \ got]

(* Otherwise the metrics are asked for, each by its own address, and MCP   *)
(* and HTTP give some of them (the module MetricAgent); a window that      *)
(* cannot be converted is an exception that nobody handles.                *)
CollectMetrics(got) ==
  /\ stage = "collect_top_sql"
  /\ profile.business_ip # NoIp
  /\ IF profile.window = "valid"
     THEN metrics' = MetricEvidence(got) /\ stage' = "collect_metrics"
     ELSE stage' = "failed" /\ UNCHANGED metrics
  /\ UNCHANGED <<profile, advised, top_sql, adjudication, diagnosis>>

(* The address in the query for a metric (_metric_specs).                  *)
AddressOf(metric) ==
  IF metric = "cpu_usage" THEN profile.business_ip
  ELSE Or(profile.management_ip, profile.primary_ip)

-----------------------------------------------------------------------------
(* _fallback_adjudication *)
FallbackAdjudication ==
  CASE top_sql.status = "success" /\ metrics.status = "success" -> "sql_causes_load"
    [] top_sql.status = "success" /\ metrics.status # "success" -> "only_top_sql"
    [] top_sql.status # "success" /\ metrics.status = "success" -> "only_metrics"
    [] OTHER -> "insufficient"

Adjudicate(own) ==
  /\ stage = "collect_metrics"
  /\ adjudication' = IF own THEN "qwen" ELSE FallbackAdjudication
  /\ stage' = "adjudicate"
  /\ UNCHANGED <<profile, advised, top_sql, metrics, diagnosis>>

(* _report_summary: which evidence is there, and whether all of it.        *)
Summary == <<top_sql.status, metrics.status,
             IF metrics.status = "success" THEN metrics.missing_metrics = {} ELSE FALSE>>

(* What _append_missing_evidence_section lists.                            *)
Gaps == metrics.missing_metrics \cup IF top_sql.status = "success" THEN {} ELSE {"top_sql"}

Headings == {"brief", "finding", "advice", "appendix", "gaps"}

(* The sections that are not wanted, each up to the next heading.          *)
Removed(text) ==
  {i \in DOMAIN text : \E from \in 1 .. i :
     /\ text[from] = "appendix"
     /\ \A j \in from + 1 .. i : text[j] \notin Headings}

(* _strip_removed_report_sections *)
Strip(text) == At(text, DOMAIN text \ Removed(text))

(* _ensure_report_generated_time: the one line, under the first heading.   *)
EnsureTime(text) ==
  LET rest == At(text, {i \in DOMAIN text : text[i] # "time"})
  IN  IF rest = <<>> \/ Head(rest) \notin Headings \ {"finding"} THEN <<"now">> \o rest
      ELSE <<Head(rest), "now">> \o Tail(rest)

AppendGaps(text) ==
  IF Gaps = {} \/ Contains(text, "gaps") THEN text ELSE text \o <<"gaps", "gap_list">>

(* The indexes of the TopSQL findings: from the first of their headings to *)
(* the next heading of section five, or to the end of the text.            *)
Findings(text) ==
  {i \in DOMAIN text : \E from \in 1 .. i - 1 :
     /\ text[from] = "finding" /\ \A j \in 1 .. from - 1 : text[j] # "finding"
     /\ \A j \in from + 1 .. i : text[j] # "advice"}

Before(text, part) == SelectInSeq(text, LAMBDA x : x = part)

(* _ensure_top_sql_finding_section: unless the TopSQL is there in full,    *)
(* its list takes the place of all of the findings.                        *)
EnsureFinding(text) ==
  IF \/ top_sql.status # "success"
     \/ ~ Contains(text, "finding")
     \/ \E i \in Findings(text) : text[i] = "all_sql"
  THEN text
  ELSE LET from == Before(text, "finding")
           rest == {i \in DOMAIN text : i > from /\ i \notin Findings(text)}
       IN  SubSeq(text, 1, from) \o <<"all_sql">>
             \o (IF rest = {} THEN <<>> ELSE SubSeq(text, Min(rest), Len(text)))

(* As if the findings were repaired first. *)
RepairedInOtherOrder(text) == AppendGaps(EnsureTime(Strip(EnsureFinding(text))))

Repaired(text) == EnsureFinding(AppendGaps(EnsureTime(Strip(text))))

FallbackMarkdown ==
  AppendGaps(<<"brief", "now", "finding",
               IF top_sql.status = "success" THEN "all_sql" ELSE "some_sql", "advice">>)

(* build_report with a text of Qwen, or without one.                       *)
BuildReport ==
  /\ stage = "adjudicate"
  /\ \E markdown \in {FallbackMarkdown} \cup {Repaired(text) : text \in Drafts} :
       diagnosis' = [summary |-> Summary, root_cause |-> adjudication, markdown |-> markdown]
  /\ stage' = "done"
  /\ UNCHANGED <<profile, advised, top_sql, metrics, adjudication>>

FaultNext ==
  \/ ParseInput \/ ParseInputWithQwen
  \/ \E found \in BOOLEAN : CollectTopSql(found)
  \/ \E reason \in {"mapping", "source"} : MetricsImpossible(reason)
  \/ MetricsNotConfigured
  \/ \E got \in SUBSET MetricNames : CollectMetrics(got)
  \/ \E own \in BOOLEAN : Adjudicate(own)
  \/ BuildReport

FaultSpec == FaultInit /\ [][FaultNext]_faultVars

-----------------------------------------------------------------------------
(* The variables keep their types: wherever an address comes from, a host  *)
(* with a management address has a primary one, metrics succeed only with  *)
(* data, and the report has the verdict of the adjudication.               *)
FaultTypeOK ==
  /\ stage \in {"idle", "parse_input", "collect_top_sql", "collect_metrics", "adjudicate",
                "done", "failed"}
  /\ {profile.management_ip, profile.business_ip, profile.primary_ip, top_sql.host}
       \subseteq Ip \cup {NoIp}
  /\ profile.primary_ip = NoIp => profile.management_ip = NoIp
  /\ stage = "failed" => profile.window = "malformed"
  /\ metrics.metrics \subseteq MetricNames
  /\ (metrics.status = "success") = (metrics.metrics # {})
  /\ stage = "done" => diagnosis.root_cause = adjudication

(* The two pieces of evidence of a report are about one host, although one *)
(* is looked up by its management address and the other by the business    *)
(* address of the CMDB row, unless Qwen brought an address of its own into *)
(* the profile.  About _extract_first_ip, the CMDB and _merge_profile_     *)
(* cmdb_fields.                                                            *)
EvidenceIsOfOneHost ==
  ~ advised /\ metrics.metrics # {} =>
    /\ \A metric \in metrics.metrics : AddressOf(metric)[2] = top_sql.host[2]
    /\ profile.business_ip[1] = "business"

(* Whatever Qwen writes, the report that is sent names the time it was     *)
(* made once, has no unwanted section, and under the heading of the TopSQL *)
(* findings it has the statements in full: of these three no repair undoes *)
(* what an earlier one did.                                                *)
ReportKeepsItsShape ==
  stage = "done" =>
    LET text == diagnosis.markdown
    IN  /\ Cardinality({i \in DOMAIN text : text[i] \in {"now", "time"}}) = 1
        /\ Contains(text, "now") /\ ~ Contains(text, "appendix")
        /\ top_sql.status = "success" /\ Contains(text, "finding") =>
             \E i \in Findings(text) : text[i] = "all_sql"

(* README: the report lists what could not be collected.                   *)
ReportListsGaps ==
  stage = "done" /\ Gaps # {} => Contains(diagnosis.markdown, "gap_list")
=============================================================================
