---------------------------- MODULE SqlWorkflow -----------------------------
(***************************************************************************)
(* One SELECT on its way through the graph of build_sql_optimization_graph *)
(* and through RoutedMysqlEvidenceCollector, OptimizationReportComposer    *)
(* and the case retriever; a question about the schema is answered by the  *)
(* user and the statement runs once more.                                  *)
(*                                                                         *)
(*   step        where the graph stands                                    *)
(*   metadata    the routing rows, joined with their instances             *)
(*   stated      the tables as the statement names them                    *)
(*   schema_name the schema given with the statement, or in the answer     *)
(*   tables      the targets that collect_evidence looks up, and then the  *)
(*               tables that the router found for them                     *)
(*   evidence    the EvidenceEnvelope under construction                   *)
(*   read        history: what the source database really returned         *)
(*   query, cases, debug   the retrieval of composer.compose               *)
(*   hits        the vector hits of the last retrieval                     *)
(*   report      what the task answers with                                *)
(*                                                                         *)
(* A plan of the source database is "scan" (a full scan of a large table,  *)
(* the finding full_table_scan) or "indexed".  The texts of a report are   *)
(* left out; its status, gaps, confidence and cases are kept.              *)
(***************************************************************************)
EXTENDS MetadataRouter, CaseRetrieval

CONSTANTS
  Schemas, Tables,
  Instance,        \* of each instance: its version, default schema, enabled
  Library,         \* the cases, best quality first
  MaxRoutes,       \* rows of table_routes (bound)
  NewCase,         \* the id of a case added to the table after start-up
  Findable         \* the ids that a vector search may return (bound)

ASSUME WorkflowAssumption ==
  /\ Schemas \subseteq Nat /\ IsFiniteSet(Schemas) /\ IsFiniteSet(Tables)
  /\ DOMAIN Instance \subseteq Nat \ {0} /\ IsFiniteSet(DOMAIN Instance)

ASSUME LibraryAssumption ==
  /\ Library \in Seq(ToSet(Library))
  /\ \A i, j \in DOMAIN Library : Library[i].id = Library[j].id => i = j
  /\ \A i \in DOMAIN Library : Library[i].quality \in Nat

VARIABLES step, metadata, stated, schema_name, tables, evidence, read,
          query, cases, debug, hits, report

input == <<metadata, stated, schema_name>>
collected == <<tables, evidence, read>>
retrieval == <<query, cases, debug, hits>>
sqlVars == <<step, metadata, stated, schema_name, tables, evidence, read,
             query, cases, debug, hits, report>>

Target == [schema : Schemas \cup {NoSchema}, table : Tables]

Row(route, enabled) ==
  [schema |-> route.schema, table |-> route.table, instance |-> route.instance,
   default |-> Instance[route.instance].default, enabled |-> route.instance \in enabled]

(* Any few routes, with any of the instances enabled.                      *)
Metadata ==
  LET routes == [schema : Schemas, table : Tables, instance : DOMAIN Instance]
      few    == UNION {kSubset(n, routes) : n \in 0 .. MaxRoutes}
  IN  UNION {{{Row(route, enabled) : route \in some} : some \in few} :
                enabled \in SUBSET DOMAIN Instance}

(* Statements over no table, one, or a join of two.                        *)
Statements == UNION {kSubset(n, Target) : n \in 0 .. 2}

NoEvidence == [status |-> "none", problem |-> "none", route |-> NoRoute,
               plan |-> "none", ddl |-> {}, missing |-> {}]

NoQuery == [version |-> NoVersion, scenario |-> {}, roots |-> {}]

NoReport == [from |-> "none", status |-> "none", missing |-> {},
             confidence |-> "none", cases |-> <<>>]

NothingRead == [plan |-> "none", database |-> NoSchema, ddl |-> {}]

SqlInit ==
  /\ step = "idle"
  /\ metadata = {} /\ stated = {} /\ schema_name = NoSchema
  /\ tables = {} /\ evidence = NoEvidence /\ read = NothingRead
  /\ query = NoQuery /\ cases = <<>> /\ debug = <<>> /\ hits = {}
  /\ report = NoReport

-----------------------------------------------------------------------------
(* A statement arrives, perhaps with a schema in front.                    *)
Submit ==
  /\ step = "idle"
  /\ metadata' \in Metadata
  /\ stated' \in Statements
  /\ schema_name' \in Schemas \cup {NoSchema}
  /\ step' = "parse"
  /\ UNCHANGED <<collected, retrieval, report>>

Fail ==
  /\ step' = "failed"
  /\ UNCHANGED <<input, collected, retrieval, report>>

(* validate_select_only or sqlglot raises.                                 *)
ParseFails == step = "parse" /\ Fail

(* What the user asks about (qualify_unqualified_tables): the tables of    *)
(* the statement, those without a schema in the schema given with it.      *)
Asked == Resolved(stated, schema_name)

(* As if the schema of the answer were not used.                           *)
ResolveUnqualified ==
  /\ step = "parse"
  /\ tables' = stated
  /\ step' = "route"
  /\ UNCHANGED <<input, evidence, read, retrieval, report>>

(* parse_sql, and the first half of collect_evidence: a schema that came   *)
(* with the statement is put in front of every table that has none.        *)
ResolveTables ==
  /\ step = "parse"
  /\ tables' = Asked
  /\ step' = "route"
  /\ UNCHANGED <<input, evidence, read, retrieval, report>>

(* find_routes is one SELECT, outside of any try.                          *)
MetadataDown == step = "route" /\ Fail

(* As if the envelope had no status.                                       *)
Unsettled(problem) ==
  [NoEvidence EXCEPT !.problem = problem,
                     !.missing = {"route_info", "explain_json", "create_table"}]

(* Without a route the envelope of the router is the evidence.             *)
Unlocated(problem) ==
  [NoEvidence EXCEPT !.status = "sql_only", !.problem = problem,
                     !.missing = {"route_info", "explain_json", "create_table"}]

(* resolve_with_tables; from here on tables are the resolved ones.         *)
Route ==
  /\ step = "route"
  /\ LET found == ResolveWithTables(metadata, tables)
     IN  IF found.route = NoRoute
         THEN /\ evidence' = Unlocated(found.problem)
              /\ step' = "collected"
              /\ UNCHANGED tables
         ELSE /\ evidence' = [NoEvidence EXCEPT !.route = found.route]
              /\ tables' = found.resolved
              /\ step' = "explain"
  /\ UNCHANGED <<input, read, retrieval, report>>

(* collect_explain_json on a connection of its own; any failure is noted   *)
(* and the collection goes on.                                             *)
Explain(plan) ==
  /\ step = "explain"
  /\ evidence' = [evidence EXCEPT !.plan = plan,
                    !.missing = @ \cup IF plan = "none" THEN {"explain_json"} ELSE {}]
  /\ read' = [read EXCEPT !.plan = plan, !.database = evidence.route.database]
  /\ step' = "ddl"
  /\ UNCHANGED <<input, tables, retrieval, report>>

(* The status of the envelope.                                             *)
StatusOf(plan, ddl) ==
  IF plan # "none" /\ ddl # {} THEN "full"
  ELSE IF plan = "none" /\ ddl = {} THEN "sql_only" ELSE "partial"

(* As if the tables that were read before the failure counted.             *)
ShowSomeTables(shown) ==
  /\ step = "ddl"
  /\ evidence' = [evidence EXCEPT !.ddl = shown, !.status = StatusOf(evidence.plan, shown),
                    !.missing = @ \cup IF shown = tables THEN {} ELSE {"create_table"}]
  /\ read' = [read EXCEPT !.ddl = shown]
  /\ step' = "collected"
  /\ UNCHANGED <<input, tables, retrieval, report>>

(* collect_create_tables: one SHOW CREATE TABLE after the other, of which  *)
(* the first ones return.  The dictionary comes back as a whole: a failure *)
(* at the last table loses the others.                                     *)
ShowCreateTables(shown) ==
  /\ step = "ddl"
  /\ LET ddl == IF shown = tables THEN tables ELSE {}
     IN  evidence' = [evidence EXCEPT !.ddl = ddl, !.status = StatusOf(evidence.plan, ddl),
                        !.missing = @ \cup IF shown = tables THEN {} ELSE {"create_table"}]
  /\ read' = [read EXCEPT !.ddl = shown]
  /\ step' = "collected"
  /\ UNCHANGED <<input, tables, retrieval, report>>

(* route_after_evidence: a question, or a statement that cannot be routed, *)
(* ends the graph without a report.                                        *)
EndBlocked ==
  /\ step = "collected"
  /\ IsBlocker(evidence.problem)
  /\ step' = "blocked"
  /\ UNCHANGED <<input, collected, retrieval, report>>

(* The user names a schema; the statement runs again with it.              *)
AnswerSchema ==
  /\ step = "blocked"
  /\ schema_name = NoSchema
  /\ schema_name' \in Schemas
  /\ step' = "parse"
  /\ evidence' = NoEvidence
  /\ UNCHANGED <<metadata, stated, tables, read, retrieval, report>>

-----------------------------------------------------------------------------
(* build_case_retrieval_query: the version comes with the route, the roots *)
(* from the findings and from Qwen's profile of the problem, if it made    *)
(* one.                                                                    *)
CaseQuery(roots) ==
  [version  |-> IF evidence.route = NoRoute THEN NoVersion
                ELSE Instance[evidence.route.instance].version,
   scenario |-> {"where_filter"} \cup IF Cardinality(stated) > 1 THEN {"join"} ELSE {},
   roots    |-> roots \cup IF evidence.plan = "scan" THEN {"missing_index"} ELSE {}]

(* diagnose and the first part of compose: without a gateway there is no   *)
(* profile from Qwen; with one it may fail, and the derived profile serves *)
(* alone.  The routing rows are not looked at again.                       *)
Diagnose(gateway, roots) ==
  /\ step = "collected"
  /\ ~ IsBlocker(evidence.problem)
  /\ roots = {} \/ gateway
  /\ query' = CaseQuery(roots)
  /\ debug' = <<>>
  /\ metadata' = {}
  /\ step' = IF gateway THEN "retrieve" ELSE "fallback"
  /\ UNCHANGED <<stated, schema_name, collected, cases, hits, report>>

(* _select_cases_for_query and _record_case_retrieval_debug.  Whatever     *)
(* fails on the way to the vector hits leaves none.                        *)
SelectCases(found) ==
  /\ hits' = found
  /\ cases' = Retrieve(Library, query, found, 3)
  /\ debug' = cases'

RetrieveForQwen(found) ==
  /\ step = "retrieve"
  /\ SelectCases(found)
  /\ step' = "generate"
  /\ UNCHANGED <<input, collected, query, report>>

(* Qwen's report is taken as it is, but for an empty list of cases.  Its   *)
(* status is Qwen's own.                                                   *)
QwenReport(own) ==
  /\ step = "generate"
  /\ report' = [NoReport EXCEPT !.from = "qwen",
                  !.cases = IF own = <<>> THEN cases ELSE own]
  /\ step' = "done"
  /\ UNCHANGED <<input, collected, retrieval>>

(* A call that fails, or text that is no report: _compose_fallback starts  *)
(* over with the derived profile.                                          *)
QwenReportFails ==
  /\ step = "generate"
  /\ query' = CaseQuery({})
  /\ step' = "fallback"
  /\ UNCHANGED <<input, collected, cases, debug, hits, report>>

Confidence(status) ==
  CASE status = "full" -> "high"
    [] status = "partial" -> "medium"
    [] status = "sql_only" -> "low"

ComposeFallback(found) ==
  /\ step = "fallback"
  /\ SelectCases(found)
  /\ report' = [from |-> "fallback", status |-> evidence.status,
                missing |-> evidence.missing,
                confidence |-> Confidence(evidence.status), cases |-> cases']
  /\ step' = "done"
  /\ UNCHANGED <<input, collected, query>>

SqlNext ==
  \/ Submit \/ ParseFails \/ ResolveTables \/ MetadataDown \/ Route
  \/ \E plan \in {"none", "scan", "indexed"} : Explain(plan)
  \/ \E shown \in SUBSET tables : ShowCreateTables(shown)
  \/ EndBlocked \/ AnswerSchema
  \/ \E gateway \in BOOLEAN, roots \in SUBSET {"stats_stale"} : Diagnose(gateway, roots)
  \/ \E found \in SUBSET Findable : RetrieveForQwen(found) \/ ComposeFallback(found)
  \/ \E own \in {<<>>, <<NewCase>>} : QwenReport(own)
  \/ QwenReportFails

SqlSpec == SqlInit /\ [][SqlNext]_sqlVars

-----------------------------------------------------------------------------
(* The variables keep their types: the envelope is complete at every step, *)
(* an evidence status is one of the three once the collection ends.        *)
SqlTypeOK ==
  /\ step \in {"idle", "parse", "route", "explain", "ddl", "collected", "blocked",
               "retrieve", "generate", "fallback", "done", "failed"}
  /\ stated \in Statements
  /\ schema_name \in Schemas \cup {NoSchema}
  /\ tables \subseteq Target
  /\ evidence.status \in
       IF step \in {"collected", "blocked", "retrieve", "generate", "fallback", "done"}
       THEN {"full", "partial", "sql_only"} ELSE {"none", "sql_only"}
  /\ evidence.missing \subseteq {"route_info", "explain_json", "create_table"}
  /\ evidence.route # NoRoute => evidence.problem = "none"
  /\ ToSet(cases) \cup ToSet(debug) \subseteq ToSet(Library)
  /\ hits \subseteq Findable

(* The routing decision is made, and its rows are still there.             *)
Located == step \in {"explain", "ddl", "collected", "blocked"}

EnabledHomes(target) == Homes({row \in metadata : row.enabled}, target)

(* One enabled instance holds every table asked about; those without a     *)
(* schema are found nowhere else and are together in one schema.           *)
Placeable ==
  /\ Asked # {}
  /\ \E i \in DOMAIN Instance, s \in Schemas : \A target \in Asked :
       IF target.schema = NoSchema THEN EnabledHomes(target) = {<<i, s>>}
       ELSE <<i, target.schema>> \in EnabledHomes(target)

(* Evidence is collected exactly for the statements whose tables have one  *)
(* place; the user is asked, or the statement given up, only for the rest. *)
(* About the order of the five checks of resolve_with_tables and the plan  *)
(* per instance.                                                           *)
RoutedIffPlaceable ==
  Located =>
     (evidence.route # NoRoute <=> Placeable)

(* What is read belongs to the statement: every table whose definition is  *)
(* fetched is one that was asked about, on an enabled instance that holds  *)
(* it; and where the statement names no schema, EXPLAIN sees the table of  *)
(* the schema whose definition was fetched.                                *)
EvidenceIsOfStatement ==
  Located /\ evidence.route # NoRoute =>
    /\ \A target \in Asked : \E found \in tables :
         /\ found.table = target.table
         /\ target.schema \in {NoSchema, found.schema}
         /\ <<evidence.route.instance, found.schema>> \in EnabledHomes(target)
         /\ target.schema = NoSchema => found.schema = evidence.route.database
    /\ Cardinality(tables) <= Cardinality(Asked)

(* After the answer to a question about the schema the same question is    *)
(* not asked again: what may still block the statement are tables on       *)
(* different instances (for which the chat has no other words than the     *)
(* question about the schema, and no answer helps).  About                 *)
(* collect_evidence, the markers of route_errors and the second run.       *)
AnswerSettlesSchema ==
  step = "blocked" /\ schema_name # NoSchema => evidence.problem = "instances"

(* A report that the program writes itself claims no more than was read,   *)
(* and says what was not: full needs the plan and every table.             *)
StatusIsTruthful ==
  report.from = "fallback" =>
    LET complete == evidence.route # NoRoute /\ read.ddl = tables
    IN  /\ report.status = "full" <=> read.plan # "none" /\ complete
        /\ report.status = "sql_only" <=> read.plan = "none" /\ ~ complete
        /\ "explain_json" \in report.missing <=> read.plan = "none"
        /\ "create_table" \in report.missing <=> ~ complete
        /\ report.confidence = "high" <=> report.status = "full"

(* Whatever the vector search returned, the cases shown fit the instance   *)
(* the statement was routed to and its shape, no case twice, not more than *)
(* three and not more than two of one root cause; and the cases recorded   *)
(* for the debug event are those of the report, also when Qwen failed      *)
(* after a first retrieval.                                                *)
CasesAreRelevant ==
  /\ report.from = "fallback" => debug = report.cases
  /\ Len(cases) <= 3
  /\ \A i \in DOMAIN cases :
       /\ PassesHardFilters(query, cases[i])
       /\ \A j \in DOMAIN cases : i # j => cases[i] # cases[j]
       /\ cases[i].roots # {} => Cardinality(SameRoot(cases, cases[i])) <= 2

(* When the embedding or the search fails, the cases are those of a        *)
(* deployment without vectors: cutting the longer list of candidates gives *)
(* what a retrieval of that length would have given.                       *)
WithoutHitsRulesDecide ==
  step \in {"generate", "done"} /\ hits = {} =>
     cases = RetrieveCases(Library, query, {}, 3)
=============================================================================
