--------------------------- MODULE MetadataRouter ---------------------------
(***************************************************************************)
(* MetadataRouter.resolve_with_tables: from the tables of a statement to   *)
(* one instance, or to the reason why there is none.                       *)
(*                                                                         *)
(* A target is [schema, table], with schema = NoSchema when the statement  *)
(* does not say.  A row of the JOIN of table_routes and db_instances is    *)
(* [schema, table, instance, default, enabled].  Schemas and instances are *)
(* numbers, because the code takes the first of them in alphabetical       *)
(* order.  A row is matched to a target without regard to case, but the    *)
(* schemas of two rows are compared as they are spelled: a number stands   *)
(* for a name, and the routing table spells every schema in one way.       *)
(***************************************************************************)
EXTENDS Integers, FiniteSets, FiniteSetsExt

CONSTANT NoSchema      \* None

ASSUME NoSchemaAssumption == NoSchema \notin Int

NoRoute == [instance |-> 0, database |-> NoSchema]

RowsForTarget(rows, target) ==
  {row \in rows : row.table = target.table
               /\ target.schema \in {NoSchema, row.schema}}

FindRoutes(metadata, tables) ==
  UNION {RowsForTarget(metadata, target) : target \in tables}

Unqualified(tables) == {target \in tables : target.schema = NoSchema}

UnqualifiedNames(tables) == {target.table : target \in Unqualified(tables)}

ShouldRequestSchema(tables) == Cardinality(UnqualifiedNames(tables)) > 1

Instances(rows) == {row.instance : row \in rows}

Homes(rows, target) ==
  {<<row.instance, row.schema>> : row \in RowsForTarget(rows, target)}

(* As if two schemas of one instance were no ambiguity.                    *)
OnSeveralInstances(tables, rows) ==
  {target \in Unqualified(tables) :
     Cardinality(Instances(RowsForTarget(rows, target))) > 1}

AmbiguousTables(tables, rows) ==
  {target \in Unqualified(tables) : Cardinality(Homes(rows, target)) > 1}

HasCommonInstance(tables, rows) ==
  \E i \in Instances(rows) : \A target \in tables :
     i \in Instances(RowsForTarget(rows, target))

(* The schemas of an instance that hold every unqualified table.           *)
CommonSchemas(i, tables, rows) ==
  {s \in {row.schema : row \in rows} :
     \A target \in Unqualified(tables) : <<i, s>> \in Homes(rows, target)}

(* As if the default schema served every statement.                        *)
DefaultFirst(i, default, tables, rows) ==
  IF Unqualified(tables) = {} THEN {NoSchema}
  ELSE IF default # NoSchema THEN {default} ELSE CommonSchemas(i, tables, rows)

(* The schema to connect to: nobody needs one when all tables name theirs; *)
(* else the default schema of the instance, if it serves, or the first.    *)
Connections(i, default, tables, rows) ==
  IF Unqualified(tables) = {} THEN {NoSchema}
  ELSE LET common == CommonSchemas(i, tables, rows)
       IN  IF default \in common THEN {default}
           ELSE IF common = {} THEN {} ELSE {Min(common)}

(* The plans for one instance: one, or none.                               *)
PlanForInstance(i, tables, rows) ==
  LET default == (CHOOSE row \in rows : row.instance = i).default
  IN  {[instance |-> i, connection |-> c, first |-> default,
        usesDefault |-> c # NoSchema /\ c = default] :
          c \in IF \A target \in tables : i \in Instances(RowsForTarget(rows, target))
                THEN Connections(i, default, tables, rows) ELSE {}}

Plans(tables, rows) ==
  UNION {PlanForInstance(i, tables, rows) : i \in Instances(rows)}

(* A plan that uses a default schema is preferred, then the instance that  *)
(* comes first.                                                            *)
SelectRoutePlan(plans) ==
  CHOOSE best \in plans : \A plan \in plans :
     \/ best.usesDefault /\ ~ plan.usesDefault
     \/ best.usesDefault = plan.usesDefault /\ best.instance <= plan.instance

(* The schema of each table once a connection is chosen.                   *)
Resolved(tables, connection) ==
  {IF target.schema = NoSchema THEN [target EXCEPT !.schema = connection]
   ELSE target : target \in tables}

Unrouted(problem) == [problem |-> problem, route |-> NoRoute, resolved |-> {}]

ResolveWithTables(metadata, tables) ==
  LET rows    == FindRoutes(metadata, tables)
      enabled == {row \in rows : row.enabled}
      plans   == Plans(tables, enabled)
      best    == SelectRoutePlan(plans)
      lacks(some) == \E target \in tables : RowsForTarget(some, target) = {}
  IN  IF rows = {} \/ lacks(rows)
        THEN Unrouted(IF ShouldRequestSchema(tables) THEN "schema" ELSE "missing")
      ELSE IF lacks(enabled) THEN Unrouted("disabled")
      ELSE IF AmbiguousTables(tables, enabled) # {} THEN Unrouted("ambiguous")
      ELSE IF plans = {}
        THEN Unrouted(IF HasCommonInstance(tables, enabled)
                      THEN "schema" ELSE "instances")
      ELSE [problem  |-> "none",
            route    |-> [instance |-> best.instance,
                          database |-> IF best.connection = NoSchema
                                       THEN best.first ELSE best.connection],
            resolved |-> Resolved(tables, best.connection)]

(* is_route_resolution_blocker                                             *)
IsBlocker(problem) == problem \in {"schema", "ambiguous", "instances"}
=============================================================================
