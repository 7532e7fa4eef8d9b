------------------------- MODULE SqlWorkflowProofs -------------------------
(***************************************************************************)
(* The routing of SqlWorkflow, for any catalog and any statement, and the  *)
(* truth of the report that the program writes itself.                     *)
(*                                                                         *)
(* First the router as a function: it finds a route if and only if the     *)
(* tables have one place, and then what it resolves them to is there.      *)
(* Then the graph: what the envelope says is what the router found for the *)
(* tables asked about and what was read since.                             *)
(***************************************************************************)
EXTENDS SqlWorkflow, FiniteSetTheorems, SequenceTheorems, TLAPS

(* Every nonempty set of natural numbers has a smallest one.               *)
LEMMA Smallest ==
  ASSUME NEW S, S \subseteq Nat, S # {}
  PROVE  /\ \E m \in S : \A n \in S : m <= n
         /\ Min(S) \in S
<1>1. IsWellFoundedOn({pair \in Nat \X Nat : pair[1] < pair[2]}, Nat)
  BY NatLessThanWellFounded DEF OpToRel
<1>2. \E x \in S : \A y \in S : ~ (<<y, x>> \in {pair \in Nat \X Nat : pair[1] < pair[2]})
  BY <1>1, WFMin
<1>3. PICK m \in S : \A y \in S : ~ (<<y, m>> \in {pair \in Nat \X Nat : pair[1] < pair[2]})
  BY <1>2
<1>4. \A n \in S : ~ (n < m)
  BY <1>3
<1>5. \A n \in S : m <= n
  BY <1>4
<1> QED
  BY <1>5 DEF Min

-----------------------------------------------------------------------------
(* Rows, and the homes of a table.                                         *)

(* What is known of the rows of a catalog.                                 *)
Catalog(rows) ==
  \A row \in rows : row.schema \in Schemas /\ row.instance \in DOMAIN Instance

Enabled(rows) == {row \in rows : row.enabled}

LEMMA MetadataIsCatalog ==
  ASSUME NEW rows \in Metadata
  PROVE  Catalog(rows)
<1> DEFINE routes == [schema : Schemas, table : Tables, instance : DOMAIN Instance]
<1>1. PICK enabled \in SUBSET DOMAIN Instance, some \in SUBSET routes :
        rows = {Row(route, enabled) : route \in some}
  BY DEF Metadata, kSubset
<1>2. ASSUME NEW row \in rows
      PROVE  row.schema \in Schemas /\ row.instance \in DOMAIN Instance
  <2> PICK route \in some : row = Row(route, enabled)
    BY <1>1
  <2> QED
    BY <1>1 DEF Row
<1> QED
  BY <1>2 DEF Catalog

(* The rows found for all tables are, for each of them, its own.           *)
LEMMA FoundForEach ==
  ASSUME NEW rows, NEW T, NEW t \in T
  PROVE  /\ RowsForTarget(FindRoutes(rows, T), t) = RowsForTarget(rows, t)
         /\ RowsForTarget(Enabled(FindRoutes(rows, T)), t) = RowsForTarget(Enabled(rows), t)
<1>1. ASSUME NEW row, row \in rows, row.table = t.table, t.schema \in {NoSchema, row.schema}
      PROVE  row \in FindRoutes(rows, T)
  BY <1>1 DEF FindRoutes, RowsForTarget
<1>2. FindRoutes(rows, T) \subseteq rows
  BY DEF FindRoutes, RowsForTarget
<1> QED
  BY <1>1, <1>2 DEF RowsForTarget, Enabled

LEMMA HomesOfTable ==
  ASSUME NEW rows, Catalog(rows), NEW t
  PROVE  /\ Homes(rows, t) \subseteq (DOMAIN Instance) \X Schemas
         /\ IsFiniteSet(Homes(rows, t))
         /\ \A i : i \in Instances(RowsForTarget(rows, t))
              <=> \E s \in Schemas : <<i, s>> \in Homes(rows, t)
         /\ \A i, s : <<i, s>> \in Homes(rows, t) =>
              /\ i \in Instances(rows) /\ s \in {row.schema : row \in rows}
              /\ t.schema \in {NoSchema, s}
<1>1. \A row \in RowsForTarget(rows, t) :
        /\ row \in rows /\ row.schema \in Schemas /\ row.instance \in DOMAIN Instance
        /\ t.schema \in {NoSchema, row.schema}
  BY DEF Catalog, RowsForTarget
<1>2. Homes(rows, t) \subseteq (DOMAIN Instance) \X Schemas
  BY <1>1 DEF Homes
<1>3. IsFiniteSet((DOMAIN Instance) \X Schemas)
  BY WorkflowAssumption, FS_Product
<1>4. IsFiniteSet(Homes(rows, t))
  BY <1>2, <1>3, FS_Subset
<1>5. \A i : i \in Instances(RowsForTarget(rows, t))
        <=> \E s \in Schemas : <<i, s>> \in Homes(rows, t)
  BY <1>1 DEF Homes, Instances
<1>6. \A i, s : <<i, s>> \in Homes(rows, t) =>
              /\ i \in Instances(rows) /\ s \in {row.schema : row \in rows}
              /\ t.schema \in {NoSchema, s}
  BY <1>1 DEF Homes, Instances
<1> QED
  BY <1>2, <1>4, <1>5, <1>6

(* A table that is not ambiguous has one home at most.                     *)
LEMMA OneHome ==
  ASSUME NEW H, IsFiniteSet(H), NEW h \in H
  PROVE  ~ (Cardinality(H) > 1) <=> H = {h}
<1>1. Cardinality(H) \in Nat /\ Cardinality(H) # 0
  BY FS_CardinalityType, FS_EmptySet
<1>2. ASSUME ~ (Cardinality(H) > 1) PROVE H = {h}
  <2>1. Cardinality(H) = 1
    BY <1>1, <1>2
  <2> QED
    BY <2>1, FS_Singleton
<1>3. ASSUME H = {h} PROVE ~ (Cardinality(H) > 1)
  BY <1>3, FS_Singleton
<1> QED
  BY <1>2, <1>3

-----------------------------------------------------------------------------
(* Plans. *)

(* Instance i holds all the tables, those that name no schema in schema c. *)
HoldsAll(rows, T, i, c) ==
  \A t \in T :
    IF t.schema = NoSchema THEN c \in Schemas /\ <<i, c>> \in Homes(rows, t)
    ELSE <<i, t.schema>> \in Homes(rows, t)

LEMMA CommonIsHome ==
  ASSUME NEW rows, Catalog(rows), NEW T, NEW i
  PROVE  /\ CommonSchemas(i, T, rows) \subseteq Schemas
         /\ CommonSchemas(i, T, rows) # {} =>
              Min(CommonSchemas(i, T, rows)) \in CommonSchemas(i, T, rows)
         /\ \A c \in CommonSchemas(i, T, rows), t \in T :
              t.schema = NoSchema => <<i, c>> \in Homes(rows, t)
<1>1. CommonSchemas(i, T, rows) \subseteq Schemas
  BY DEF CommonSchemas, Catalog
<1>2. CommonSchemas(i, T, rows) \subseteq Nat
  BY <1>1, WorkflowAssumption
<1>3. \A c \in CommonSchemas(i, T, rows), t \in T :
        t.schema = NoSchema => <<i, c>> \in Homes(rows, t)
  BY DEF CommonSchemas, Unqualified
<1> QED
  BY <1>1, <1>2, <1>3, Smallest

(* A plan is for an instance that holds all the tables.                    *)
LEMMA PlanServes ==
  ASSUME NEW rows, Catalog(rows), NEW T, NEW plan \in Plans(T, rows)
  PROVE  /\ plan.instance \in DOMAIN Instance
         /\ plan.usesDefault \in BOOLEAN
         /\ HoldsAll(rows, T, plan.instance, plan.connection)
<1> PICK i \in Instances(rows) : plan \in PlanForInstance(i, T, rows)
  BY DEF Plans
<1> DEFINE default == (CHOOSE row \in rows : row.instance = i).default
           holds == \A t \in T : i \in Instances(RowsForTarget(rows, t))
           schemas == IF holds THEN Connections(i, default, T, rows) ELSE {}
<1>0. PICK c \in schemas :
        plan = [instance |-> i, connection |-> c, first |-> default,
                usesDefault |-> c # NoSchema /\ c = default]
  BY DEF PlanForInstance
<1>1. /\ plan.instance = i /\ plan.usesDefault \in BOOLEAN
      /\ \A t \in T : i \in Instances(RowsForTarget(rows, t))
      /\ plan.connection \in Connections(i, default, T, rows)
  <2>1. holds
    OBVIOUS
  <2> HIDE DEF default
  <2> QED
    BY <1>0, <2>1
<1>2. i \in DOMAIN Instance
  BY DEF Instances, Catalog
<1> HIDE DEF default
<1>3. ASSUME NEW t \in T, t.schema # NoSchema PROVE <<i, t.schema>> \in Homes(rows, t)
  <2> PICK s \in Schemas : <<i, s>> \in Homes(rows, t)
    BY <1>1, HomesOfTable
  <2>1. s = t.schema
    BY <1>3, HomesOfTable
  <2> QED
    BY <2>1
<1>4. ASSUME NEW t \in T, t.schema = NoSchema
      PROVE  plan.connection \in Schemas /\ <<i, plan.connection>> \in Homes(rows, t)
  <2>1. Unqualified(T) # {}
    BY <1>4 DEF Unqualified
  <2>2. plan.connection \in CommonSchemas(i, T, rows)
    BY <1>1, <2>1, CommonIsHome DEF Connections
  <2> QED
    BY <1>4, <2>2, CommonIsHome
<1> QED
  BY <1>1, <1>2, <1>3, <1>4 DEF HoldsAll

(* An instance that holds all the tables has a plan.                       *)
LEMMA PlanExists ==
  ASSUME NEW rows, Catalog(rows), NEW T, T # {},
         NEW i \in DOMAIN Instance, NEW s \in Schemas, HoldsAll(rows, T, i, s)
  PROVE  Plans(T, rows) # {}
<1> DEFINE default == (CHOOSE row \in rows : row.instance = i).default
<1>1. ASSUME NEW t \in T PROVE \E c \in Schemas : <<i, c>> \in Homes(rows, t)
  <2>1. CASE t.schema = NoSchema
    BY <2>1 DEF HoldsAll
  <2>2. CASE t.schema # NoSchema
    <3>1. <<i, t.schema>> \in Homes(rows, t)
      BY <2>2 DEF HoldsAll
    <3> QED
      BY <3>1, HomesOfTable
  <2> QED
    BY <2>1, <2>2
<1>2. \A t \in T : i \in Instances(RowsForTarget(rows, t))
  BY <1>1, HomesOfTable
<1>3. i \in Instances(rows)
  <2> PICK t \in T : TRUE
    OBVIOUS
  <2> QED
    BY <1>1, HomesOfTable
<1> HIDE DEF default
<1>4. Connections(i, default, T, rows) # {}
  <2>1. CASE Unqualified(T) = {}
    BY <2>1 DEF Connections
  <2>2. CASE Unqualified(T) # {}
    <3> PICK t \in T : t.schema = NoSchema
      BY <2>2 DEF Unqualified
    <3>1. s \in {row.schema : row \in rows}
      BY HomesOfTable DEF HoldsAll
    <3>2. s \in CommonSchemas(i, T, rows)
      BY <3>1 DEF CommonSchemas, Unqualified, HoldsAll
    <3> QED
      BY <2>2, <3>2 DEF Connections
  <2> QED
    BY <2>1, <2>2
<1> PICK c \in Connections(i, default, T, rows) : TRUE
  BY <1>4
<1>5. [instance |-> i, connection |-> c, first |-> default,
       usesDefault |-> c # NoSchema /\ c = default] \in PlanForInstance(i, T, rows)
  BY <1>2 DEF PlanForInstance, default
<1> QED
  BY <1>3, <1>5 DEF Plans

(* The choice between plans is well defined: instances are numbered.       *)
LEMMA BestPlan ==
  ASSUME NEW rows, Catalog(rows), NEW T, Plans(T, rows) # {}
  PROVE  SelectRoutePlan(Plans(T, rows)) \in Plans(T, rows)
<1> DEFINE plans == Plans(T, rows)
           preferred == {plan \in plans : plan.usesDefault}
           some == IF preferred # {} THEN preferred ELSE plans
           numbers == {plan.instance : plan \in some}
<1>1. \A plan \in plans : plan.instance \in Nat /\ plan.usesDefault \in BOOLEAN
  BY PlanServes, WorkflowAssumption
<1>2. some \subseteq plans /\ some # {}
  OBVIOUS
<1>3. \A plan \in plans, best \in some :
        \/ best.usesDefault /\ ~ plan.usesDefault
        \/ best.usesDefault = plan.usesDefault /\ plan \in some
  BY <1>1
<1> HIDE DEF plans, some
<1>4. numbers \subseteq Nat /\ numbers # {}
  BY <1>1, <1>2
<1> PICK m \in numbers : \A n \in numbers : m <= n
  BY <1>4, Smallest
<1> PICK best \in some : best.instance = m
  OBVIOUS
<1>5. \A plan \in plans :
        \/ best.usesDefault /\ ~ plan.usesDefault
        \/ best.usesDefault = plan.usesDefault /\ best.instance <= plan.instance
  BY <1>3
<1> QED
  BY <1>2, <1>5 DEF SelectRoutePlan, plans

-----------------------------------------------------------------------------
(* The router. *)

(* Placeable of SqlWorkflow, for any rows and tables.                      *)
HasPlace(rows, T) ==
  /\ T # {}
  /\ \E i \in DOMAIN Instance, s \in Schemas : \A t \in T :
       IF t.schema = NoSchema THEN Homes(Enabled(rows), t) = {<<i, s>>}
       ELSE <<i, t.schema>> \in Homes(Enabled(rows), t)

(* The five checks are passed.                                             *)
Passes(rows, T) ==
  /\ rows # {} /\ \A t \in T : RowsForTarget(rows, t) # {}
  /\ \A t \in T : RowsForTarget(Enabled(rows), t) # {}
  /\ AmbiguousTables(T, Enabled(rows)) = {}
  /\ Plans(T, Enabled(rows)) # {}

LEMMA Checks ==
  ASSUME NEW M, Catalog(M), NEW T
  PROVE  LET rows  == FindRoutes(M, T)
             found == ResolveWithTables(M, T)
             best  == SelectRoutePlan(Plans(T, Enabled(rows)))
         IN  /\ Passes(rows, T) =>
                  /\ found.problem = "none" /\ found.route # NoRoute
                  /\ found.route.instance = best.instance
                  /\ found.route.database = IF best.connection = NoSchema
                                            THEN best.first ELSE best.connection
                  /\ found.resolved = Resolved(T, best.connection)
             /\ ~ Passes(rows, T) =>
                  /\ found.route = NoRoute
                  /\ found.problem \in {"schema", "missing", "disabled", "ambiguous",
                                        "instances"}
<1> DEFINE rows == FindRoutes(M, T)
           found == ResolveWithTables(M, T)
           best == SelectRoutePlan(Plans(T, Enabled(rows)))
<1>1. CASE Passes(rows, T)
  <2>1. found = [problem  |-> "none",
                 route    |-> [instance |-> best.instance,
                               database |-> IF best.connection = NoSchema
                                            THEN best.first ELSE best.connection],
                 resolved |-> Resolved(T, best.connection)]
    BY <1>1 DEF Passes, ResolveWithTables, Enabled
  <2>2. Catalog(Enabled(rows))
    BY DEF Catalog, Enabled, FindRoutes, RowsForTarget
  <2>3. best.instance \in DOMAIN Instance
    BY <1>1, <2>2, BestPlan, PlanServes DEF Passes
  <2>4. best.instance # 0
    BY <2>3, WorkflowAssumption
  <2> QED
    BY <1>1, <2>1, <2>4 DEF NoRoute
<1>2. CASE ~ Passes(rows, T)
  <2>1. found \in {Unrouted(problem) : problem \in {"schema", "missing", "disabled",
                                                    "ambiguous", "instances"}}
    BY <1>2 DEF Passes, ResolveWithTables, Enabled
  <2> QED
    BY <1>2, <2>1 DEF Unrouted
<1> QED
  BY <1>1, <1>2

(* Without a table left unqualified only one question remains.             *)
LEMMA OnlyInstancesRemain ==
  ASSUME NEW M, Catalog(M), NEW T, Unqualified(T) = {},
         IsBlocker(ResolveWithTables(M, T).problem)
  PROVE  ResolveWithTables(M, T).problem = "instances"
<1> DEFINE rows == FindRoutes(M, T)
           e == Enabled(rows)
<1>1. ~ ShouldRequestSchema(T)
  <2>1. UnqualifiedNames(T) = {}
    BY DEF UnqualifiedNames
  <2> QED
    BY <2>1, FS_EmptySet DEF ShouldRequestSchema
<1>2. AmbiguousTables(T, e) = {}
  BY DEF AmbiguousTables
<1>3. Catalog(e)
  BY DEF Catalog, Enabled, FindRoutes, RowsForTarget
<1>4. ASSUME HasCommonInstance(T, e) PROVE Plans(T, e) # {}
  <2> PICK i \in Instances(e) : \A t \in T : i \in Instances(RowsForTarget(e, t))
    BY <1>4 DEF HasCommonInstance
  <2> DEFINE default == (CHOOSE row \in e : row.instance = i).default
  <2>1. Connections(i, default, T, e) = {NoSchema}
    BY DEF Connections
  <2>2. \E plan : plan \in PlanForInstance(i, T, e)
    <3> HIDE DEF e
    <3>1. [instance |-> i, connection |-> NoSchema, first |-> default,
           usesDefault |-> NoSchema # NoSchema /\ NoSchema = default]
             \in PlanForInstance(i, T, e)
      BY <2>1 DEF PlanForInstance
    <3> QED
      BY <3>1
  <2> QED
    BY <2>2 DEF Plans
<1>5. ResolveWithTables(M, T).problem \in {"none", "missing", "disabled", "instances"}
  BY <1>1, <1>2, <1>4 DEF ResolveWithTables, Unrouted, Enabled
<1> QED
  BY <1>5 DEF IsBlocker

(* What a route serves: every table has a home on its instance, the        *)
(* unqualified ones in the schema to connect to.                           *)
LEMMA RouteServes ==
  ASSUME NEW M, Catalog(M), NEW T, ResolveWithTables(M, T).route # NoRoute
  PROVE  LET found == ResolveWithTables(M, T)
         IN  /\ T # {} /\ found.problem = "none"
             /\ found.route.instance \in DOMAIN Instance
             /\ AmbiguousTables(T, Enabled(FindRoutes(M, T))) = {}
             /\ \E c : /\ found.resolved = Resolved(T, c)
                       /\ HoldsAll(Enabled(M), T, found.route.instance, c)
                       /\ Unqualified(T) # {} => found.route.database = c
<1> DEFINE rows == FindRoutes(M, T)
           found == ResolveWithTables(M, T)
           best == SelectRoutePlan(Plans(T, Enabled(rows)))
<1>1. Passes(rows, T)
  BY Checks
<1>2. Catalog(Enabled(rows))
  BY DEF Catalog, Enabled, FindRoutes, RowsForTarget
<1>3. best \in Plans(T, Enabled(rows))
  BY <1>1, <1>2, BestPlan DEF Passes
<1>4. best.instance \in DOMAIN Instance /\ HoldsAll(Enabled(rows), T, best.instance, best.connection)
  BY <1>2, <1>3, PlanServes
<1>5. \A t \in T : Homes(Enabled(rows), t) = Homes(Enabled(M), t)
  BY FoundForEach DEF Homes
<1>6. HoldsAll(Enabled(M), T, best.instance, best.connection)
  BY <1>4, <1>5 DEF HoldsAll
<1>7. /\ found.problem = "none" /\ found.route.instance = best.instance
      /\ found.route.database = IF best.connection = NoSchema
                                THEN best.first ELSE best.connection
      /\ found.resolved = Resolved(T, best.connection)
  BY <1>1, Checks
<1>8. Unqualified(T) # {} => found.route.database = best.connection
  <2> SUFFICES ASSUME NEW t \in T, t.schema = NoSchema
               PROVE  best.connection # NoSchema
    BY <1>7 DEF Unqualified
  <2>1. best.connection \in Schemas
    BY <1>6 DEF HoldsAll
  <2>2. \A schema \in Schemas : schema # NoSchema
    BY WorkflowAssumption, NoSchemaAssumption
  <2> QED
    BY <2>1, <2>2
<1>9. T # {}
  BY <1>1 DEF Passes, FindRoutes
<1> QED
  BY <1>1, <1>4, <1>6, <1>7, <1>8, <1>9 DEF Passes

(* The router finds a route exactly for the tables that have one place.    *)
LEMMA RoutedIffHasPlace ==
  ASSUME NEW M, Catalog(M), NEW T
  PROVE  ResolveWithTables(M, T).route # NoRoute <=> HasPlace(M, T)
<1> DEFINE rows == FindRoutes(M, T)
           e == Enabled(rows)
<1>1. Catalog(e) /\ Catalog(Enabled(M))
  BY DEF Catalog, Enabled, FindRoutes, RowsForTarget
<1>2. \A t \in T : Homes(e, t) = Homes(Enabled(M), t)
  BY FoundForEach DEF Homes
<1>3. ASSUME ResolveWithTables(M, T).route # NoRoute PROVE HasPlace(M, T)
  <2> DEFINE i == ResolveWithTables(M, T).route.instance
  <2> PICK c : HoldsAll(Enabled(M), T, i, c)
    BY <1>3, RouteServes
  <2>1. T # {} /\ i \in DOMAIN Instance /\ AmbiguousTables(T, e) = {}
    BY <1>3, RouteServes
  <2> HIDE DEF i, e
  <2>2. ASSUME NEW t \in T, t.schema = NoSchema
        PROVE  c \in Schemas /\ Homes(Enabled(M), t) = {<<i, c>>}
    <3>1. c \in Schemas /\ <<i, c>> \in Homes(Enabled(M), t)
      BY <2>2 DEF HoldsAll
    <3>2. IsFiniteSet(Homes(Enabled(M), t))
      BY <1>1, HomesOfTable
    <3>3. ~ (Cardinality(Homes(e, t)) > 1)
      BY <2>1, <2>2 DEF AmbiguousTables, Unqualified
    <3>4. ~ (Cardinality(Homes(Enabled(M), t)) > 1)
      BY <1>2, <3>3
    <3> QED
      BY <3>1, <3>2, <3>4, OneHome
  <2>3. \A t \in T : t.schema # NoSchema => <<i, t.schema>> \in Homes(Enabled(M), t)
    BY DEF HoldsAll
  <2>4. CASE \E t \in T : t.schema = NoSchema
    BY <2>1, <2>2, <2>3, <2>4 DEF HasPlace
  <2>5. CASE \A t \in T : t.schema # NoSchema
    <3> PICK t \in T : <<i, t.schema>> \in Homes(Enabled(M), t)
      BY <2>1, <2>3, <2>5
    <3>1. t.schema \in Schemas
      BY <1>1, HomesOfTable
    <3> QED
      BY <2>1, <2>3, <2>5, <3>1 DEF HasPlace
  <2> QED
    BY <2>4, <2>5
<1>4. ASSUME HasPlace(M, T) PROVE ResolveWithTables(M, T).route # NoRoute
  <2> PICK i \in DOMAIN Instance, s \in Schemas : \A t \in T :
         IF t.schema = NoSchema THEN Homes(Enabled(M), t) = {<<i, s>>}
         ELSE <<i, t.schema>> \in Homes(Enabled(M), t)
    BY <1>4 DEF HasPlace
  <2>1. T # {} /\ HoldsAll(e, T, i, s)
    BY <1>2, <1>4 DEF HoldsAll, HasPlace
  <2>2. Plans(T, e) # {}
    BY <1>1, <2>1, PlanExists
  <2>3. \A t \in T : RowsForTarget(e, t) # {}
    <3> SUFFICES ASSUME NEW t \in T PROVE Homes(e, t) # {}
      BY DEF Homes
    <3> QED
      BY <1>2
  <2>4. e # {} /\ rows # {} /\ \A t \in T : RowsForTarget(rows, t) # {}
    BY <2>1, <2>3 DEF RowsForTarget, Enabled
  <2>5. AmbiguousTables(T, e) = {}
    <3> SUFFICES ASSUME NEW t \in T, t.schema = NoSchema
                 PROVE  ~ (Cardinality(Homes(e, t)) > 1)
      BY DEF AmbiguousTables, Unqualified
    <3>1. Homes(e, t) = {<<i, s>>}
      BY <1>2
    <3>2. Cardinality({<<i, s>>}) = 1
      BY FS_Singleton
    <3>3. Cardinality(Homes(e, t)) = 1
      BY <3>1, <3>2
    <3> QED
      BY <3>3
  <2> QED
    BY <2>2, <2>3, <2>4, <2>5, Checks DEF Passes
<1> QED
  BY <1>3, <1>4

-----------------------------------------------------------------------------
(* Counting tables. *)

LEMMA TargetsAreFinite ==
  ASSUME NEW T \in SUBSET Target
  PROVE  IsFiniteSet(T)
<1> DEFINE pairs == (Schemas \cup {NoSchema}) \X Tables
           f == [p \in pairs |-> [schema |-> p[1], table |-> p[2]]]
<1>1. IsFiniteSet(pairs)
  <2>1. IsFiniteSet(Schemas \cup {NoSchema})
    BY WorkflowAssumption, FS_AddElement
  <2> QED
    BY <2>1, WorkflowAssumption, FS_Product
<1>2. f \in Surjection(pairs, Target)
  <2>1. f \in [pairs -> Target]
    BY DEF Target
  <2>2. \A t \in Target : \E p \in pairs : f[p] = t
    <3> SUFFICES ASSUME NEW t \in Target PROVE \E p \in pairs : f[p] = t
      OBVIOUS
    <3>1. <<t.schema, t.table>> \in pairs /\ f[<<t.schema, t.table>>] = t
      BY DEF Target
    <3> QED
      BY <3>1
  <2> QED
    BY <2>1, <2>2 DEF Surjection
<1>3. IsFiniteSet(Target)
  BY <1>1, <1>2, FS_Surjection
<1> QED
  BY <1>3, FS_Subset

(* Resolving tables makes no table of its own.                             *)
LEMMA ResolvedAreFew ==
  ASSUME NEW T \in SUBSET Target, NEW c
  PROVE  Cardinality(Resolved(T, c)) <= Cardinality(T)
<1> DEFINE f == [t \in T |-> IF t.schema = NoSchema THEN [t EXCEPT !.schema = c] ELSE t]
<1>1. f \in Surjection(T, Resolved(T, c))
  BY DEF Surjection, Resolved
<1> QED
  BY <1>1, TargetsAreFinite, FS_Surjection

-----------------------------------------------------------------------------
(* The graph. *)

Found == ResolveWithTables(metadata, Asked)

(* The statement and the catalog are there until routing is over.          *)
Given ==
  step \in {"parse", "route", "explain", "ddl", "collected", "blocked"} =>
    /\ metadata \in Metadata /\ stated \subseteq Target
    /\ schema_name \in Schemas \cup {NoSchema}

(* The envelope has the answer of the router for the tables asked about.   *)
Looked ==
  /\ step = "route" => tables = Asked
  /\ Located => /\ evidence.route = Found.route /\ evidence.problem = Found.problem
                /\ Found.route # NoRoute => tables = Found.resolved
  /\ step = "blocked" => IsBlocker(evidence.problem)

(* What is missing from an envelope with a route. *)
Missing(plan, complete) ==
  (IF plan = "none" THEN {"explain_json"} ELSE {})
    \cup IF complete THEN {} ELSE {"create_table"}

Envelope(route, plan, missing) ==
  [status |-> "none", problem |-> "none", route |-> route, plan |-> plan, ddl |-> {},
   missing |-> missing]

(* The envelope says what was read. *)
Told ==
  /\ step \in {"idle", "parse", "route", "explain"} => read = NothingRead
  /\ step = "explain" => evidence = Envelope(evidence.route, "none", {})
  /\ step = "ddl" =>
       /\ evidence = Envelope(evidence.route, read.plan, Missing(read.plan, TRUE))
       /\ read = [plan |-> read.plan, database |-> read.database, ddl |-> {}]
  /\ step \in {"explain", "ddl"} => evidence.route # NoRoute /\ tables # {}
  /\ step \in {"collected", "blocked", "retrieve", "generate", "fallback", "done"} =>
       IF evidence.route = NoRoute
       THEN /\ read = NothingRead /\ evidence.status = "sql_only"
            /\ evidence.missing = {"route_info", "explain_json", "create_table"}
       ELSE /\ tables # {}
            /\ evidence.missing = Missing(read.plan, read.ddl = tables)
            /\ evidence.status =
                 StatusOf(read.plan, IF read.ddl = tables THEN tables ELSE {})

(* A report of the program repeats the envelope. *)
Reported ==
  /\ step # "done" => report = NoReport
  /\ report.from = "fallback" =>
       /\ report.status = evidence.status /\ report.missing = evidence.missing
       /\ report.confidence = Confidence(evidence.status)

Inv == Given /\ Looked /\ Told /\ Reported

LEMMA AskedAreTargets ==
  ASSUME stated \subseteq Target, schema_name \in Schemas \cup {NoSchema}
  PROVE  Asked \subseteq Target
BY DEF Asked, Resolved, Target

LEMMA InitInv == SqlInit => Inv
BY DEF SqlInit, Inv, Given, Looked, Told, Reported, Located, NoReport

(* A route for the tables asked about. *)
LEMMA FoundServes ==
  ASSUME metadata \in Metadata, Found.route # NoRoute
  PROVE  Found.problem = "none" /\ Found.resolved # {}
<1>1. Catalog(metadata)
  BY MetadataIsCatalog
<1>2. PICK c : Found.resolved = Resolved(Asked, c)
  BY <1>1, RouteServes DEF Found
<1>3. Asked # {} /\ Found.problem = "none"
  BY <1>1, RouteServes DEF Found
<1> QED
  BY <1>2, <1>3 DEF Resolved

LEMMA GivenStep ==
  ASSUME Inv, [SqlNext]_sqlVars
  PROVE  Given'
<1> USE DEF Inv, Given, input
<1>1. CASE Submit
  <2>1. stated' \subseteq Target
    BY <1>1 DEF Submit, Statements, kSubset
  <2> QED
    BY <1>1, <2>1 DEF Submit
<1>2. CASE ParseFails \/ MetadataDown
  BY <1>2 DEF ParseFails, MetadataDown, Fail
<1>3. CASE ResolveTables
  BY <1>3 DEF ResolveTables
<1>4. CASE Route
  BY <1>4 DEF Route
<1>5. CASE \E plan \in {"none", "scan", "indexed"} : Explain(plan)
  BY <1>5 DEF Explain
<1>6. CASE \E shown \in SUBSET tables : ShowCreateTables(shown)
  BY <1>6 DEF ShowCreateTables
<1>7. CASE EndBlocked
  BY <1>7 DEF EndBlocked
<1>8. CASE AnswerSchema
  BY <1>8 DEF AnswerSchema
<1>9. CASE \E gateway \in BOOLEAN, roots \in SUBSET {"stats_stale"} : Diagnose(gateway, roots)
  BY <1>9 DEF Diagnose
<1>10. CASE \E found \in SUBSET Findable : RetrieveForQwen(found) \/ ComposeFallback(found)
  BY <1>10 DEF RetrieveForQwen, ComposeFallback
<1>11. CASE (\E own \in {<<>>, <<NewCase>>} : QwenReport(own)) \/ QwenReportFails
  BY <1>11 DEF QwenReport, QwenReportFails
<1>12. CASE UNCHANGED sqlVars
  BY <1>12 DEF sqlVars
<1> QED
  BY <1>1, <1>2, <1>3, <1>4, <1>5, <1>6, <1>7, <1>8, <1>9, <1>10, <1>11, <1>12 DEF SqlNext

(* Steps that touch neither the input nor what was found for it.           *)
LEMMA FoundStays ==
  ASSUME UNCHANGED input
  PROVE  Asked' = Asked /\ Found' = Found
<1>1. Asked' = Asked
  BY DEF Asked, input
<1> QED
  BY <1>1 DEF Found, input

LEMMA LookedStep ==
  ASSUME Inv, [SqlNext]_sqlVars
  PROVE  Looked'
<1> USE DEF Inv, Looked, Located
<1>1. CASE Submit
  BY <1>1 DEF Submit
<1>2. CASE ParseFails \/ MetadataDown
  BY <1>2 DEF ParseFails, MetadataDown, Fail
<1>3. CASE ResolveTables
  <2>1. step' = "route" /\ tables' = Asked /\ Asked' = Asked
    BY <1>3, FoundStays DEF ResolveTables
  <2> QED
    BY <2>1
<1>4. CASE Route
  <2>1. tables = Asked /\ Found' = Found /\ step' \in {"explain", "collected"}
    BY <1>4, FoundStays DEF Route
  <2>2. CASE Found.route = NoRoute
    <3>1. evidence'.route = NoRoute /\ evidence'.problem = Found.problem
      BY <1>4, <2>1, <2>2 DEF Route, Found, Unlocated, NoEvidence
    <3> QED
      BY <2>1, <2>2, <3>1
  <2>3. CASE Found.route # NoRoute
    <3>1. metadata \in Metadata
      BY <1>4 DEF Route, Given
    <3>2. Found.problem = "none"
      BY <2>3, <3>1, FoundServes
    <3>3. /\ evidence' = [NoEvidence EXCEPT !.route = Found.route]
          /\ tables' = Found.resolved
      BY <1>4, <2>1, <2>3 DEF Route, Found
    <3>4. evidence'.route = Found.route /\ evidence'.problem = "none"
      BY <3>3 DEF NoEvidence
    <3> QED
      BY <2>1, <3>2, <3>3, <3>4
  <2> QED
    BY <2>2, <2>3
<1>5. CASE \E plan \in {"none", "scan", "indexed"} : Explain(plan)
  <2>1. /\ step = "explain" /\ step' = "ddl" /\ tables' = tables /\ Found' = Found
    BY <1>5, FoundStays DEF Explain
  <2>2. evidence'.route = evidence.route /\ evidence'.problem = evidence.problem
    BY <1>5, <2>1 DEF Explain, Told, Envelope
  <2> QED
    BY <2>1, <2>2
<1>6. CASE \E shown \in SUBSET tables : ShowCreateTables(shown)
  <2>1. step = "ddl" /\ step' = "collected" /\ tables' = tables /\ Found' = Found
    BY <1>6, FoundStays DEF ShowCreateTables
  <2>2. evidence'.route = evidence.route /\ evidence'.problem = evidence.problem
    BY <1>6, <2>1 DEF ShowCreateTables, Told, Envelope
  <2> QED
    BY <2>1, <2>2
<1>7. CASE EndBlocked
  BY <1>7, FoundStays DEF EndBlocked, collected
<1>8. CASE AnswerSchema
  BY <1>8 DEF AnswerSchema
<1>9. CASE \E gateway \in BOOLEAN, roots \in SUBSET {"stats_stale"} : Diagnose(gateway, roots)
  BY <1>9 DEF Diagnose
<1>10. CASE \E found \in SUBSET Findable : RetrieveForQwen(found) \/ ComposeFallback(found)
  BY <1>10 DEF RetrieveForQwen, ComposeFallback
<1>11. CASE (\E own \in {<<>>, <<NewCase>>} : QwenReport(own)) \/ QwenReportFails
  BY <1>11 DEF QwenReport, QwenReportFails
<1>12. CASE UNCHANGED sqlVars
  BY <1>12, FoundStays DEF sqlVars, input
<1> QED
  BY <1>1, <1>2, <1>3, <1>4, <1>5, <1>6, <1>7, <1>8, <1>9, <1>10, <1>11, <1>12 DEF SqlNext

LEMMA ToldStep ==
  ASSUME Inv, [SqlNext]_sqlVars
  PROVE  Told'
<1> USE DEF Inv, Told
<1>1. CASE Submit
  BY <1>1 DEF Submit, collected
<1>2. CASE ParseFails \/ MetadataDown
  BY <1>2 DEF ParseFails, MetadataDown, Fail
<1>3. CASE ResolveTables
  BY <1>3 DEF ResolveTables
<1>4. CASE Route
  <2>1. tables = Asked /\ step = "route" /\ step' \in {"explain", "collected"}
        /\ read' = NothingRead
    BY <1>4 DEF Route, Looked
  <2>2. CASE Found.route = NoRoute
    <3>1. step' = "collected" /\ evidence' = Unlocated(Found.problem)
      BY <1>4, <2>1, <2>2 DEF Route, Found
    <3>2. /\ evidence'.route = NoRoute /\ evidence'.status = "sql_only"
          /\ evidence'.missing = {"route_info", "explain_json", "create_table"}
      BY <3>1 DEF Unlocated, NoEvidence
    <3> QED
      BY <2>1, <3>1, <3>2
  <2>3. CASE Found.route # NoRoute
    <3>1. /\ evidence' = [NoEvidence EXCEPT !.route = Found.route]
          /\ tables' = Found.resolved /\ step' = "explain"
      BY <1>4, <2>1, <2>3 DEF Route, Found
    <3>2. evidence' = Envelope(Found.route, "none", {})
      BY <3>1 DEF NoEvidence, Envelope
    <3>3. evidence'.route = Found.route
      BY <3>2 DEF Envelope
    <3>4. metadata \in Metadata
      BY <1>4 DEF Route, Given
    <3>5. tables' # {}
      BY <2>3, <3>1, <3>4, FoundServes
    <3> QED
      BY <2>1, <2>3, <3>1, <3>2, <3>3, <3>5
  <2> QED
    BY <2>2, <2>3
<1>5. ASSUME NEW plan \in {"none", "scan", "indexed"}, Explain(plan)
      PROVE  Told'
  <2> DEFINE r == evidence.route
  <2>1. /\ step = "explain" /\ step' = "ddl" /\ tables' = tables /\ tables # {}
        /\ evidence = Envelope(r, "none", {}) /\ r # NoRoute /\ read = NothingRead
    BY <1>5 DEF Explain
  <2>2. /\ evidence' = [evidence EXCEPT !.plan = plan,
                    !.missing = @ \cup IF plan = "none" THEN {"explain_json"} ELSE {}]
        /\ read' = [read EXCEPT !.plan = plan, !.database = r.database]
    BY <1>5 DEF Explain
  <2>3. evidence' = Envelope(r, plan, Missing(plan, TRUE))
    <3> DEFINE gap == IF plan = "none" THEN {"explain_json"} ELSE {}
    <3>1. {} \cup gap = Missing(plan, TRUE)
      BY DEF Missing
    <3>2. evidence = [status |-> "none", problem |-> "none", route |-> r,
                      plan |-> "none", ddl |-> {}, missing |-> {}]
      BY <2>1 DEF Envelope
    <3> HIDE DEF r, gap
    <3>3. evidence' = [evidence EXCEPT !.plan = plan, !.missing = @ \cup gap]
      BY <2>2 DEF gap
    <3>4. evidence' = [status |-> "none", problem |-> "none", route |-> r,
                       plan |-> plan, ddl |-> {}, missing |-> {} \cup gap]
      BY <3>2, <3>3
    <3> QED
      BY <3>1, <3>4 DEF Envelope
  <2>4. read' = [plan |-> plan, database |-> r.database, ddl |-> {}]
    BY <2>1, <2>2 DEF NothingRead
  <2>5. evidence'.route = r /\ read'.plan = plan /\ read'.database = r.database
    BY <2>3, <2>4 DEF Envelope
  <2>6. /\ evidence' = Envelope(evidence'.route, read'.plan, Missing(read'.plan, TRUE))
        /\ read' = [plan |-> read'.plan, database |-> read'.database, ddl |-> {}]
        /\ evidence'.route # NoRoute
    <3> HIDE DEF r
    <3> QED
      BY <2>1, <2>3, <2>4, <2>5, Zenon
  <2>7. step' = "ddl" /\ tables' # {}
    BY <2>1
  <2> QED
    BY <2>6, <2>7
<1>6. ASSUME NEW shown \in SUBSET tables, ShowCreateTables(shown)
      PROVE  Told'
  <2> DEFINE r == evidence.route
             plan == read.plan
             ddl == IF shown = tables THEN tables ELSE {}
  <2>1. /\ step = "ddl" /\ step' = "collected" /\ tables' = tables /\ tables # {}
        /\ evidence = Envelope(r, plan, Missing(plan, TRUE)) /\ r # NoRoute
        /\ read = [plan |-> plan, database |-> read.database, ddl |-> {}]
    BY <1>6 DEF ShowCreateTables
  <2>2. /\ evidence' = [evidence EXCEPT !.ddl = ddl, !.status = StatusOf(evidence.plan, ddl),
                        !.missing = @ \cup IF shown = tables THEN {} ELSE {"create_table"}]
        /\ read' = [read EXCEPT !.ddl = shown]
    BY <1>6 DEF ShowCreateTables
  <2>3. read'.plan = plan /\ read'.ddl = shown
    BY <2>1, <2>2
  <2>4. evidence.plan = plan
    BY <2>1 DEF Envelope
  <2>5. evidence'.route = r /\ evidence'.status = StatusOf(plan, ddl)
    BY <2>1, <2>2, <2>4 DEF Envelope
  <2>6. evidence'.missing = Missing(plan, shown = tables)
    BY <2>1, <2>2 DEF Envelope, Missing
  <2> HIDE DEF r, plan
  <2> QED
    BY <2>1, <2>3, <2>5, <2>6
<1>7. CASE EndBlocked
  BY <1>7 DEF EndBlocked, collected
<1>8. CASE AnswerSchema
  <2>1. /\ IsBlocker(Found.problem) /\ evidence.route = Found.route
        /\ metadata \in Metadata
    BY <1>8 DEF AnswerSchema, Looked, Located, Given
  <2>2. evidence.route = NoRoute
    BY <2>1, FoundServes DEF IsBlocker
  <2>3. read' = NothingRead /\ step' = "parse"
    BY <1>8, <2>2 DEF AnswerSchema
  <2> QED
    BY <2>3
<1>9. CASE \E gateway \in BOOLEAN, roots \in SUBSET {"stats_stale"} : Diagnose(gateway, roots)
  BY <1>9 DEF Diagnose, collected
<1>10. CASE \E found \in SUBSET Findable : RetrieveForQwen(found) \/ ComposeFallback(found)
  BY <1>10 DEF RetrieveForQwen, ComposeFallback, collected
<1>11. CASE (\E own \in {<<>>, <<NewCase>>} : QwenReport(own)) \/ QwenReportFails
  BY <1>11 DEF QwenReport, QwenReportFails, collected
<1>12. CASE UNCHANGED sqlVars
  BY <1>12 DEF sqlVars
<1> QED
  BY <1>1, <1>2, <1>3, <1>4, <1>5, <1>6, <1>7, <1>8, <1>9, <1>10, <1>11, <1>12 DEF SqlNext

LEMMA ReportedStep ==
  ASSUME Inv, [SqlNext]_sqlVars
  PROVE  Reported'
<1> USE DEF Inv, Reported
<1>1. CASE Submit \/ ParseFails \/ MetadataDown \/ ResolveTables \/ Route
  BY <1>1 DEF Submit, ParseFails, MetadataDown, Fail, ResolveTables, Route, NoReport
<1>2. CASE (\E plan \in {"none", "scan", "indexed"} : Explain(plan))
             \/ (\E shown \in SUBSET tables : ShowCreateTables(shown))
  <2>1. step # "done" /\ step' # "done" /\ report' = report
    <3>1. ASSUME NEW plan, Explain(plan)
          PROVE  step # "done" /\ step' # "done" /\ report' = report
      BY <3>1, Zenon DEF Explain
    <3>2. ASSUME NEW shown, ShowCreateTables(shown)
          PROVE  step # "done" /\ step' # "done" /\ report' = report
      BY <3>2, Zenon DEF ShowCreateTables
    <3> QED
      BY <1>2, <3>1, <3>2
  <2> QED
    BY <2>1 DEF NoReport
<1>3. CASE EndBlocked \/ AnswerSchema
             \/ \E gateway \in BOOLEAN, roots \in SUBSET {"stats_stale"} : Diagnose(gateway, roots)
  BY <1>3 DEF EndBlocked, AnswerSchema, Diagnose, NoReport
<1>4. CASE \E found \in SUBSET Findable : RetrieveForQwen(found)
  BY <1>4 DEF RetrieveForQwen, NoReport
<1>5. CASE \E found \in SUBSET Findable : ComposeFallback(found)
  <2>1. /\ step' = "done" /\ evidence' = evidence
        /\ report' = [from |-> "fallback", status |-> evidence.status,
                      missing |-> evidence.missing,
                      confidence |-> Confidence(evidence.status), cases |-> cases']
    BY <1>5 DEF ComposeFallback, collected
  <2> QED
    BY <2>1
<1>6. CASE \E own \in {<<>>, <<NewCase>>} : QwenReport(own)
  <2>1. step' = "done" /\ report'.from = "qwen"
    BY <1>6 DEF QwenReport, NoReport
  <2> QED
    BY <2>1
<1>7. CASE QwenReportFails
  BY <1>7 DEF QwenReportFails, NoReport
<1>8. CASE UNCHANGED sqlVars
  BY <1>8 DEF sqlVars
<1> QED
  BY <1>1, <1>2, <1>3, <1>4, <1>5, <1>6, <1>7, <1>8 DEF SqlNext

LEMMA StepInv == Inv /\ [SqlNext]_sqlVars => Inv'
<1> SUFFICES ASSUME Inv, [SqlNext]_sqlVars
             PROVE  Inv'
  OBVIOUS
<1>1. Given' /\ Looked' /\ Told' /\ Reported'
  BY GivenStep, LookedStep, ToldStep, ReportedStep
<1> QED
  BY <1>1 DEF Inv

LEMMA Invariance == SqlSpec => []Inv
<1>1. SqlInit => Inv
  BY InitInv
<1>2. Inv /\ [SqlNext]_sqlVars => Inv'
  BY StepInv
<1> QED
  BY <1>1, <1>2, PTL DEF SqlSpec

-----------------------------------------------------------------------------
(* The properties of the run `message`, for every catalog. *)

LEMMA LocatedIsFound ==
  ASSUME Inv, Located
  PROVE  /\ metadata \in Metadata /\ Catalog(metadata)
         /\ Asked \in SUBSET Target
         /\ evidence.route = Found.route /\ evidence.problem = Found.problem
         /\ Found.route # NoRoute => tables = Found.resolved
<1>1. /\ metadata \in Metadata /\ stated \subseteq Target
      /\ schema_name \in Schemas \cup {NoSchema}
  BY DEF Inv, Given, Located
<1>2. Catalog(metadata)
  BY <1>1, MetadataIsCatalog
<1> QED
  BY <1>1, <1>2, AskedAreTargets DEF Inv, Looked

(* Evidence is collected exactly for the statements whose tables have one  *)
(* place, whatever the routing rows, however many instances, schemas and   *)
(* tables.                                                                 *)
THEOREM StatementsAreRouted == SqlSpec => []RoutedIffPlaceable
<1>1. Inv => RoutedIffPlaceable
  <2> SUFFICES ASSUME Inv, Located
               PROVE  evidence.route # NoRoute <=> Placeable
    BY DEF RoutedIffPlaceable
  <2>1. evidence.route # NoRoute <=> HasPlace(metadata, Asked)
    BY LocatedIsFound, RoutedIffHasPlace DEF Found
  <2>2. \A t : EnabledHomes(t) = Homes(Enabled(metadata), t)
    BY DEF EnabledHomes, Enabled
  <2>3. HasPlace(metadata, Asked) <=> Placeable
    BY <2>2 DEF HasPlace, Placeable
  <2> QED
    BY <2>1, <2>3
<1> QED
  BY <1>1, Invariance, PTL

(* What is read from a database belongs to the statement: every table that *)
(* is looked at is one asked about, at home on the instance, and EXPLAIN   *)
(* runs in the schema of the tables that name none.                        *)
THEOREM EvidenceBelongs == SqlSpec => []EvidenceIsOfStatement
<1>1. Inv => EvidenceIsOfStatement
  <2> SUFFICES ASSUME Inv, Located, evidence.route # NoRoute
               PROVE  EvidenceIsOfStatement
    BY DEF EvidenceIsOfStatement
  <2>1. /\ Catalog(metadata) /\ Asked \in SUBSET Target
        /\ evidence.route = Found.route /\ tables = Found.resolved
    BY LocatedIsFound
  <2> DEFINE i == evidence.route.instance
  <2>2. PICK c : /\ Found.resolved = Resolved(Asked, c)
                 /\ HoldsAll(Enabled(metadata), Asked, i, c)
                 /\ Unqualified(Asked) # {} => evidence.route.database = c
    BY <2>1, RouteServes DEF Found
  <2>3. \A t : EnabledHomes(t) = Homes(Enabled(metadata), t)
    BY DEF EnabledHomes, Enabled
  <2> HIDE DEF i
  <2>4. ASSUME NEW target \in Asked
        PROVE  \E found \in tables :
                 /\ found.table = target.table
                 /\ target.schema \in {NoSchema, found.schema}
                 /\ <<i, found.schema>> \in EnabledHomes(target)
                 /\ target.schema = NoSchema => found.schema = evidence.route.database
    <3>0. target \in Target
      BY <2>1
    <3>1. CASE target.schema = NoSchema
      <4> DEFINE found == [target EXCEPT !.schema = c]
      <4>1. found \in tables
        BY <2>1, <2>2, <3>1 DEF Resolved
      <4>2. found.table = target.table /\ found.schema = c
        BY <3>0 DEF Target
      <4>3. c = evidence.route.database
        BY <2>2, <3>1 DEF Unqualified
      <4>4. <<i, c>> \in EnabledHomes(target)
        BY <2>2, <2>3, <3>1 DEF HoldsAll
      <4> HIDE DEF found
      <4> QED
        BY <3>1, <4>1, <4>2, <4>3, <4>4
    <3>2. CASE target.schema # NoSchema
      <4>1. target \in tables
        BY <2>1, <2>2, <3>2 DEF Resolved
      <4>2. <<i, target.schema>> \in EnabledHomes(target)
        BY <2>2, <2>3, <3>2 DEF HoldsAll
      <4> QED
        BY <3>2, <4>1, <4>2
    <3> QED
      BY <3>1, <3>2
  <2>5. Cardinality(tables) <= Cardinality(Asked)
    BY <2>1, <2>2, ResolvedAreFew
  <2> QED
    BY <2>4, <2>5 DEF EvidenceIsOfStatement, i
<1> QED
  BY <1>1, Invariance, PTL

(* A schema that the user named is the last one asked for: a statement     *)
(* that is blocked again has its tables on different instances.            *)
THEOREM AnswersSettle == SqlSpec => []AnswerSettlesSchema
<1>1. Inv => AnswerSettlesSchema
  <2> SUFFICES ASSUME Inv, step = "blocked", schema_name # NoSchema
               PROVE  evidence.problem = "instances"
    BY DEF AnswerSettlesSchema
  <2>1. Located
    BY DEF Located
  <2>2. Catalog(metadata) /\ evidence.problem = Found.problem /\ IsBlocker(Found.problem)
    BY <2>1, LocatedIsFound DEF Inv, Looked
  <2>3. Unqualified(Asked) = {}
    <3>1. stated \subseteq Target
      BY <2>1 DEF Inv, Given, Located
    <3>2. \A t \in stated : t.schema = NoSchema =>
            [t EXCEPT !.schema = schema_name].schema # NoSchema
      BY <3>1 DEF Target
    <3> QED
      BY <3>2 DEF Unqualified, Asked, Resolved
  <2> QED
    BY <2>2, <2>3, OnlyInstancesRemain DEF Found
<1> QED
  BY <1>1, Invariance, PTL

(* The report that the program writes itself says what was read and what   *)
(* was not.                                                                *)
THEOREM ReportsAreTruthful == SqlSpec => []StatusIsTruthful
<1>1. Inv => StatusIsTruthful
  <2> DEFINE complete == evidence.route # NoRoute /\ read.ddl = tables
  <2> SUFFICES ASSUME Inv, report.from = "fallback"
               PROVE  /\ report.status = "full" <=> read.plan # "none" /\ complete
                      /\ report.status = "sql_only" <=> read.plan = "none" /\ ~ complete
                      /\ "explain_json" \in report.missing <=> read.plan = "none"
                      /\ "create_table" \in report.missing <=> ~ complete
                      /\ report.confidence = "high" <=> report.status = "full"
    BY DEF StatusIsTruthful
  <2>1. /\ step = "done" /\ report.status = evidence.status
        /\ report.missing = evidence.missing
        /\ report.confidence = Confidence(evidence.status)
    <3>1. NoReport.from = "none"
      BY DEF NoReport
    <3> QED
      BY <3>1 DEF Inv, Reported
  <2>2. CASE evidence.route = NoRoute
    <3>1. /\ read.plan = "none" /\ evidence.status = "sql_only"
          /\ evidence.missing = {"route_info", "explain_json", "create_table"}
      BY <2>1, <2>2 DEF Inv, Told, NothingRead
    <3> QED
      BY <2>1, <2>2, <3>1 DEF Confidence
  <2>3. CASE evidence.route # NoRoute
    <3>1. /\ tables # {}
          /\ evidence.missing = Missing(read.plan, read.ddl = tables)
          /\ evidence.status =
               StatusOf(read.plan, IF read.ddl = tables THEN tables ELSE {})
      BY <2>1, <2>3 DEF Inv, Told
    <3>2. complete <=> read.ddl = tables
      BY <2>3
    <3>3. /\ evidence.status = "full" <=> read.plan # "none" /\ complete
          /\ evidence.status = "sql_only" <=> read.plan = "none" /\ ~ complete
          /\ evidence.status \in {"full", "partial", "sql_only"}
      BY <3>1, <3>2 DEF StatusOf
    <3>4. /\ "explain_json" \in evidence.missing <=> read.plan = "none"
          /\ "create_table" \in evidence.missing <=> ~ complete
      BY <3>1, <3>2 DEF Missing
    <3>5. Confidence(evidence.status) = "high" <=> evidence.status = "full"
      BY <3>3 DEF Confidence
    <3> QED
      BY <2>1, <3>3, <3>4, <3>5
  <2> QED
    BY <2>2, <2>3
<1> QED
  BY <1>1, Invariance, PTL

-----------------------------------------------------------------------------
(* The order of the cases. *)

(* What Ranked sorts, and where it puts it. *)
Entries(cs, q, h) ==
  {[score |-> Score(q, cs[i], h), quality |-> cs[i].quality, at |-> i] :
     i \in {j \in DOMAIN cs : PassesHardFilters(q, cs[j])}}

Ahead(d, e) ==
  \/ d.score > e.score
  \/ d.score = e.score /\ d.quality > e.quality
  \/ d.score = e.score /\ d.quality = e.quality /\ d.at < e.at

Place(E, e) == 1 + Cardinality({d \in E : Ahead(d, e)})

LEMMA RankedIs ==
  ASSUME NEW cs, NEW q, NEW h
  PROVE  Ranked(cs, q, h) =
           [k \in 1 .. Cardinality(Entries(cs, q, h)) |->
              cs[(CHOOSE e \in Entries(cs, q, h) : Place(Entries(cs, q, h), e) = k).at]]
BY DEF Ranked, Entries, Place, Ahead

(* Entries that can be compared, and no two for one case.                  *)
Comparable(E) ==
  /\ IsFiniteSet(E)
  /\ \A e \in E : e.score \in Int /\ e.quality \in Int /\ e.at \in Int
  /\ \A d, e \in E : d.at = e.at => d = e

(* Every place up to their number is that of one of them.                  *)
LEMMA PlacesAreFilled ==
  ASSUME NEW E, Comparable(E)
  PROVE  \A k \in 1 .. Cardinality(E) : \E e \in E : Place(E, e) = k
<1> DEFINE n == Cardinality(E)
           f == [e \in E |-> Place(E, e)]
<1>0. n \in Nat /\ IsFiniteSet(E)
  BY FS_CardinalityType DEF Comparable
<1>1. ASSUME NEW e \in E
      PROVE  /\ IsFiniteSet({d \in E : Ahead(d, e)})
             /\ Cardinality({d \in E : Ahead(d, e)}) \in 0 .. n - 1
  <2>1. ~ Ahead(e, e)
    BY DEF Ahead, Comparable
  <2>2. {d \in E : Ahead(d, e)} \in SUBSET (E \ {e})
    BY <2>1
  <2>3. IsFiniteSet(E \ {e}) /\ Cardinality(E \ {e}) = n - 1
    BY <1>0, FS_RemoveElement
  <2>4. /\ IsFiniteSet({d \in E : Ahead(d, e)})
        /\ Cardinality({d \in E : Ahead(d, e)}) <= n - 1
    BY <2>2, <2>3, FS_Subset
  <2> HIDE DEF n
  <2> QED
    BY <1>0, <2>4, FS_CardinalityType
<1>2. ASSUME NEW d \in E, NEW e \in E, Ahead(d, e)
      PROVE  Place(E, d) < Place(E, e)
  <2> DEFINE D == {c \in E : Ahead(c, d)}
             F == {c \in E : Ahead(c, e)}
  <2>1. D \subseteq F /\ d \in F /\ d \notin D
    BY <1>2 DEF Ahead, Comparable
  <2>2. IsFiniteSet(D) /\ Cardinality(D) \in Nat /\ IsFiniteSet(F) /\ Cardinality(F) \in Nat
    BY <1>0, <1>1
  <2>3. Place(E, d) = 1 + Cardinality(D) /\ Place(E, e) = 1 + Cardinality(F)
    BY DEF Place
  <2> HIDE DEF D, F
  <2>4. D \cup {d} \in SUBSET F /\ Cardinality(D \cup {d}) = Cardinality(D) + 1
    BY <2>1, <2>2, FS_AddElement
  <2>5. Cardinality(D \cup {d}) <= Cardinality(F)
    BY <2>2, <2>4, FS_Subset
  <2> QED
    BY <2>2, <2>3, <2>4, <2>5
<1>3. \A d, e \in E : d # e => Ahead(d, e) \/ Ahead(e, d)
  BY DEF Ahead, Comparable
<1>4. \A e \in E : Place(E, e) \in 1 .. n
  <2> SUFFICES ASSUME NEW e \in E PROVE Place(E, e) \in 1 .. n
    OBVIOUS
  <2>1. Cardinality({d \in E : Ahead(d, e)}) \in 0 .. n - 1
    BY <1>1
  <2> HIDE DEF n
  <2> QED
    BY <1>0, <2>1 DEF Place
<1>5. \A d, e \in E : f[d] = f[e] => d = e
  <2> SUFFICES ASSUME NEW d \in E, NEW e \in E, Place(E, d) = Place(E, e), d # e PROVE FALSE
    OBVIOUS
  <2>1. Place(E, d) < Place(E, e) \/ Place(E, e) < Place(E, d)
    BY <1>2, <1>3
  <2>2. Place(E, d) \in Int /\ Place(E, e) \in Int
    BY <1>0, <1>4
  <2> QED
    BY <2>1, <2>2
<1>6. f \in Injection(E, 1 .. n)
  <2>1. f \in [E -> 1 .. n]
    BY <1>4
  <2> HIDE DEF f, n
  <2> QED
    BY <1>5, <2>1 DEF Injection, IsInjective
<1>7. IsFiniteSet(1 .. n) /\ Cardinality(1 .. n) = n
  BY <1>0, FS_Interval
<1>8. f \in Surjection(E, 1 .. n)
  <2> HIDE DEF f
  <2> QED
    BY <1>6, <1>7, FS_Injection
<1> QED
  BY <1>8 DEF Surjection

LEMMA DivInt ==
  ASSUME NEW a \in Int, NEW b \in Nat, b # 0
  PROVE  a \div b \in Int
OBVIOUS

LEMMA OverlapType ==
  ASSUME NEW wanted, IsFiniteSet(wanted), NEW actual, NEW weight \in {180, 240}
  PROVE  Overlap(wanted, actual, weight) \in Int
<1>1. IsFiniteSet(wanted \cap actual)
  BY FS_Subset
<1>2. /\ Cardinality(wanted) \in Nat /\ Cardinality(wanted \cap actual) \in Nat
      /\ wanted # {} => Cardinality(wanted) # 0
  BY <1>1, FS_CardinalityType, FS_EmptySet
<1>3. weight * Cardinality(wanted \cap actual) \in Int
  BY <1>2
<1> QED
  BY <1>2, <1>3, DivInt DEF Overlap

(* What a query must be for the score to be a number. *)
Askable(q) == IsFiniteSet(q.scenario) /\ IsFiniteSet(q.roots)

LEMMA ScoreType ==
  ASSUME NEW q, Askable(q), NEW case, case.quality \in Nat, NEW h
  PROVE  Score(q, case, h) \in Int
<1>1. /\ Overlap(q.scenario, case.scenario, 180) \in Int
      /\ Overlap(q.roots, case.roots, 240) \in Int
  BY OverlapType DEF Askable
<1> QED
  BY <1>1 DEF Score, Environment
(* Cases of C, none of them twice.                                         *)
Distinct(cs, C) == cs \in Seq(C) /\ \A i, j \in DOMAIN cs : cs[i] = cs[j] => i = j

Qualified(C) == \A c \in C : c.quality \in Nat

(* What Ranked returns are cases of the list that pass the hard filters,   *)
(* each of them once.                                                      *)
LEMMA RankedFits ==
  ASSUME NEW C, Qualified(C), NEW cs, Distinct(cs, C), NEW q, Askable(q), NEW h
  PROVE  /\ Distinct(Ranked(cs, q, h), C)
         /\ \A c \in ToSet(Ranked(cs, q, h)) : PassesHardFilters(q, c)
<1> DEFINE E == Entries(cs, q, h)
           n == Cardinality(E)
           ranked == Ranked(cs, q, h)
           at == [k \in 1 .. n |-> CHOOSE e \in E : Place(E, e) = k]
<1>1. /\ Len(cs) \in Nat /\ DOMAIN cs = 1 .. Len(cs)
      /\ \A i \in DOMAIN cs : cs[i] \in C
  BY LenProperties, ElementOfSeq DEF Distinct
<1>2. Comparable(E)
  <2> DEFINE found == {j \in DOMAIN cs : PassesHardFilters(q, cs[j])}
             f == [i \in found |-> [score |-> Score(q, cs[i], h), quality |-> cs[i].quality,
                                    at |-> i]]
  <2>1. IsFiniteSet(found)
    <3>1. found \in SUBSET (1 .. Len(cs)) /\ IsFiniteSet(1 .. Len(cs))
      BY <1>1, FS_Interval
    <3> HIDE DEF found
    <3> QED
      BY <3>1, FS_Subset
  <2>2. f \in Surjection(found, E)
    BY DEF Surjection, Entries
  <2>3. IsFiniteSet(E)
    <3> HIDE DEF f, found, E
    <3> QED
      BY <2>1, <2>2, FS_Surjection
  <2>4. \A i \in DOMAIN cs : Score(q, cs[i], h) \in Int /\ cs[i].quality \in Int
    BY <1>1, ScoreType DEF Qualified
  <2>5. \A e \in E : e.score \in Int /\ e.quality \in Int /\ e.at \in Int
    BY <1>1, <2>4 DEF Entries
  <2>6. \A d, e \in E : d.at = e.at => d = e
    BY DEF Entries
  <2> HIDE DEF E
  <2> QED
    BY <2>3, <2>5, <2>6 DEF Comparable
<1>3. n \in Nat
  BY <1>2, FS_CardinalityType DEF Comparable
<1>4. \A e \in E : e.at \in DOMAIN cs /\ PassesHardFilters(q, cs[e.at])
  BY DEF Entries
<1>5. ranked = [k \in 1 .. n |-> cs[at[k].at]]
  BY RankedIs
<1> HIDE DEF ranked, E
<1>6. \A k \in 1 .. n : at[k] \in E /\ Place(E, at[k]) = k
  BY <1>2, PlacesAreFilled
<1> HIDE DEF at, n
<1>7. ranked \in Seq(C)
  <2>1. \A k \in 1 .. n : cs[at[k].at] \in C
    BY <1>1, <1>4, <1>6
  <2> QED
    BY <1>3, <1>5, <2>1
<1>8. DOMAIN ranked = 1 .. n
  BY <1>5
<1>9. ASSUME NEW i \in DOMAIN ranked, NEW j \in DOMAIN ranked, ranked[i] = ranked[j]
      PROVE  i = j
  <2>1. i \in 1 .. n /\ j \in 1 .. n /\ cs[at[i].at] = cs[at[j].at]
    BY <1>5, <1>8, <1>9
  <2>2. at[i] \in E /\ at[j] \in E /\ Place(E, at[i]) = i /\ Place(E, at[j]) = j
    BY <1>6, <2>1
  <2>3. at[i].at = at[j].at
    BY <1>4, <2>1, <2>2 DEF Distinct
  <2>4. at[i] = at[j]
    BY <1>2, <2>2, <2>3 DEF Comparable
  <2> QED
    BY <2>2, <2>4
<1>10. \A k \in DOMAIN ranked : PassesHardFilters(q, ranked[k])
  BY <1>4, <1>5, <1>6, <1>8
<1> QED
  BY <1>7, <1>9, <1>10 DEF Distinct, ToSet, ranked

-----------------------------------------------------------------------------
(* The selection of the first cases. *)

(* The function by which Dedupe is defined. *)
Selects(f, ranked, limit, n) ==
  f = [i \in 0 .. n |-> IF i = 0 THEN <<>> ELSE OneMore(f[i - 1], ranked[i], limit)]

LEMMA SelectsAt ==
  ASSUME NEW f, NEW ranked, NEW limit, NEW n, Selects(f, ranked, limit, n)
  PROVE  \A i \in 0 .. n :
           f[i] = IF i = 0 THEN <<>> ELSE OneMore(f[i - 1], ranked[i], limit)
<1> DEFINE g == [i \in 0 .. n |->
                   IF i = 0 THEN <<>> ELSE OneMore(f[i - 1], ranked[i], limit)]
<1>1. f = g
  BY DEF Selects
<1>2. \A i \in 0 .. n :
        g[i] = IF i = 0 THEN <<>> ELSE OneMore(f[i - 1], ranked[i], limit)
  OBVIOUS
<1> HIDE DEF g
<1> QED
  BY <1>1, <1>2

LEMMA SelectsExists ==
  \A ranked, limit, n : n \in Nat => \E f : Selects(f, ranked, limit, n)
<1> SUFFICES ASSUME NEW ranked, NEW limit, NEW k \in Nat,
                    ~ \E f : Selects(f, ranked, limit, k)
             PROVE  FALSE
  OBVIOUS
<1> DEFINE bad == {n \in Nat : ~ \E f : Selects(f, ranked, limit, n)}
<1>1. PICK n \in bad : \A m \in bad : n <= m
  BY Smallest
<1>2. n # 0
  <2> DEFINE g == [i \in 0 .. 0 |-> <<>>]
  <2>1. g = [i \in 0 .. 0 |-> IF i = 0 THEN <<>> ELSE OneMore(g[i - 1], ranked[i], limit)]
    OBVIOUS
  <2> HIDE DEF g
  <2>2. Selects(g, ranked, limit, 0)
    BY <2>1 DEF Selects
  <2> QED
    BY <2>2
<1>3. PICK f : Selects(f, ranked, limit, n - 1)
  BY <1>1, <1>2
<1> DEFINE g == [i \in 0 .. n |-> IF i = n THEN OneMore(f[n - 1], ranked[n], limit) ELSE f[i]]
<1>4. /\ n \in Nat /\ n - 1 \in Nat
      /\ \A i \in 0 .. n - 1 :
           f[i] = IF i = 0 THEN <<>> ELSE OneMore(f[i - 1], ranked[i], limit)
  BY <1>2, <1>3, SelectsAt
<1>5. \A i \in 0 .. n : i # 0 => g[i - 1] = f[i - 1]
  BY <1>4
<1>6. ASSUME NEW i \in 0 .. n
      PROVE  g[i] = IF i = 0 THEN <<>> ELSE OneMore(g[i - 1], ranked[i], limit)
  <2>1. CASE i = n
    BY <1>2, <1>5, <2>1
  <2>2. CASE i # n
    <3>1. i \in 0 .. n - 1 /\ g[i] = f[i]
      BY <1>4, <2>2
    <3>2. f[i] = IF i = 0 THEN <<>> ELSE OneMore(f[i - 1], ranked[i], limit)
      BY <1>4, <3>1
    <3> QED
      BY <1>5, <3>1, <3>2
  <2> QED
    BY <2>1, <2>2
<1>7. Selects(g, ranked, limit, n)
  <2>1. g = [i \in 0 .. n |-> g[i]]
    OBVIOUS
  <2> HIDE DEF g
  <2> QED
    BY <1>6, <2>1 DEF Selects
<1> QED
  BY <1>7

LEMMA DedupeIs ==
  ASSUME NEW ranked, NEW limit, Len(ranked) \in Nat
  PROVE  \E f : Selects(f, ranked, limit, Len(ranked)) /\ Dedupe(ranked, limit) = f[Len(ranked)]
<1> DEFINE f == CHOOSE f : Selects(f, ranked, limit, Len(ranked))
<1>1. Selects(f, ranked, limit, Len(ranked))
  BY SelectsExists
<1>2. Dedupe(ranked, limit) = f[Len(ranked)]
  BY DEF Dedupe, Selects
<1> QED
  BY <1>1, <1>2
(* No root cause more than twice. *)
Varied(s) ==
  \A r : r # {} => Cardinality({i \in DOMAIN s : s[i].roots = r}) <= MaxSameRootCause

(* A selection of the first n cases. *)
Selection(s, ranked, limit, n, C) ==
  /\ Distinct(s, C) /\ Len(s) <= limit /\ Varied(s)
  /\ \A k \in DOMAIN s : \E j \in 1 .. n : s[k] = ranked[j]

LEMMA OneMoreFits ==
  ASSUME NEW C, NEW ranked, Distinct(ranked, C), NEW limit \in Nat,
         NEW n \in 1 .. Len(ranked), NEW s, Selection(s, ranked, limit, n - 1, C)
  PROVE  Selection(OneMore(s, ranked[n], limit), ranked, limit, n, C)
<1> DEFINE case == ranked[n]
           more == Append(s, case)
           m == Len(s)
<1>1. /\ s \in Seq(C) /\ m \in Nat /\ DOMAIN s = 1 .. m /\ n \in Nat /\ n - 1 \in Nat
      /\ ranked \in Seq(C) /\ DOMAIN ranked = 1 .. Len(ranked) /\ Len(ranked) \in Nat
  BY LenProperties DEF Selection, Distinct
<1>2. case \in C
  BY <1>1, ElementOfSeq
<1>3. CASE OneMore(s, case, limit) = s
  <2>1. \A j \in 1 .. n - 1 : j \in 1 .. n
    BY <1>1
  <2> QED
    BY <1>3, <2>1 DEF Selection
<1>4. CASE OneMore(s, case, limit) # s
  <2>1. /\ OneMore(s, case, limit) = more /\ ~ (m >= limit)
        /\ case.roots # {} => ~ (Cardinality(SameRoot(s, case)) >= MaxSameRootCause)
    BY <1>4 DEF OneMore
  <2>2. /\ more \in Seq(C) /\ Len(more) = m + 1
        /\ \A i \in 1 .. m : more[i] = s[i]
        /\ more[m + 1] = case
    BY <1>1, <1>2, AppendProperties
  <2> HIDE DEF more, case, m
  <2>3. DOMAIN more = 1 .. m + 1
    BY <2>2, LenProperties
  <2>4. \A k \in 1 .. m : \E j \in 1 .. n - 1 : s[k] = ranked[j]
    BY <1>1 DEF Selection
  <2>5. \A k \in 1 .. m : s[k] # case
    <3> SUFFICES ASSUME NEW k \in 1 .. m, s[k] = case PROVE FALSE
      OBVIOUS
    <3>1. PICK j \in 1 .. n - 1 : s[k] = ranked[j]
      BY <2>4
    <3>2. j \in DOMAIN ranked /\ n \in DOMAIN ranked /\ j # n
      BY <1>1, <3>1
    <3> QED
      BY <3>1, <3>2 DEF case, Distinct
  <2>6. \A i, j \in DOMAIN more : more[i] = more[j] => i = j
    <3> SUFFICES ASSUME NEW i \in 1 .. m + 1, NEW j \in 1 .. m + 1, more[i] = more[j]
                 PROVE  i = j
      BY <2>3
    <3>1. CASE i \in 1 .. m /\ j \in 1 .. m
      BY <1>1, <2>2, <3>1 DEF Selection, Distinct
    <3>2. CASE i = m + 1 \/ j = m + 1
      BY <1>1, <2>2, <2>5, <3>2
    <3> QED
      BY <1>1, <3>1, <3>2
  <2>7. \A k \in DOMAIN more : \E j \in 1 .. n : more[k] = ranked[j]
    <3> SUFFICES ASSUME NEW k \in 1 .. m + 1 PROVE \E j \in 1 .. n : more[k] = ranked[j]
      BY <2>3
    <3>1. CASE k \in 1 .. m
      <4> PICK j \in 1 .. n - 1 : s[k] = ranked[j]
        BY <2>4, <3>1
      <4> QED
        BY <1>1, <2>2, <3>1
    <3>2. CASE k = m + 1
      BY <1>1, <2>2, <3>2 DEF case
    <3> QED
      BY <1>1, <3>1, <3>2
  <2>8. Varied(more)
    <3> SUFFICES ASSUME NEW r, r # {}
                 PROVE  Cardinality({i \in DOMAIN more : more[i].roots = r}) <= MaxSameRootCause
      BY DEF Varied
    <3> DEFINE had == {i \in DOMAIN s : s[i].roots = r}
               has == {i \in DOMAIN more : more[i].roots = r}
    <3>1. IsFiniteSet(had) /\ Cardinality(had) \in Nat /\ Cardinality(had) <= MaxSameRootCause
      <4>1. IsFiniteSet(1 .. m) /\ had \in SUBSET (1 .. m)
        BY <1>1, FS_Interval
      <4>2. Cardinality(had) <= MaxSameRootCause
        BY DEF Selection, Varied
      <4> HIDE DEF had
      <4> QED
        BY <4>1, <4>2, FS_Subset, FS_CardinalityType
    <3>2. CASE case.roots = r
      <4>1. SameRoot(s, case) = had
        BY <3>2 DEF SameRoot
      <4>2. ~ (Cardinality(had) >= MaxSameRootCause)
        BY <2>1, <3>2, <4>1
      <4>3. has = had \cup {m + 1} /\ m + 1 \notin had
        BY <1>1, <2>2, <2>3, <3>2
      <4> HIDE DEF had, has
      <4>4. Cardinality(has) = Cardinality(had) + 1
        BY <3>1, <4>3, FS_AddElement
      <4> QED
        BY <3>1, <4>2, <4>4 DEF MaxSameRootCause, has
    <3>3. CASE case.roots # r
      <4>1. has = had
        BY <1>1, <2>2, <2>3, <3>3
      <4> QED
        BY <3>1, <4>1
    <3> QED
      BY <3>2, <3>3
  <2>9. Len(more) <= limit
    BY <1>1, <2>1, <2>2
  <2> QED
    BY <2>1, <2>2, <2>6, <2>7, <2>8, <2>9 DEF Selection, Distinct, case
<1> QED
  BY <1>3, <1>4

(* The selection is one, whatever the length of the list.                  *)
LEMMA SelectsFit ==
  ASSUME NEW C, NEW ranked, Distinct(ranked, C), NEW limit \in Nat, NEW f,
         Selects(f, ranked, limit, Len(ranked))
  PROVE  \A n \in 0 .. Len(ranked) : Selection(f[n], ranked, limit, n, C)
<1> DEFINE bad == {n \in 0 .. Len(ranked) : ~ Selection(f[n], ranked, limit, n, C)}
<1> SUFFICES ASSUME bad # {} PROVE FALSE
  OBVIOUS
<1>1. Len(ranked) \in Nat
  BY LenProperties DEF Distinct
<1>2. bad \subseteq Nat
  BY <1>1
<1>3. PICK n \in bad : \A j \in bad : n <= j
  <2> HIDE DEF bad
  <2> QED
    BY <1>2, Smallest
<1>4. n \in 0 .. Len(ranked) /\ ~ Selection(f[n], ranked, limit, n, C)
  OBVIOUS
<1>5. f[n] = IF n = 0 THEN <<>> ELSE OneMore(f[n - 1], ranked[n], limit)
  BY <1>4, SelectsAt
<1>6. CASE n = 0
  <2>1. f[n] = <<>>
    BY <1>5, <1>6
  <2>2. <<>> \in Seq(C) /\ Len(<<>>) = 0 /\ DOMAIN <<>> = {}
    OBVIOUS
  <2>3. \A r : {i \in DOMAIN <<>> : <<>>[i].roots = r} = {}
    BY <2>2
  <2>4. Varied(<<>>)
    BY <2>3, FS_EmptySet DEF Varied, MaxSameRootCause
  <2>5. Selection(<<>>, ranked, limit, 0, C)
    BY <2>2, <2>4 DEF Selection, Distinct
  <2> QED
    BY <1>4, <1>6, <2>1, <2>5
<1>7. CASE n # 0
  <2>1. n \in 1 .. Len(ranked) /\ n - 1 \in 0 .. Len(ranked) /\ ~ (n <= n - 1)
    BY <1>1, <1>4, <1>7
  <2>2. Selection(f[n - 1], ranked, limit, n - 1, C)
    BY <1>3, <2>1
  <2>3. Selection(OneMore(f[n - 1], ranked[n], limit), ranked, limit, n, C)
    BY <2>1, <2>2, OneMoreFits
  <2> QED
    BY <1>4, <1>5, <1>7, <2>3
<1> QED
  BY <1>6, <1>7

LEMMA DedupeFits ==
  ASSUME NEW C, NEW ranked, Distinct(ranked, C), NEW limit \in Nat
  PROVE  Selection(Dedupe(ranked, limit), ranked, limit, Len(ranked), C)
<1>1. Len(ranked) \in Nat
  BY LenProperties DEF Distinct
<1>2. PICK f : Selects(f, ranked, limit, Len(ranked)) /\ Dedupe(ranked, limit) = f[Len(ranked)]
  BY <1>1, DedupeIs
<1>3. Len(ranked) \in 0 .. Len(ranked)
  BY <1>1
<1> QED
  BY <1>2, <1>3, SelectsFit
LEMMA MinOfTwo ==
  ASSUME NEW a \in Nat, NEW b \in Nat
  PROVE  Min({a, b}) = IF a <= b THEN a ELSE b
<1> DEFINE m == IF a <= b THEN a ELSE b
<1>1. m \in {a, b} /\ \A y \in {a, b} : m =< y
  OBVIOUS
<1>2. \A x \in {a, b} : (\A y \in {a, b} : x =< y) => x = m
  OBVIOUS
<1> HIDE DEF m
<1>3. Min({a, b}) = m
  BY <1>1, <1>2 DEF Min
<1> QED
  BY <1>3 DEF m

LEMMA MaxOfTwo ==
  ASSUME NEW a \in Nat, NEW b \in Nat
  PROVE  Max({a, b}) \in Nat /\ a <= Max({a, b})
<1> DEFINE m == IF a <= b THEN b ELSE a
<1>1. m \in {a, b} /\ \A y \in {a, b} : m >= y
  OBVIOUS
<1>2. \A x \in {a, b} : (\A y \in {a, b} : x >= y) => x = m
  OBVIOUS
<1> HIDE DEF m
<1>3. Max({a, b}) = m
  BY <1>1, <1>2 DEF Max
<1> QED
  BY <1>3 DEF m

(* s is what is left of t when it is cut after limit cases. *)
Cut(s, t, limit) ==
  /\ Len(s) = IF Len(t) < limit THEN Len(t) ELSE limit
  /\ \A i \in 1 .. Len(s) : s[i] = t[i]

LEMMA OneMoreCut ==
  ASSUME NEW C, NEW s \in Seq(C), NEW t \in Seq(C), NEW c \in C,
         NEW limit \in Nat, NEW most \in Nat, limit <= most, Cut(s, t, limit)
  PROVE  Cut(OneMore(s, c, limit), OneMore(t, c, most), limit)
<1>1. Len(s) \in Nat /\ Len(t) \in Nat
  BY LenProperties
<1>2. CASE Len(t) < limit
  <2>1. s = t
    <3>1. Len(s) = Len(t) /\ \A i \in 1 .. Len(s) : s[i] = t[i]
      BY <1>2 DEF Cut
    <3> QED
      BY <3>1, SeqEqual
  <2>2. ~ (Len(t) >= limit) /\ ~ (Len(t) >= most)
    BY <1>1, <1>2
  <2>3. OneMore(s, c, limit) = OneMore(t, c, most)
    BY <2>1, <2>2 DEF OneMore
  <2>4. OneMore(t, c, most) \in {t, Append(t, c)}
    BY DEF OneMore
  <2>5. Len(Append(t, c)) = Len(t) + 1
    BY AppendProperties
  <2>6. Len(OneMore(t, c, most)) \in Nat /\ Len(OneMore(t, c, most)) <= limit
    BY <1>1, <1>2, <2>4, <2>5
  <2>7. Len(OneMore(t, c, most)) =
          IF Len(OneMore(t, c, most)) < limit THEN Len(OneMore(t, c, most)) ELSE limit
    BY <2>6
  <2> QED
    BY <2>3, <2>7 DEF Cut
<1>3. CASE ~ (Len(t) < limit)
  <2>1. Len(s) = limit /\ Len(t) >= limit /\ \A i \in 1 .. limit : s[i] = t[i]
    BY <1>1, <1>3 DEF Cut
  <2>2. OneMore(s, c, limit) = s
    BY <2>1 DEF OneMore
  <2>3. CASE OneMore(t, c, most) = t
    BY <2>2, <2>3
  <2>4. CASE OneMore(t, c, most) = Append(t, c)
    <3>1. Len(Append(t, c)) = Len(t) + 1 /\ \A i \in 1 .. Len(t) : Append(t, c)[i] = t[i]
      BY AppendProperties
    <3>2. ~ (Len(Append(t, c)) < limit) /\ \A i \in 1 .. limit : s[i] = Append(t, c)[i]
      BY <1>1, <2>1, <3>1
    <3>3. Cut(s, Append(t, c), limit)
      BY <2>1, <3>2 DEF Cut
    <3> QED
      BY <2>2, <2>4, <3>3
  <2> QED
    BY <2>3, <2>4 DEF OneMore
<1> QED
  BY <1>2, <1>3

(* A longer selection, cut, is the shorter one: dropping repeated causes   *)
(* before the cut does not depend on where it will be.                     *)
LEMMA DedupeIsCut ==
  ASSUME NEW C, NEW ranked, Distinct(ranked, C), NEW limit \in Nat, NEW most \in Nat,
         limit <= most
  PROVE  First(Dedupe(ranked, most), limit) = Dedupe(ranked, limit)
<1> DEFINE n == Len(ranked)
<1>1. n \in Nat /\ \A i \in 1 .. n : ranked[i] \in C
  BY LenProperties, ElementOfSeq DEF Distinct
<1>2. PICK f : Selects(f, ranked, limit, n) /\ Dedupe(ranked, limit) = f[n]
  BY <1>1, DedupeIs
<1>3. PICK g : Selects(g, ranked, most, n) /\ Dedupe(ranked, most) = g[n]
  BY <1>1, DedupeIs
<1>4. \A i \in 0 .. n : f[i] \in Seq(C) /\ g[i] \in Seq(C)
  BY <1>2, <1>3, SelectsFit DEF Selection, Distinct
<1> HIDE DEF n
<1>5. Cut(f[n], g[n], limit)
  <2> DEFINE bad == {i \in 0 .. n : ~ Cut(f[i], g[i], limit)}
  <2> SUFFICES ASSUME bad # {} PROVE FALSE
    BY <1>1
  <2>1. bad \subseteq Nat
    BY <1>1
  <2>2. PICK i \in bad : \A j \in bad : i <= j
    <3> HIDE DEF bad
    <3> QED
      BY <2>1, Smallest
  <2>3. i \in 0 .. n /\ ~ Cut(f[i], g[i], limit)
    OBVIOUS
  <2>4. /\ f[i] = IF i = 0 THEN <<>> ELSE OneMore(f[i - 1], ranked[i], limit)
        /\ g[i] = IF i = 0 THEN <<>> ELSE OneMore(g[i - 1], ranked[i], most)
    BY <1>2, <1>3, <2>3, SelectsAt
  <2>5. Cut(<<>>, <<>>, limit)
    BY DEF Cut
  <2>6. i # 0
    BY <2>3, <2>4, <2>5
  <2>7. i - 1 \in 0 .. n /\ i \in 1 .. n /\ ~ (i <= i - 1)
    BY <1>1, <2>3, <2>6
  <2>8. Cut(f[i - 1], g[i - 1], limit)
    BY <2>2, <2>7
  <2>9. Cut(OneMore(f[i - 1], ranked[i], limit), OneMore(g[i - 1], ranked[i], most), limit)
    BY <1>1, <1>4, <2>7, <2>8, OneMoreCut
  <2> QED
    BY <2>3, <2>4, <2>6, <2>9
<1> DEFINE s == f[n]
           t == g[n]
           k == Min({limit, Len(t)})
<1>6. s \in Seq(C) /\ t \in Seq(C) /\ Cut(s, t, limit)
  BY <1>1, <1>4, <1>5
<1> HIDE DEF s, t
<1>7. Len(t) \in Nat /\ Len(s) \in Nat /\ \A i \in 1 .. Len(t) : t[i] \in C
  BY <1>6, LenProperties, ElementOfSeq
<1>8. k = Len(s) /\ k <= Len(t)
  BY <1>6, <1>7, MinOfTwo DEF Cut
<1> HIDE DEF k
<1>9. /\ SubSeq(t, 1, k) \in Seq(C) /\ Len(SubSeq(t, 1, k)) = k
      /\ \A i \in 1 .. k : SubSeq(t, 1, k)[i] = t[i]
  BY <1>7, <1>8, SubSeqProperties
<1>10. SubSeq(t, 1, k) = s
  BY <1>6, <1>8, <1>9, SeqEqual DEF Cut
<1> QED
  BY <1>2, <1>3, <1>10 DEF First, s, t, k
-----------------------------------------------------------------------------
(* The cases of a report. *)

(* Cases to show: some of C, that fit the query, few, and varied.          *)
Chosen(s, q, limit, C) ==
  /\ Distinct(s, C) /\ Len(s) <= limit /\ Varied(s)
  /\ \A i \in DOMAIN s : PassesHardFilters(q, s[i])

LEMMA RetrieveCasesFits ==
  ASSUME NEW C, Qualified(C), NEW cs, Distinct(cs, C), NEW q, Askable(q), NEW h,
         NEW limit \in Nat
  PROVE  Chosen(RetrieveCases(cs, q, h, limit), q, limit, C)
<1> DEFINE ranked == Ranked(cs, q, h)
           s == RetrieveCases(cs, q, h, limit)
<1>1. Distinct(ranked, C) /\ \A c \in ToSet(ranked) : PassesHardFilters(q, c)
  BY RankedFits
<1> HIDE DEF ranked
<1>2. Selection(Dedupe(ranked, limit), ranked, limit, Len(ranked), C)
  BY <1>1, DedupeFits
<1>3. s = Dedupe(ranked, limit)
  BY DEF RetrieveCases, ranked
<1>4. DOMAIN ranked = 1 .. Len(ranked)
  BY <1>1, LenProperties DEF Distinct
<1>5. \A i \in DOMAIN s : PassesHardFilters(q, s[i])
  BY <1>1, <1>2, <1>3, <1>4 DEF Selection, ToSet
<1> HIDE DEF s
<1> QED
  BY <1>2, <1>3, <1>5 DEF Selection, Chosen, s

LEMMA LibraryFits == Qualified(ToSet(Library)) /\ Distinct(Library, ToSet(Library))
<1>1. Qualified(ToSet(Library))
  BY LibraryAssumption DEF Qualified, ToSet
<1>2. Distinct(Library, ToSet(Library))
  BY LibraryAssumption DEF Distinct
<1> QED
  BY <1>1, <1>2

LEMMA ToSeqOfSet ==
  ASSUME NEW S, IsFiniteSet(S)
  PROVE  /\ SetToSeq(S) \in Seq(S)
         /\ \A i, j \in DOMAIN SetToSeq(S) : SetToSeq(S)[i] = SetToSeq(S)[j] => i = j
<1> DEFINE n == Cardinality(S)
<1>1. n \in Nat /\ ExistsBijection(1 .. n, S)
  BY FS_CardinalityType
<1>2. PICK f \in Bijection(1 .. n, S) : TRUE
  BY <1>1 DEF ExistsBijection
<1>3. f \in [1 .. n -> S] /\ IsInjective(f)
  BY <1>2 DEF Bijection, Injection
<1>4. SetToSeq(S) \in [1 .. n -> S] /\ IsInjective(SetToSeq(S))
  BY <1>3 DEF SetToSeq
<1> HIDE DEF n
<1>5. SetToSeq(S) \in Seq(S)
  BY <1>1, <1>4
<1> QED
  BY <1>4, <1>5 DEF IsInjective

(* Without hits the longer list of candidates, cut, is what a retrieval    *)
(* without vectors returns.                                                *)
LEMMA RulesDecide ==
  ASSUME NEW q, Askable(q), NEW limit \in Nat
  PROVE  Retrieve(Library, q, {}, limit) = RetrieveCases(Library, q, {}, limit)
<1> DEFINE most == Max({limit, CandidateLimit})
           ranked == Ranked(Library, q, {})
<1>1. most \in Nat /\ limit <= most
  BY RetrievalAssumption, MaxOfTwo
<1>2. Distinct(ranked, ToSet(Library))
  BY LibraryFits, RankedFits
<1>3. Retrieve(Library, q, {}, limit) = First(Dedupe(ranked, most), limit)
  BY DEF Retrieve, RuleCandidates, RetrieveCases
<1> HIDE DEF most, ranked
<1>4. First(Dedupe(ranked, most), limit) = Dedupe(ranked, limit)
  BY <1>1, <1>2, DedupeIsCut
<1> QED
  BY <1>3, <1>4 DEF RetrieveCases, ranked

LEMMA RetrieveFits ==
  ASSUME NEW q, Askable(q), NEW h, NEW limit \in Nat
  PROVE  Chosen(Retrieve(Library, q, h, limit), q, limit, ToSet(Library))
<1> DEFINE C == ToSet(Library)
           most == Max({limit, CandidateLimit})
           candidates == RuleCandidates(Library, q, limit)
           added == {c \in C : c.id \in h /\ c \notin ToSet(candidates)}
           all == candidates \o SetToSeq(added)
<1>1. CASE h = {}
  BY <1>1, LibraryFits, RulesDecide, RetrieveCasesFits
<1>2. CASE h # {}
  <2>1. Retrieve(Library, q, h, limit) = RetrieveCases(all, q, h, limit)
    BY <1>2 DEF Retrieve
  <2>2. most \in Nat
    BY RetrievalAssumption, MaxOfTwo
  <2>3. candidates = RetrieveCases(Library, q, {}, most)
    BY DEF RuleCandidates
  <2>4. Distinct(candidates, C)
    <3> HIDE DEF candidates, most
    <3>1. Chosen(RetrieveCases(Library, q, {}, most), q, most, C)
      BY <2>2, LibraryFits, RetrieveCasesFits
    <3> QED
      BY <2>3, <3>1 DEF Chosen
  <2>5. IsFiniteSet(C)
    <3> DEFINE f == [i \in DOMAIN Library |-> Library[i]]
    <3>1. f \in Surjection(DOMAIN Library, C)
      BY DEF Surjection, ToSet
    <3>2. IsFiniteSet(DOMAIN Library)
      <4>1. Len(Library) \in Nat /\ DOMAIN Library = 1 .. Len(Library)
        BY LibraryAssumption, LenProperties
      <4> QED
        BY <4>1, FS_Interval
    <3> HIDE DEF f
    <3> QED
      BY <3>1, <3>2, FS_Surjection
  <2>6. IsFiniteSet(added) /\ added \subseteq C
    <3>1. added \in SUBSET C
      OBVIOUS
    <3> HIDE DEF added, C
    <3> QED
      BY <2>5, <3>1, FS_Subset
  <2>7. \A c \in added : \A i \in DOMAIN candidates : candidates[i] # c
    BY DEF ToSet
  <2> DEFINE more == SetToSeq(added)
  <2> HIDE DEF added, candidates, C
  <2>8. /\ more \in Seq(added)
        /\ \A i, j \in DOMAIN more : more[i] = more[j] => i = j
    BY <2>6, ToSeqOfSet
  <2>9. /\ more \in Seq(C) /\ candidates \in Seq(C)
        /\ Len(more) \in Nat /\ Len(candidates) \in Nat
        /\ DOMAIN more = 1 .. Len(more) /\ DOMAIN candidates = 1 .. Len(candidates)
        /\ \A i \in 1 .. Len(more) : more[i] \in added
    <3>1. more \in Seq(C)
      BY <2>6, <2>8, SeqMonotonic
    <3> QED
      BY <2>4, <2>8, <3>1, LenProperties, ElementOfSeq DEF Distinct
  <2> HIDE DEF more
  <2>10. /\ all \in Seq(C) /\ Len(all) = Len(candidates) + Len(more)
         /\ \A i \in 1 .. Len(candidates) + Len(more) :
              all[i] = IF i <= Len(candidates) THEN candidates[i] ELSE more[i - Len(candidates)]
    BY <2>9, ConcatProperties DEF more
  <2> HIDE DEF all
  <2>11. DOMAIN all = 1 .. Len(candidates) + Len(more)
    BY <2>10, LenProperties
  <2>12. ASSUME NEW i \in DOMAIN all, NEW j \in DOMAIN all, all[i] = all[j]
         PROVE  i = j
    <3>1. CASE i <= Len(candidates) /\ j <= Len(candidates)
      <4>1. i \in DOMAIN candidates /\ j \in DOMAIN candidates /\ candidates[i] = candidates[j]
        BY <2>9, <2>10, <2>11, <2>12, <3>1
      <4> QED
        BY <2>4, <4>1 DEF Distinct
    <3>2. CASE i > Len(candidates) /\ j > Len(candidates)
      <4>1. /\ i - Len(candidates) \in DOMAIN more /\ j - Len(candidates) \in DOMAIN more
            /\ more[i - Len(candidates)] = more[j - Len(candidates)]
        BY <2>9, <2>10, <2>11, <2>12, <3>2
      <4>2. i - Len(candidates) = j - Len(candidates)
        BY <2>8, <4>1
      <4> QED
        BY <2>9, <2>11, <4>2
    <3>3. CASE i <= Len(candidates) /\ j > Len(candidates)
      <4>1. /\ i \in DOMAIN candidates /\ more[j - Len(candidates)] \in added
            /\ candidates[i] = more[j - Len(candidates)]
        BY <2>9, <2>10, <2>11, <2>12, <3>3
      <4> QED
        BY <2>7, <4>1
    <3>4. CASE i > Len(candidates) /\ j <= Len(candidates)
      <4>1. /\ j \in DOMAIN candidates /\ more[i - Len(candidates)] \in added
            /\ candidates[j] = more[i - Len(candidates)]
        BY <2>9, <2>10, <2>11, <2>12, <3>4
      <4> QED
        BY <2>7, <4>1
    <3> QED
      BY <2>9, <2>11, <3>1, <3>2, <3>3, <3>4
  <2>13. Distinct(all, C)
    BY <2>10, <2>12 DEF Distinct
  <2>14. Chosen(RetrieveCases(all, q, h, limit), q, limit, C)
    <3>1. Qualified(C)
      BY LibraryFits DEF C
    <3> QED
      BY <2>13, <3>1, RetrieveCasesFits
  <2> QED
    BY <2>1, <2>14 DEF C
<1> QED
  BY <1>1, <1>2
-----------------------------------------------------------------------------
(* The graph once more: types, and the cases it carries.                   *)

Collecting == {"idle", "parse", "route", "explain", "ddl", "collected", "blocked", "failed"}

Composing == {"retrieve", "generate", "fallback", "done"}

(* What SqlTypeOK says of the statement and the envelope; nothing is in    *)
(* the envelope before the router was asked.                               *)
Shaped ==
  /\ step \in Collecting \cup Composing
  /\ stated \in Statements /\ schema_name \in Schemas \cup {NoSchema}
  /\ tables \subseteq Target
  /\ step \in {"idle", "parse", "route", "failed"} => evidence = NoEvidence
  /\ evidence.route # NoRoute => evidence.problem = "none"

(* The cases fit the query; what the filters look at is the same for every *)
(* query of a statement.                                                   *)
Retrieved ==
  /\ debug = cases /\ hits \subseteq Findable
  /\ step \notin {"generate", "fallback", "done"} => cases = <<>>
  /\ step \in Composing =>
       /\ Askable(query)
       /\ query.version = CaseQuery({}).version /\ query.scenario = CaseQuery({}).scenario
  /\ Chosen(cases, query, 3, ToSet(Library))
  /\ step \in {"generate", "done"} => cases = Retrieve(Library, query, hits, 3)
  /\ report.from = "fallback" => step = "done" /\ debug = report.cases

LEMMA StatedTargets == \A S \in Statements : S \subseteq Target
BY DEF Statements, kSubset

LEMMA ShapedInit == SqlInit => Shaped
<1> SUFFICES ASSUME SqlInit PROVE Shaped
  OBVIOUS
<1>1. {} \in Statements
  <2>1. {} \in kSubset(0, Target)
    BY FS_EmptySet DEF kSubset
  <2> QED
    BY <2>1 DEF Statements
<1> QED
  BY <1>1 DEF SqlInit, Shaped, Collecting, NoEvidence

LEMMA ShapedStep ==
  ASSUME Inv, Shaped, [SqlNext]_sqlVars
  PROVE  Shaped'
<1> USE DEF Shaped
<1>1. CASE Submit
  BY <1>1 DEF Submit, collected, Collecting
<1>2. CASE ParseFails \/ MetadataDown
  BY <1>2 DEF ParseFails, MetadataDown, Fail, input, collected, Collecting
<1>3. CASE ResolveTables
  <2>1. Asked \subseteq Target
    BY StatedTargets, AskedAreTargets
  <2> QED
    BY <1>3, <2>1 DEF ResolveTables, input, Collecting
<1>4. CASE Route
  <2>1. step = "route" /\ tables = Asked /\ metadata \in Metadata
    BY <1>4 DEF Route, Inv, Looked, Given
  <2>2. stated' = stated /\ schema_name' = schema_name
    BY <1>4 DEF Route, input
  <2>3. CASE Found.route = NoRoute
    <3>1. evidence' = Unlocated(Found.problem) /\ step' = "collected" /\ tables' = tables
      BY <1>4, <2>1, <2>3 DEF Route, Found
    <3>2. Unlocated(Found.problem).route = NoRoute
      BY DEF Unlocated, NoEvidence
    <3> QED
      BY <2>2, <3>1, <3>2 DEF Collecting
  <2>4. CASE Found.route # NoRoute
    <3>1. /\ evidence' = [NoEvidence EXCEPT !.route = Found.route]
          /\ tables' = Found.resolved /\ step' = "explain"
      BY <1>4, <2>1, <2>4 DEF Route, Found
    <3>2. evidence'.problem = "none"
      BY <3>1 DEF NoEvidence
    <3>3. Found.resolved \subseteq Target
      <4>1. Catalog(metadata)
        BY <2>1, MetadataIsCatalog
      <4>2. PICK c : /\ Found.resolved = Resolved(Asked, c)
                     /\ HoldsAll(Enabled(metadata), Asked, Found.route.instance, c)
        BY <2>4, <4>1, RouteServes DEF Found
      <4>3. Asked \subseteq Target
        BY StatedTargets, AskedAreTargets
      <4>4. \A t \in Asked : t.schema = NoSchema => c \in Schemas
        BY <4>2 DEF HoldsAll
      <4>5. \A t \in Asked : t.schema = NoSchema => [t EXCEPT !.schema = c] \in Target
        BY <4>3, <4>4 DEF Target
      <4> QED
        BY <4>2, <4>3, <4>5 DEF Resolved
    <3> QED
      BY <2>2, <3>1, <3>2, <3>3 DEF Collecting
  <2> QED
    BY <2>3, <2>4
<1>5. CASE \E plan \in {"none", "scan", "indexed"} : Explain(plan)
  <2> PICK plan \in {"none", "scan", "indexed"} : Explain(plan)
    BY <1>5
  <2>1. /\ step' = "ddl" /\ UNCHANGED <<stated, schema_name, tables>>
        /\ evidence' = [evidence EXCEPT !.plan = plan,
                    !.missing = @ \cup IF plan = "none" THEN {"explain_json"} ELSE {}]
        /\ evidence = Envelope(evidence.route, "none", {})
    BY Zenon DEF Explain, Inv, Told, input
  <2>2. evidence'.problem = "none"
    BY <2>1 DEF Envelope
  <2> QED
    BY <2>1, <2>2 DEF Collecting
<1>6. CASE \E shown \in SUBSET tables : ShowCreateTables(shown)
  <2> PICK shown \in SUBSET tables : ShowCreateTables(shown)
    BY <1>6
  <2> DEFINE ddl == IF shown = tables THEN tables ELSE {}
  <2>1. /\ step' = "collected" /\ UNCHANGED <<stated, schema_name, tables>>
        /\ evidence' = [evidence EXCEPT !.ddl = ddl, !.status = StatusOf(evidence.plan, ddl),
                        !.missing = @ \cup IF shown = tables THEN {} ELSE {"create_table"}]
        /\ evidence = Envelope(evidence.route, read.plan, Missing(read.plan, TRUE))
    BY Zenon DEF ShowCreateTables, Inv, Told, input
  <2>2. evidence'.problem = "none"
    BY <2>1 DEF Envelope
  <2> QED
    BY <2>1, <2>2 DEF Collecting
<1>7. CASE EndBlocked
  BY <1>7 DEF EndBlocked, input, collected, Collecting
<1>8. CASE AnswerSchema
  BY <1>8 DEF AnswerSchema, Collecting, NoEvidence
<1>9. CASE \E gateway \in BOOLEAN, roots \in SUBSET {"stats_stale"} : Diagnose(gateway, roots)
  BY <1>9 DEF Diagnose, collected, Composing
<1>10. CASE \E found \in SUBSET Findable : RetrieveForQwen(found) \/ ComposeFallback(found)
  BY <1>10 DEF RetrieveForQwen, ComposeFallback, input, collected, Composing
<1>11. CASE (\E own \in {<<>>, <<NewCase>>} : QwenReport(own)) \/ QwenReportFails
  BY <1>11 DEF QwenReport, QwenReportFails, input, collected, Composing
<1>12. CASE UNCHANGED sqlVars
  BY <1>12 DEF sqlVars
<1> QED
  BY <1>1, <1>2, <1>3, <1>4, <1>5, <1>6, <1>7, <1>8, <1>9, <1>10, <1>11, <1>12 DEF SqlNext

LEMMA QueryFits ==
  ASSUME NEW roots \in SUBSET {"stats_stale"}
  PROVE  /\ Askable(CaseQuery(roots))
         /\ CaseQuery(roots).version = CaseQuery({}).version
         /\ CaseQuery(roots).scenario = CaseQuery({}).scenario
<1>1. /\ CaseQuery(roots).scenario \in SUBSET {"where_filter", "join"}
      /\ CaseQuery(roots).roots \in SUBSET {"stats_stale", "missing_index"}
  BY DEF CaseQuery
<1>2. IsFiniteSet({"where_filter", "join"}) /\ IsFiniteSet({"stats_stale", "missing_index"})
  <2>1. /\ IsFiniteSet({"where_filter"} \cup {"join"})
        /\ IsFiniteSet({"stats_stale"} \cup {"missing_index"})
    BY FS_Singleton, FS_AddElement
  <2>2. /\ {"where_filter"} \cup {"join"} = {"where_filter", "join"}
        /\ {"stats_stale"} \cup {"missing_index"} = {"stats_stale", "missing_index"}
    OBVIOUS
  <2> QED
    BY <2>1, <2>2
<1>3. Askable(CaseQuery(roots))
  BY <1>1, <1>2, FS_Subset DEF Askable
<1> QED
  BY <1>3 DEF CaseQuery

(* The hard filters look at the version and the scenario only.             *)
LEMMA ChosenForBoth ==
  ASSUME NEW p, NEW q, p.version = q.version, p.scenario = q.scenario,
         NEW s, NEW C, Chosen(s, p, 3, C)
  PROVE  Chosen(s, q, 3, C)
<1>1. \A c : PassesHardFilters(p, c) <=> PassesHardFilters(q, c)
  BY DEF PassesHardFilters
<1> QED
  BY <1>1 DEF Chosen

LEMMA NoneChosen == \A q, C : Chosen(<<>>, q, 3, C)
<1>1. \A r : {i \in DOMAIN <<>> : <<>>[i].roots = r} = {}
  OBVIOUS
<1>2. Varied(<<>>)
  BY <1>1, FS_EmptySet DEF Varied, MaxSameRootCause
<1> QED
  BY <1>2 DEF Chosen, Distinct

LEMMA RetrievedInit == SqlInit => Retrieved
<1> SUFFICES ASSUME SqlInit PROVE Retrieved
  OBVIOUS
<1>1. Chosen(<<>>, query, 3, ToSet(Library))
  BY NoneChosen
<1> QED
  BY <1>1 DEF SqlInit, Retrieved, Composing, NoReport

LEMMA RetrievedStep ==
  ASSUME Inv, Retrieved, [SqlNext]_sqlVars
  PROVE  Retrieved'
<1> DEFINE C == ToSet(Library)
<1>0. report.from # "fallback" \/ step = "done"
  BY DEF Retrieved
<1>1. CASE Submit \/ ParseFails \/ MetadataDown \/ ResolveTables \/ Route
  <2>1. /\ UNCHANGED <<retrieval, report>> /\ step # "done"
        /\ step' \notin Composing /\ step \notin Composing
    BY <1>1 DEF Submit, ParseFails, MetadataDown, Fail, ResolveTables, Route, Composing
  <2> QED
    BY <1>0, <2>1 DEF Retrieved, retrieval, Composing
<1>2. CASE (\E plan \in {"none", "scan", "indexed"} : Explain(plan))
             \/ (\E shown \in SUBSET tables : ShowCreateTables(shown))
  <2>1. /\ UNCHANGED <<retrieval, report>> /\ step # "done"
        /\ step' \notin Composing /\ step \notin Composing
    <3>1. ASSUME NEW plan, Explain(plan)
          PROVE  UNCHANGED <<retrieval, report>> /\ step = "explain" /\ step' = "ddl"
      BY <3>1, Zenon DEF Explain
    <3>2. ASSUME NEW shown, ShowCreateTables(shown)
          PROVE  UNCHANGED <<retrieval, report>> /\ step = "ddl" /\ step' = "collected"
      BY <3>2, Zenon DEF ShowCreateTables
    <3> QED
      BY <1>2, <3>1, <3>2 DEF Composing
  <2> QED
    BY <1>0, <2>1 DEF Retrieved, retrieval, Composing
<1>3. CASE EndBlocked \/ AnswerSchema
  <2>1. /\ UNCHANGED <<retrieval, report>> /\ step # "done"
        /\ step' \notin Composing /\ step \notin Composing
    BY <1>3 DEF EndBlocked, AnswerSchema, Composing
  <2> QED
    BY <1>0, <2>1 DEF Retrieved, retrieval, Composing
<1>4. CASE \E gateway \in BOOLEAN, roots \in SUBSET {"stats_stale"} : Diagnose(gateway, roots)
  <2> PICK gateway \in BOOLEAN, roots \in SUBSET {"stats_stale"} : Diagnose(gateway, roots)
    BY <1>4
  <2>1. /\ step = "collected" /\ query' = CaseQuery(roots) /\ debug' = <<>>
        /\ step' \in {"retrieve", "fallback"}
        /\ UNCHANGED <<stated, evidence, cases, hits, report>>
    BY DEF Diagnose, collected
  <2>2. cases = <<>>
    BY <2>1 DEF Retrieved
  <2>3. CaseQuery({})' = CaseQuery({})
    BY <2>1 DEF CaseQuery
  <2>4. Chosen(cases', query', 3, C)
    BY <2>1, <2>2, NoneChosen
  <2>5. /\ Askable(query') /\ query'.version = CaseQuery({})'.version
        /\ query'.scenario = CaseQuery({})'.scenario
    BY <2>1, <2>3, QueryFits
  <2>6. debug' = cases' /\ cases' = <<>> /\ hits' \subseteq Findable
    BY <2>1, <2>2 DEF Retrieved
  <2>7. step' \notin {"generate", "done"} /\ report'.from # "fallback"
    BY <1>0, <2>1
  <2> QED
    BY <2>4, <2>5, <2>6, <2>7 DEF Retrieved
<1>5. CASE \E found \in SUBSET Findable : RetrieveForQwen(found) \/ ComposeFallback(found)
  <2> PICK found \in SUBSET Findable : RetrieveForQwen(found) \/ ComposeFallback(found)
    BY <1>5
  <2>1. /\ step \in {"retrieve", "fallback"} /\ step' \in {"generate", "done"}
        /\ hits' = found /\ cases' = Retrieve(Library, query, found, 3) /\ debug' = cases'
        /\ UNCHANGED <<stated, evidence, query>>
    BY DEF RetrieveForQwen, ComposeFallback, SelectCases, input, collected
  <2>2. CaseQuery({})' = CaseQuery({})
    BY <2>1 DEF CaseQuery
  <2>3. /\ Askable(query) /\ query.version = CaseQuery({}).version
        /\ query.scenario = CaseQuery({}).scenario
    BY <2>1 DEF Retrieved, Composing
  <2>4. Chosen(cases', query', 3, C)
    BY <2>1, <2>3, RetrieveFits
  <2>5. report'.from = "fallback" => step' = "done" /\ report'.cases = cases'
    <3>1. CASE RetrieveForQwen(found)
      BY <1>0, <2>1, <3>1 DEF RetrieveForQwen
    <3>2. CASE ComposeFallback(found)
      BY <3>2 DEF ComposeFallback
    <3> QED
      BY <3>1, <3>2
  <2> QED
    BY <2>1, <2>2, <2>3, <2>4, <2>5 DEF Retrieved
<1>6. CASE \E own \in {<<>>, <<NewCase>>} : QwenReport(own)
  <2>1. /\ step = "generate" /\ step' = "done" /\ report'.from = "qwen"
        /\ UNCHANGED <<stated, evidence, query, cases, debug, hits>>
    BY <1>6 DEF QwenReport, NoReport, input, collected, retrieval
  <2>2. CaseQuery({})' = CaseQuery({})
    BY <2>1 DEF CaseQuery
  <2> QED
    BY <2>1, <2>2 DEF Retrieved, Composing
<1>7. CASE QwenReportFails
  <2>1. /\ step = "generate" /\ step' = "fallback" /\ query' = CaseQuery({})
        /\ UNCHANGED <<stated, evidence, cases, debug, hits, report>>
    BY <1>7 DEF QwenReportFails, input, collected
  <2>2. CaseQuery({})' = CaseQuery({})
    BY <2>1 DEF CaseQuery
  <2>3. Askable(CaseQuery({}))
    BY QueryFits
  <2>4. query.version = query'.version /\ query.scenario = query'.scenario
    BY <2>1 DEF Retrieved, Composing
  <2>5. Chosen(cases, query, 3, C)
    BY DEF Retrieved
  <2>6. Chosen(cases', query', 3, C)
    <3> HIDE DEF C
    <3> QED
      BY <2>1, <2>4, <2>5, ChosenForBoth
  <2> QED
    BY <1>0, <2>1, <2>2, <2>3, <2>6 DEF Retrieved, Composing
<1>8. CASE UNCHANGED sqlVars
  <2>1. CaseQuery({})' = CaseQuery({})
    BY <1>8 DEF sqlVars, CaseQuery
  <2> QED
    BY <1>8, <2>1 DEF sqlVars, Retrieved
<1> QED
  BY <1>1, <1>2, <1>3, <1>4, <1>5, <1>6, <1>7, <1>8 DEF SqlNext

LEMMA CasesInvariance == SqlSpec => [](Inv /\ Shaped /\ Retrieved)
<1>1. SqlInit => Inv /\ Shaped /\ Retrieved
  BY InitInv, ShapedInit, RetrievedInit
<1>2. Inv /\ Shaped /\ Retrieved /\ [SqlNext]_sqlVars => (Inv /\ Shaped /\ Retrieved)'
  BY StepInv, ShapedStep, RetrievedStep
<1> QED
  BY <1>1, <1>2, PTL DEF SqlSpec

(* The variables of the graph keep their types: whichever way a statement  *)
(* takes, the envelope is complete when the collection ends, and no case   *)
(* is made up.                                                             *)
THEOREM SqlTypeCorrect == SqlSpec => []SqlTypeOK
<1>1. Inv /\ Shaped /\ Retrieved => SqlTypeOK
  <2> SUFFICES ASSUME Inv, Shaped, Retrieved PROVE SqlTypeOK
    OBVIOUS
  <2>1. ToSet(cases) \cup ToSet(debug) \subseteq ToSet(Library)
    <3> DEFINE C == ToSet(Library)
    <3>1. cases \in Seq(C) /\ debug = cases
      BY DEF Retrieved, Chosen, Distinct
    <3> HIDE DEF C
    <3>2. \A i \in DOMAIN cases : cases[i] \in C
      BY <3>1, LenProperties, ElementOfSeq
    <3> QED
      BY <3>1, <3>2 DEF ToSet, C
  <2>2. \A plan, ddl : StatusOf(plan, ddl) \in {"full", "partial", "sql_only"}
    BY DEF StatusOf
  <2>3. \A plan, complete :
          Missing(plan, complete) \subseteq {"route_info", "explain_json", "create_table"}
    BY DEF Missing
  <2>4. ASSUME step \in {"collected", "blocked", "retrieve", "generate", "fallback", "done"}
        PROVE  /\ evidence.status \in {"full", "partial", "sql_only"}
               /\ evidence.missing \subseteq {"route_info", "explain_json", "create_table"}
    <3>1. CASE evidence.route = NoRoute
      BY <2>4, <3>1 DEF Inv, Told
    <3>2. CASE evidence.route # NoRoute
      <4>1. /\ evidence.missing = Missing(read.plan, read.ddl = tables)
            /\ evidence.status = StatusOf(read.plan, IF read.ddl = tables THEN tables ELSE {})
        BY <2>4, <3>2 DEF Inv, Told
      <4> QED
        BY <2>2, <2>3, <4>1
    <3> QED
      BY <3>1, <3>2
  <2>5. ASSUME step \in {"idle", "parse", "route", "failed", "explain", "ddl"}
        PROVE  /\ evidence.status = "none"
               /\ evidence.missing \subseteq {"route_info", "explain_json", "create_table"}
    <3>1. CASE step \in {"idle", "parse", "route", "failed"}
      <4>1. evidence = NoEvidence
        BY <3>1 DEF Shaped
      <4> QED
        BY <4>1 DEF NoEvidence
    <3>2. CASE step = "explain"
      <4>1. evidence = Envelope(evidence.route, "none", {})
        BY <3>2 DEF Inv, Told
      <4>2. evidence.status = "none" /\ evidence.missing = {}
        BY <4>1 DEF Envelope
      <4> QED
        BY <4>2
    <3>3. CASE step = "ddl"
      <4> DEFINE gap == Missing(read.plan, TRUE)
      <4>1. evidence = Envelope(evidence.route, read.plan, gap)
        BY <3>3 DEF Inv, Told
      <4>2. gap \subseteq {"route_info", "explain_json", "create_table"}
        BY <2>3
      <4> HIDE DEF gap
      <4>3. evidence.status = "none" /\ evidence.missing = gap
        BY <4>1 DEF Envelope
      <4> QED
        BY <4>2, <4>3
    <3> QED
      BY <2>5, <3>1, <3>2, <3>3
  <2>6. step \in Collecting \cup Composing
    BY DEF Shaped
  <2>7. /\ evidence.status \in
             IF step \in {"collected", "blocked", "retrieve", "generate", "fallback", "done"}
             THEN {"full", "partial", "sql_only"} ELSE {"none", "sql_only"}
        /\ evidence.missing \subseteq {"route_info", "explain_json", "create_table"}
    <3>1. CASE step \in {"collected", "blocked", "retrieve", "generate", "fallback", "done"}
      BY <2>4, <3>1
    <3>2. CASE step \in {"idle", "parse", "route", "failed", "explain", "ddl"}
      BY <2>5, <3>2
    <3> QED
      BY <2>6, <3>1, <3>2 DEF Collecting, Composing
  <2> QED
    BY <2>1, <2>6, <2>7 DEF SqlTypeOK, Shaped, Retrieved, Collecting, Composing
<1> QED
  BY <1>1, CasesInvariance, PTL

(* Whatever the library and whatever the vector search returns, the cases  *)
(* shown fit the statement, are different, at most three, at most two of   *)
(* one root cause, and are those that are recorded.                        *)
THEOREM CasesFit == SqlSpec => []CasesAreRelevant
<1>1. Retrieved => CasesAreRelevant
  <2> SUFFICES ASSUME Retrieved PROVE CasesAreRelevant
    OBVIOUS
  <2>1. /\ Distinct(cases, ToSet(Library)) /\ Len(cases) <= 3 /\ Varied(cases)
        /\ \A i \in DOMAIN cases : PassesHardFilters(query, cases[i])
    BY DEF Retrieved, Chosen
  <2>2. \A i \in DOMAIN cases :
          cases[i].roots # {} => Cardinality(SameRoot(cases, cases[i])) <= 2
    BY <2>1 DEF Varied, SameRoot, MaxSameRootCause
  <2> QED
    BY <2>1, <2>2 DEF Retrieved, CasesAreRelevant, Distinct
<1> QED
  BY <1>1, CasesInvariance, PTL

(* Without the vectors the rules alone decide, however many candidates the *)
(* retriever asks for in case there were hits.                             *)
THEOREM RulesDecideWithoutHits == SqlSpec => []WithoutHitsRulesDecide
<1>1. Retrieved => WithoutHitsRulesDecide
  <2> SUFFICES ASSUME Retrieved, step \in {"generate", "done"}, hits = {}
               PROVE  cases = RetrieveCases(Library, query, {}, 3)
    BY DEF WithoutHitsRulesDecide
  <2>1. Askable(query) /\ cases = Retrieve(Library, query, {}, 3)
    BY DEF Retrieved, Composing
  <2> QED
    BY <2>1, RulesDecide
<1> QED
  BY <1>1, CasesInvariance, PTL
=============================================================================
