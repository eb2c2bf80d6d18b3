---------------------------- MODULE GraphAnalyses ----------------------------
(***************************************************************************)
(* What is computed from the tables of the knowledge graph: look-ups,      *)
(* statistics, exports, multi-hop and temporal queries, centrality and     *)
(* anomalies.  The engines of the last three look for the tables in the    *)
(* data directory itself and not in output/artifacts, as the other reads   *)
(* do; they are taken to find the same.  Scores are in hundredths,         *)
(* thresholds in tenths; 0 is a limit or a time that is not given, which   *)
(* is what the code takes an explicit 0 for.                               *)
(***************************************************************************)
EXTENDS GraphQueries

CONSTANTS
  MaxExported, \* 10000, the rows of a table in an export of the REST route
  Thresholds   \* of anomalies, in tenths

\* "direct_connection", which is the id of no relationship.
Direct == 0

AnalysesAssumption ==
  /\ MaxExported \in Nat /\ Thresholds \subseteq 0..10
  /\ \A t \in RelationTables : \A n \in DOMAIN t : t[n].id # Direct

\* get_entities and get_relationships, and the details of a query: rows by their ids.
ById(table, ids) == Selected(table, {n \in DOMAIN table : table[n].id \in ids})

---------------------------------------------------------------------------
(* Statistics.                                                             *)

\* The density as a fraction: two ways for each pair, whatever the relationships join.
Density ==
  IF Len(entities) > 1 THEN <<2 * Len(relations), Len(entities) * (Len(entities) - 1)>> ELSE <<0, 1>>

\* The estimate of connected_components.
ConnectedComponents == IF relations # <<>> THEN 1 ELSE Len(entities)

GraphStatistics ==
  [entities |-> Len(entities), relationships |-> Len(relations), types |-> EntityTypes,
   density |-> Density, components |-> ConnectedComponents]

---------------------------------------------------------------------------
(* Exports.                                                                *)

FirstOf(table, limit) == IF limit = 0 THEN table ELSE Page(table, 0, limit)

\* What an export says and what the file holds that is offered for download.
Exported(nodes, edges, file) == [entities |-> Len(nodes), relationships |-> Len(edges), file |-> file]

\* export_graph of the GraphQL mutation.  CSV goes to files beside the one that is offered.
ExportGraph(format, limit) ==
  LET nodes == FirstOf(entities, limit)
      edges == FirstOf(relations, limit)
  IN Exported(nodes, edges, IF format = "json" THEN nodes \o edges ELSE <<>>)

\* GraphML: nodes are named by their ids, the ends of edges by titles.
GraphML(nodes, edges) ==
  [n \in DOMAIN nodes |-> [node |-> nodes[n].id]] \o
  [n \in DOMAIN edges |-> [from |-> edges[n].source, to |-> edges[n].target]]

\* The REST route: the tables are queried, and so cut without a word.
Collected(table) == Page(table, 0, MaxExported)

ExportRoute(format) ==
  LET nodes == Collected(entities)
      edges == Collected(relations)
  IN Exported(nodes, edges, CASE format = "json" -> nodes \o edges
                              [] format = "graphml" -> GraphML(nodes, edges)
                              [] format = "csv" -> <<>>)

---------------------------------------------------------------------------
(* Multi-hop and temporal queries.                                         *)

\* _find_paths does not look at the relationships, nor at the hops and types asked for.
FindPaths(starts, targets) ==
  IF targets = <<>>
    THEN [n \in DOMAIN starts |-> [entities |-> <<starts[n]>>, relationships |-> <<>>]]
    ELSE [n \in 1..(Len(starts) * Len(targets)) |->
           [entities |-> <<starts[1 + (n - 1) \div Len(targets)], targets[1 + ((n - 1) % Len(targets))]>>,
            relationships |-> <<Direct>>]]

Score(path, algorithm) ==
  LET hops == Len(path.relationships) IN
  CASE algorithm = "pagerank" -> 100 \div (hops + 1)
    [] algorithm = "betweenness" -> 10 * Len(path.entities)
    [] algorithm = "closeness" -> 100 - 10 * hops
    [] OTHER -> 100

\* The best first, and equal ones in their order.
Ranked(paths, algorithm) ==
  LET order == Sorting([n \in DOMAIN paths |-> -Score(paths[n], algorithm)])
  IN [n \in DOMAIN paths |-> paths[order[n]]]

MultiHop(starts, targets, algorithm) ==
  LET paths == Ranked(FindPaths(starts, targets), algorithm)
      Named == UNION {ToSet(paths[n].entities) : n \in DOMAIN paths}
      Used == UNION {ToSet(paths[n].relationships) : n \in DOMAIN paths}
  IN [paths |-> paths, entities |-> ById(entities, Named),
      relationships |-> ById(relations, Used),
      total |-> Summed([n \in DOMAIN paths |-> Score(paths[n], algorithm)])]

\* The two filters by time, each on its own condition; the operator that is asked for
\* (within, before, after, during) is not looked at.
Since(table, from) ==
  IF from = 0 THEN table ELSE Selected(table, {n \in DOMAIN table : table[n].created >= from})
Until(table, to) ==
  IF to = 0 THEN table ELSE Selected(table, {n \in DOMAIN table : table[n].created <= to})

\* temporal_query: the relationships have no such field and are all returned.
TemporalQuery(from, to) == [entities |-> Until(Since(entities, from), to), relationships |-> relations]

---------------------------------------------------------------------------
(* Centrality and anomalies.                                               *)

\* An id is compared with the ends of relationships, which are titles.
Connections(id) == Cardinality({n \in DOMAIN relations : id \in {relations[n].source, relations[n].target}})

\* The degree centrality as a fraction.
DegreeCentrality(id) == <<Connections(id), Max({1, Len(entities) - 1})>>

CalculateCentrality == [n \in DOMAIN entities |-> DegreeCentrality(entities[n].id)]

AnomalousEntities(threshold) ==
  Selected(entities, {n \in DOMAIN entities :
    10 * CalculateCentrality[n][1] > threshold * CalculateCentrality[n][2]})

\* Ten times quantile(1 - threshold) of the weights: between two weights it is
\* interpolated.
TenQuantile(threshold) ==
  LET order == Sorting([n \in DOMAIN relations |-> relations[n].weight])
      place == (Len(relations) - 1) * (10 - threshold)
      low == relations[order[1 + place \div 10]].weight
      high == relations[order[Min({2 + place \div 10, Len(relations)})]].weight
  IN 10 * low + (high - low) * (place % 10)

\* Mutant: a weight equal to the quantile is taken for an anomaly.
HeavyOrEqual(threshold) ==
  Selected(relations, {n \in DOMAIN relations : 10 * relations[n].weight >= TenQuantile(threshold)})

AnomalousRelationships(threshold) ==
  Selected(relations, {n \in DOMAIN relations : 10 * relations[n].weight > TenQuantile(threshold)})

DetectAnomalies(threshold) ==
  [entities |-> AnomalousEntities(threshold), relationships |-> AnomalousRelationships(threshold)]

---------------------------------------------------------------------------
(* Properties.                                                             *)

\* The titles that can be reached from a title: those in every set that has it and that no
\* relationship leads out of.
Joined(a, b) == \E n \in DOMAIN relations : {relations[n].source, relations[n].target} = {a, b}
Closed(S) == \A a \in S, b \in Titles(ToSet(entities)) : Joined(a, b) => b \in S
Component(title) ==
  {b \in Titles(ToSet(entities)) :
     \A S \in SUBSET Titles(ToSet(entities)) : title \in S /\ Closed(S) => b \in S}
Components == {Component(title) : title \in Titles(ToSet(entities))}

\* No pair is joined twice, and nothing to itself.
Simple ==
  \A m, n \in DOMAIN relations :
    /\ relations[n].source # relations[n].target
    /\ m # n => {relations[m].source, relations[m].target} # {relations[n].source, relations[n].target}

\* The statistics of tables of one run of the indexing tool: no graph is said to fall into
\* more components than it does, one without relationships is said to fall into as many
\* as it does, and a density over one shows a pair that is joined twice or a loop.
StatisticsFair ==
  LET s == GraphStatistics IN
  Matching /\ entities # <<>> =>
    /\ s.components <= Cardinality(Components)
    /\ relations = <<>> => s.components = Cardinality(Components)
    /\ Simple => s.density[1] <= s.density[2]

\* The ids of the entities are not among the titles that relationships join.
IdsApart ==
  \A m \in DOMAIN entities, n \in DOMAIN relations :
    entities[m].id \notin {relations[n].source, relations[n].target}

\* An export in JSON holds what it says, which is all when no limit is given, or none
\* that is smaller than the tables; one in CSV offers an empty file, whatever it says.
\* In one in GraphML no edge joins two nodes, unless ids happen to be titles.
ExportsTold ==
  /\ \A limit \in 0..Len(entities), format \in {"json", "csv"} :
       LET x == ExportGraph(format, limit) IN
       /\ x.entities + x.relationships = (IF format = "json" THEN Len(x.file) ELSE
                                            Len(FirstOf(entities, limit)) + Len(FirstOf(relations, limit)))
       /\ format = "json" /\ limit = 0 => x.file = entities \o relations
       /\ format = "csv" => x.file = <<>>
  /\ LET x == ExportRoute("json")
         g == ExportRoute("graphml")
     IN /\ x.entities + x.relationships = Len(x.file) /\ Len(g.file) = Len(x.file)
        /\ x.file = entities \o relations <=> Max({Len(entities), Len(relations)}) <= MaxExported
        /\ IdsApart => \A m \in 1..g.entities, n \in (g.entities + 1)..Len(g.file) :
             g.file[m].node \notin {g.file[n].from, g.file[n].to}

\* A multi-hop query answers with a path for every start and target, in the order asked
\* for, scored alike and joined or not, and with the details of those entities that
\* exist and of no relationship.  A temporal query keeps exactly the entities of the
\* time asked for, and none when the times are crossed.
QueriesTold ==
  LET ids == [n \in DOMAIN entities |-> entities[n].id] \o <<99>> IN
  /\ \A algorithm \in {"pagerank", "betweenness", "closeness", "other"}, targets \in {<<>>, <<99>>, ids} :
       LET answer == MultiHop(ids, targets, algorithm) IN
       /\ Len(answer.paths) = Len(ids) * Max({1, Len(targets)})
       /\ answer.paths = FindPaths(ids, targets)
       /\ answer.entities = entities /\ answer.relationships = <<>>
       /\ answer.total = Len(answer.paths) * Score(answer.paths[1], algorithm)
  /\ \A from, to \in 0..4 :
       LET rows == TemporalQuery(from, to).entities IN
       /\ ToSet(rows) = {e \in ToSet(entities) : (from = 0 \/ from <= e.created) /\ (to = 0 \/ e.created <= to)}
       /\ from > to /\ to > 0 => rows = <<>>

\* No entity is ever central or anomalous, unless ids happen to be titles; of the
\* relationships at most the share that was asked for is, none is heavier than one that
\* is and yet left out, and a table of equal weights has none.
AnomaliesRare ==
  /\ IdsApart => \A n \in DOMAIN entities : CalculateCentrality[n][1] = 0
  /\ \A threshold \in Thresholds :
       LET found == DetectAnomalies(threshold) IN
       /\ IdsApart => found.entities = <<>>
       /\ 10 * Len(found.relationships) <= threshold * Max({0, Len(relations) - 1}) + 9
       /\ \A r, q \in ToSet(relations) :
            r \in ToSet(found.relationships) /\ q.weight >= r.weight => q \in ToSet(found.relationships)
       /\ (\A r, q \in ToSet(relations) : r.weight = q.weight) => found.relationships = <<>>

=============================================================================
