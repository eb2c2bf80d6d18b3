---------------------------- MODULE GraphQueries ----------------------------
(***************************************************************************)
(* Reading the knowledge graph.  Every request reads the tables from the   *)
(* files of the indexing tool, which writes them one after the other, so   *)
(* that a client that pages may find them changed.  Two clients are        *)
(* modelled: one of the REST route of the entities, which counts offsets   *)
(* up to total_count, and one of the GraphQL field relationships, which    *)
(* sends endCursor back for as long as there is a next page.  The analyses *)
(* of a table are operators.                                               *)
(***************************************************************************)
EXTENDS Integers, Sequences, FiniteSets, SequencesExt, FiniteSetsExt, Selection

CONSTANTS
  EntityTables,    \* possible contents of create_final_entities: sequences of
                   \* [id, title, type, degree, created] without a repeated id or title
  RelationTables,  \* of create_final_relationships: sequences of [id, source, target, weight]
  PageSizes,
  MaxPages,        \* bound: pages a client asks for
  MaxWrites        \* bound: tables written

GraphAssumption ==
  /\ PageSizes \subseteq Nat \ {0} /\ MaxPages \in Nat /\ MaxWrites \in Nat
  /\ \A t \in EntityTables \cup RelationTables : t \in Seq(ToSet(t))
  /\ \A t \in EntityTables : \A m, n \in DOMAIN t : m # n => t[m].id # t[n].id /\ t[m].title # t[n].title
  /\ \A t \in EntityTables : \A n \in DOMAIN t : {t[n].degree, t[n].created} \subseteq Nat
  /\ \A t \in RelationTables : \A m, n \in DOMAIN t : m # n => t[m].id # t[n].id
  /\ \A t \in RelationTables : \A n \in DOMAIN t : t[n].weight \in Nat

VARIABLES
  entities, relations,  \* the tables
  rest, graphql,        \* what each client has read
  writes                \* history: how many tables have been written

vars == <<entities, relations, rest, graphql, writes>>

\* A client: its page size, the offset it asks for next, the rows it was given, the
\* pages that took, whether it has come to the end, and when it began.
Client == [size : PageSizes, offset : Nat, seen : Seq(UNION {ToSet(t) : t \in EntityTables \cup RelationTables}),
           pages : 0..MaxPages, over : BOOLEAN, since : 0..MaxWrites]

Start(size) == [size |-> size, offset |-> 0, seen |-> <<>>, pages |-> 0, over |-> FALSE, since |-> writes]

---------------------------------------------------------------------------
(* Paging.                                                                 *)

\* iloc[offset : offset + limit].
Page(table, offset, limit) == SubSeq(table, offset + 1, Min({offset + limit, Len(table)}))

\* query_entities of the REST route: its filters never reach the query.
GetEntities(c) ==
  LET page == Page(entities, c.offset, c.size) IN
  [c EXCEPT !.seen = @ \o page, !.pages = @ + 1, !.offset = @ + c.size,
            !.over = c.offset + c.size >= Len(entities)]

\* Mutant: an end of the page that is the last row but one is taken for the end.
HasNextButOne(c) == c.offset + c.size + 1 < Len(relations)

HasNext(c) == c.offset + c.size < Len(relations)

\* The field relationships.  The cursor of a row is its index, and what is sent back is
\* taken for an offset, so that a page begins with the last row of the one before; a
\* client of pages of one row is given the first row for ever.
Relationships(c) ==
  LET page == Page(relations, c.offset, c.size) IN
  [c EXCEPT !.seen = @ \o page, !.pages = @ + 1,
            !.offset = IF page = <<>> THEN c.offset ELSE c.offset + Len(page) - 1,
            !.over = ~HasNext(c)]

RestPage ==
  /\ ~rest.over /\ rest.pages < MaxPages
  /\ rest' = GetEntities(rest)
  /\ UNCHANGED <<entities, relations, graphql, writes>>

ConnectionPage ==
  /\ ~graphql.over /\ graphql.pages < MaxPages
  /\ graphql' = Relationships(graphql)
  /\ UNCHANGED <<entities, relations, rest, writes>>

\* The indexing tool writes a table.
WriteEntities ==
  /\ writes < MaxWrites
  /\ entities' \in EntityTables
  /\ writes' = writes + 1
  /\ UNCHANGED <<relations, rest, graphql>>

WriteRelations ==
  /\ writes < MaxWrites
  /\ relations' \in RelationTables
  /\ writes' = writes + 1
  /\ UNCHANGED <<entities, rest, graphql>>

\* A client that has come to the end begins again.
BeginAgain ==
  /\ \E size \in PageSizes :
       \/ rest.over /\ rest' = Start(size) /\ UNCHANGED graphql
       \/ graphql.over /\ graphql' = Start(size) /\ UNCHANGED rest
  /\ UNCHANGED <<entities, relations, writes>>

Init ==
  /\ writes = 0
  /\ entities \in EntityTables /\ relations \in RelationTables
  /\ \E size \in PageSizes : rest = Start(size)
  /\ \E size \in PageSizes : graphql = Start(size)

Next == RestPage \/ ConnectionPage \/ WriteEntities \/ WriteRelations \/ BeginAgain

Spec == Init /\ [][Next]_vars

---------------------------------------------------------------------------
(* Analyses.                                                               *)

Titles(rows) == {row.title : row \in rows}

\* nlargest(limit, "degree"): the rows of greatest degree, of equal ones the first.
Largest(limit) ==
  LET order == Sorting([n \in DOMAIN entities |-> -entities[n].degree])
  IN {entities[order[n]] : n \in 1..Min({limit, Len(entities)})}

\* Mutant: a relationship is drawn when its source is.
DrawnBySource(nodes, limit) ==
  Page(Selected(relations, {n \in DOMAIN relations : relations[n].source \in Titles(nodes)}), 0, limit)

\* The relationships between drawn entities.
Drawn(nodes, limit) ==
  LET joining == {n \in DOMAIN relations : {relations[n].source, relations[n].target} \subseteq Titles(nodes)}
  IN Page(Selected(relations, joining), 0, limit)

\* generate_visualization: nodes are named by their titles, as the ends of edges are.
GenerateVisualization(entityLimit, relationLimit) ==
  LET nodes == Largest(entityLimit) IN
  [nodes |-> {[id |-> row.title, label |-> row.title] : row \in nodes},
   edges |-> Drawn(nodes, relationLimit)]

\* create_visualization, the REST route: the first of each table, with the nodes named
\* by their ids.
CreateVisualization(entityLimit, relationLimit) ==
  [nodes |-> {[id |-> row.id, label |-> row.title] : row \in ToSet(Page(entities, 0, entityLimit))},
   edges |-> Page(relations, 0, relationLimit)]

\* perform_clustering: the number of clusters that is asked for or, when none is (0
\* here), one for every five entities, at most ten.
NumClusters(asked) == IF asked = 0 THEN Min({10, Max({1, Len(entities) \div 5})}) ELSE asked

\* Mutant: the last cluster has the size of the others.
ClusterEven(i, k) ==
  LET size == Max({1, Len(entities) \div k}) IN Page(entities, i * size, size)

\* _simple_clustering: the cluster i of k, from 0; the last takes what is left.
Cluster(i, k) ==
  LET size == Max({1, Len(entities) \div k}) IN
  Page(entities, i * size, IF i < k - 1 THEN size ELSE Len(entities))

\* _simple_community_detection: an entity type is a community.
Community(type) == Selected(entities, {n \in DOMAIN entities : entities[n].type = type})

\* entity_types of get_graph_statistics.
EntityTypes == [type \in {entities[n].type : n \in DOMAIN entities} |->
                  Cardinality({n \in DOMAIN entities : entities[n].type = type})]

---------------------------------------------------------------------------
(* Properties.                                                             *)

TypeOK ==
  /\ entities \in EntityTables /\ relations \in RelationTables
  /\ rest \in Client /\ graphql \in Client
  /\ writes \in 0..MaxWrites

\* A client that has come to the end of a table nobody wrote in the meantime has seen
\* every row, in the order of the table: of the REST route once, of the GraphQL field
\* with the last row of each page again at the head of the next.
PagesComplete ==
  /\ rest.over /\ rest.since = writes => rest.seen = entities
  /\ graphql.over /\ graphql.since = writes =>
       /\ ToSet(graphql.seen) = ToSet(relations)
       /\ Len(graphql.seen) + 1 = Len(relations) + graphql.pages

\* The tables come from one run of the indexing tool.
Matching == \A n \in DOMAIN relations : {relations[n].source, relations[n].target} \subseteq Titles(ToSet(entities))

\* The edges of a drawing join its nodes, also when the tables are of different runs of
\* the indexing tool, and no entity left out has a greater degree than one drawn.  The
\* drawing of the REST route does so only when it is of the whole of two matching
\* tables, and then by the labels of its nodes, not by their ids.
DrawingsClosed ==
  \A limit \in 1..(Len(entities) + 1), most \in 1..(Len(relations) + 1) :
    LET drawing == GenerateVisualization(limit, most)
        route == CreateVisualization(limit, most)
        NodeIds(d) == {n.id : n \in d.nodes}
    IN /\ \A n \in DOMAIN drawing.edges : {drawing.edges[n].source, drawing.edges[n].target} \subseteq NodeIds(drawing)
       /\ Cardinality(drawing.nodes) = Min({limit, Len(entities)})
       /\ \A m, n \in DOMAIN entities :
            entities[m].title \in NodeIds(drawing) /\ entities[n].title \notin NodeIds(drawing)
              => entities[m].degree >= entities[n].degree
       /\ Matching /\ limit >= Len(entities) =>
            \A n \in DOMAIN route.edges :
              {route.edges[n].source, route.edges[n].target} \subseteq {m.label : m \in route.nodes}

\* Clusters, of whatever number, and communities share the entities out: none is left
\* out and none is in two; the counts of the statistics are those of the communities.
GroupsPartition ==
  /\ \A asked \in 0..(Len(entities) + 2) :
       LET k == NumClusters(asked) IN
       Flattened([n \in 1..k |-> Cluster(n - 1, k)]) = entities
  /\ \A type \in DOMAIN EntityTypes : Len(Community(type)) = EntityTypes[type]
  /\ Summed(EntityTypes) = Len(entities)

=============================================================================
