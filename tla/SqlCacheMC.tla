---------------------------- MODULE SqlCacheMC ----------------------------
(* Small instance of SqlCache: one cluster names another by its own $key,  *)
(* or the other way round; the name of a third is LIKE the second, too, and *)
(* the name of one node LIKE another.                                      *)
EXTENDS SqlCache, TLC

Names(ns) == [names |-> ns, todo |-> {}]
Call(c, s) == [names |-> {}, todo |-> {Target(c, s)}]

Clusters == {"db_1", "db-1", "GROUPS"}
LikeDef == [c \in Clusters |-> IF c = "db_1" THEN {"db_1", "db-1"} ELSE {c}]
KeysOf(f) == f @@ ("KEYS" :> Names(DOMAIN f))

(* What each database holds, and the value of every section.               *)
First ==
  ("db-1" :> ("CLUSTER" :> [Call(Self, "ALL") EXCEPT !.names = {"n_1"}] @@ "ALL" :> Names({"n-1"})))
  @@ ("db_1" :> ("CLUSTER" :> Names({"n2"}))) @@ ("GROUPS" :> ("g" :> Call("db-1", "CLUSTER")))
Second ==
  ("db-1" :> ("CLUSTER" :> Call("GROUPS", "g")))
  @@ ("db_1" :> <<>>) @@ ("GROUPS" :> ("g" :> Names({"n2"})))

Table(rows, reverse) ==
  [rows |-> [c \in Clusters |-> IF c = "GROUPS" THEN KeysOf(rows[c]) ELSE rows[c]],
   reverse |-> reverse,
   literal |-> {x \in {"CLUSTER", "ALL"} \X {"n-1", "n2"} \X Clusters :
                  x[1] \in DOMAIN rows[x[3]] /\ x[2] \in rows[x[3]][x[1]].names}]

DatabasesDef ==
  {Table(First, {<<"n-1", "CLUSTER", "db-1">>, <<"n_1", "CLUSTER", "db-1">>, <<"n-1", "ALL", "db-1">>,
                 <<"n2", "CLUSTER", "db_1">>, <<"n-1", "g", "GROUPS">>, <<"n_1", "g", "GROUPS">>}),
   Table(Second, {<<"n2", "CLUSTER", "db-1">>, <<"n2", "g", "GROUPS">>})}

Calls == {
  [fn |-> "cluster", ts |-> {Target("db-1", "CLUSTER")}], [fn |-> "cluster", ts |-> {Target("db-1", "ALL")}],
  [fn |-> "cluster", ts |-> {Target("db_1", "CLUSTER"), Target("db-1", "KEYS")}],
  [fn |-> "group", ts |-> {Target("GROUPS", "g")}],
  [fn |-> "allclusters"], [fn |-> "has", s |-> "CLUSTER", value |-> "n-1"],
  [fn |-> "mem", c |-> "db_1", node |-> "n-1"], [fn |-> "clusters", nodes |-> <<"n-1", "n2">>],
  [fn |-> "get_cluster", nodes |-> <<"n-1", "n2">>], [fn |-> "get_groups", nodes |-> <<"n2">>]}

ClusterDef == Clusters
SectionDef == {"CLUSTER", "ALL", "KEYS", "g"}
NameDef == {"n-1", "n2", "n_1"} \union SectionDef
LikeNameDef == [n \in NameDef |-> IF n = "n_1" THEN {"n_1", "n-1"} ELSE {n}]
QueriesDef == Calls

ASSUME LoaderAssumption == \A d \in Databases : ExpandedRows(d)
==========================================================================
