-------------------------- MODULE ClusterCacheMC --------------------------
(* Small instances of ClusterCache.  The text of one cluster calls range    *)
(* functions over the others, so that calls nest; the file called upon is   *)
(* rewritten, breaks, vanishes and comes back.                              *)
EXTENDS ClusterCache, TLC
CONSTANTS gone, malformed, bad

Plain(names)  == [names |-> names, calls |-> {}]
Calling(call) == [names |-> {}, calls |-> {call}]
ClusterOf(c)  == [fn |-> "cluster", ts |-> {Target(c, "CLUSTER")}]
Has(tag, v)   == [fn |-> "has", tag |-> tag, value |-> v]

WebOld == ("CLUSTER" :> Plain({"e1"})) @@ ("TAG" :> Plain({"web"}))
WebNew == ("CLUSTER" :> Plain({"e2"})) @@ ("TAG" :> bad)
TopDef == ("CLUSTER" :> Calling(ClusterOf("web"))) @@ ("TAG" :> Calling(Has("CLUSTER", "e1")))
Groups == ("g1" :> Calling(ClusterOf("web"))) @@ ("g2" :> Plain({"e2"}))

(* A cluster, one defined by it, and groups; every range function, and has *)
(* is called within has.                                                   *)
Clusters == {"top", "web", "GROUPS"}
Bodies   == ("top" :> {TopDef}) @@ ("web" :> {WebOld, WebNew, malformed}) @@ ("GROUPS" :> {Groups})
AtFirst  == ("top" :> TopDef) @@ ("web" :> WebOld) @@ ("GROUPS" :> Groups)
Calls ==
  {ClusterOf("top"), [fn |-> "cluster", ts |-> {Target("web", "NONE")}],
   Has("TAG", "web"), [fn |-> "allclusters"],
   [fn |-> "mem", c |-> "top", es |-> {"e1", "web"}],
   [fn |-> "group", es |-> {"g1", "g2"}]}
  \union [fn : {"clusters", "get_cluster", "get_groups"}, es : {{"e1", "e2"}}]

(* How deep the calls of these texts nest. *)
Nesting == [t \in AllTargets |->
              CASE t = Target("top", "TAG") -> 2
                [] t \in {Target("top", "CLUSTER"), Target("GROUPS", "g1")} -> 1
                [] OTHER -> 0]
ASSUME NestingAssumption == WellFounded(Nesting)

(* One name more, so that TLC evaluates each of these only once.           *)
ClusterDef  == Clusters
BodiesDef   == Bodies
SectionsDef == {"CLUSTER", "TAG", "NONE", "KEYS", "g1", "g2"}
QueriesDef  == Calls
FilesDef    == {[c \in Clusters |-> [mtime |-> 1, body |-> AtFirst[c]]]}
=============================================================================
