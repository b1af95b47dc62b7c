-------------------------- MODULE MCImportPipeline --------------------------
(* Instances of ImportPipeline for TLC: projectP that requests change,      *)
(* and projectQ whose ingestion of the same book waits.  Unit 4 is the      *)
(* milestone the first request makes.                                       *)
EXTENDS ImportPipeline, TLC

CONSTANTS projectP, projectQ

Call(k) == [NoCall EXCEPT !.kind = k, !.project = projectP]
MCCalls ==
    {[Call("createProject") EXCEPT !.books = {1}, !.files = TRUE],
     [Call("import") EXCEPT !.books = {1}, !.files = TRUE],
     [Call("createMilestone") EXCEPT !.books = {1}],
     [Call("update") EXCEPT !.unit = 4, !.move = {1}, !.target = 3],
     [Call("update") EXCEPT !.unit = 2, !.books = {1}],
     Call("cascade")}

MCInitial ==
    {[projects |-> {projectP, projectQ}, units |-> (1 :> projectQ @@ 2 :> projectP @@ 3 :> projectP), links |-> (<<1, 1>> :> "active"), ingested |-> {},
      jobs |-> {Ingest({1}, None, 1, Retries)}]}
RequestSymmetry == Permutations(Requests)
=============================================================================
