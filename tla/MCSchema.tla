------------------------------ MODULE MCSchema -------------------------------
(* Instances of RangeRead and MetaCatalog for TLC, explored one or the     *)
(* other: an instance moves only while the other one is in its initial     *)
(* state.                                                                  *)
(*                                                                         *)
(* The extended instance scans partitioned tables.  C runs DDL statements  *)
(* on one worker and other statements on a second one; its two DDL         *)
(* sessions are interchangeable.                                           *)
EXTENDS MCRangeRead, TLC

CONSTANTS d1, d2    \* DDL sessions: model values

VARIABLES meta, disk, pos, lock, ddl, stmt, cache, info, logged, phase, acked,
          tried, c_used

cvars == <<meta, disk, pos, lock, ddl, stmt, cache, info, logged, phase, acked,
           tried, c_used>>

C == INSTANCE MetaCatalog WITH
         Worker <- {1, 2}, DdlSession <- {d1, d2}, StmtSession <- {"q1"},
         Home <- [s \in {d1, d2, "q1"} |-> IF s = "q1" THEN 2 ELSE 1],
         Name <- {"t"}, Rule <- {"r"}, FsName <- {"f"}, Partition <- {"p"},
         PlanCacheShardCapacity <- 1,
         MaxDdl <- 3, MaxPlace <- 1, MaxFaults <- 1, MaxCrashes <- 1,
         used <- c_used

MCSymmetry == Permutations({d1, d2})

MCInit == Init /\ C!Init

MCNext ==
    \/ C!Init /\ Next /\ UNCHANGED cvars
    \/ Init /\ table = Split /\ C!Next /\ UNCHANGED vars

MCSpec == MCInit /\ [][MCNext]_<<vars, cvars>>

------------------------------------------------------------------------------
\* Between two DDL statements every worker has the same maps and the same version, and, as
\* long as no catalog write of a table has failed, finds a table by its name exactly when it
\* finds it by its id.
CatalogsAgree == C!CatalogsAgree

\* A plan the cache would give out names the table its statement would be bound to now,
\* whatever the order of binds, inserts and DDL of other workers.
PlanFresh == C!PlanFresh

\* A DDL statement that was reported is in every worker's maps, before and after every
\* crash, until it is undone, unless its row was written behind the hole a failed flush has
\* left in the catalog's log (schema_catalog.rs: "so the DDL is durable when it returns").
DdlDurable == C!DdlDurable

==============================================================================
