--------------------------- MODULE MCMetaCatalog ---------------------------
(***************************************************************************)
(* Instances of MetaCatalog for TLC.                                       *)
(***************************************************************************)
EXTENDS MetaCatalog

MCHome == [s \in Session |-> IF s \in StmtSession THEN 2 ELSE 1]
MCHomeEach == [s \in Session |-> IF s = "d2" THEN 2 ELSE 1]
=============================================================================
