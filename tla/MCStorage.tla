------------------------------ MODULE MCStorage ------------------------------
(* Instances of WorkerRelation and FsObject for TLC, explored one or the   *)
(* other; mode says which one moves.                                       *)
(*                                                                         *)
(* "rows": the rows of a relation.  "files": FILE objects and a crash,     *)
(* without garbage collection.                                             *)
EXTENDS MCWorkerRelation

CONSTANTS Session, Row, e1

VARIABLES
    mode,
    f_next_ts, f_running, f_tx, f_lock, f_table, f_rows, f_staged_row,
    f_staged_obj, f_stmt, f_next_oid, f_fds, f_file, f_gc, f_up, f_crashes

fvars == <<
    f_next_ts, f_running, f_tx, f_lock, f_table, f_rows, f_staged_row,
    f_staged_obj, f_stmt, f_next_oid, f_fds, f_file, f_gc, f_up, f_crashes>>

F == INSTANCE FsObject WITH
         Entry <- {e1}, IsDirectory <- FALSE, MaxTs <- 3, MaxOid <- 2,
         MaxFds <- 1, GcRuns <- FALSE, MaxCrashes <- 1,
         next_ts <- f_next_ts, running <- f_running, tx <- f_tx,
         lock <- f_lock, table <- f_table, rows <- f_rows,
         staged_row <- f_staged_row, staged_obj <- f_staged_obj,
         stmt <- f_stmt, next_oid <- f_next_oid, fds <- f_fds,
         file <- f_file, gc <- f_gc, up <- f_up, crashes <- f_crashes

MCInit == mode \in {"rows", "files"} /\ Init /\ F!Init

MCNext ==
    \/ mode = "rows" /\ Next /\ UNCHANGED <<mode, fvars>>
    \/ mode = "files" /\ F!Next /\ UNCHANGED <<mode, vars>>

MCSpec == MCInit /\ [][MCNext]_<<vars, fvars, mode>>

------------------------------------------------------------------------------
(* A committed SEALED object has content that has reached the disk, also   *)
(* across a crash and the recovery scan.                                   *)
SealedHasContent == F!SealedHasContent

(* Every object id in an FS-bound column is backed by a row of _fs_object, *)
(* also when a statement read the old id before it got its lock.           *)
ReferencedHasRow == F!ReferencedHasRow
==============================================================================
