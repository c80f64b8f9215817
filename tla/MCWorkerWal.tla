----------------------------- MODULE MCWorkerWal -----------------------------
(* Two instances of WorkerWal for TLC, explored one or the other: an       *)
(* instance moves only while the other one is in its initial state.        *)
(*                                                                         *)
(* The extended instance runs WalSyncPolicy::Commit with group commits     *)
(* only.  P runs WalSyncPolicy::Periodic with a direct append, a two-part  *)
(* entry and failing writes.                                               *)
EXTENDS WorkerWal, TLC

CONSTANTS e1, e2, e3, e4

VARIABLES p_next_lsn, p_frame, p_status, p_log_queue, p_chunks, p_round, p_ready_lsns,
          p_next_wait_lsn, p_unsynced, p_syncing, p_fsync, p_pc, p_target, p_up, p_crashes

pvars == <<p_next_lsn, p_frame, p_status, p_log_queue, p_chunks, p_round, p_ready_lsns,
           p_next_wait_lsn, p_unsynced, p_syncing, p_fsync, p_pc, p_target, p_up, p_crashes>>

OnePart == [e \in Entry |-> 1]
FirstTwoParts == [e \in {e1, e2, e3} |-> IF e = e1 THEN 2 ELSE 1]

P == INSTANCE WorkerWal WITH
         Entry <- {e1, e2, e3}, Direct <- {e1}, Parts <- FirstTwoParts,
         Periodic <- TRUE, IoFails <- TRUE, MaxCrashes <- 1,
         next_lsn <- p_next_lsn, frame <- p_frame, status <- p_status,
         log_queue <- p_log_queue, chunks <- p_chunks, round <- p_round,
         ready_lsns <- p_ready_lsns, next_wait_lsn <- p_next_wait_lsn,
         unsynced <- p_unsynced, syncing <- p_syncing, fsync <- p_fsync, pc <- p_pc,
         target <- p_target, up <- p_up, crashes <- p_crashes

MCInit == Init /\ P!Init

MCNext ==
    \/ P!Init /\ Next /\ UNCHANGED pvars
    \/ Init /\ P!Next /\ UNCHANGED vars

MCSpec == /\ MCInit
          /\ [][MCNext]_<<vars, pvars>>
          /\ Fairness

------------------------------------------------------------------------------
(* Periodic policy: the chunk of a group commit's frame that was reported  *)
(* and is not synced stays tracked for the next fsync, whatever failed.    *)
PeriodicTracked == P!UnsyncedTracked
==============================================================================
