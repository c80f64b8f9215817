-------------------------- MODULE MCTimeSeriesFile --------------------------
(* Two instances of TimeSeriesFile for TLC, explored one or the other: an  *)
(* instance moves only while the other one is in its initial state.        *)
(*                                                                         *)
(* The extended instance crashes and recovers.  R reads while writers and  *)
(* flush rounds run, with failing page writes that complete in any order.  *)
EXTENDS TimeSeriesFile, TLC

CONSTANT ReadPayload

VARIABLES r_pages, r_head, r_tail, r_dirty, r_round, r_queue, r_log, r_nextLsn,
          r_disk, r_state, r_reader, r_written, r_used

rvars == <<r_pages, r_head, r_tail, r_dirty, r_round, r_queue, r_log, r_nextLsn,
           r_disk, r_state, r_reader, r_written, r_used>>

R == INSTANCE TimeSeriesFile WITH
         Ts <- {1, 2}, Payload <- {ReadPayload}, MaxCrashes <- 0, Reads <- 1,
         LogFirst <- FALSE, IoFails <- TRUE, InOrder <- FALSE,
         pages <- r_pages, head <- r_head, tail <- r_tail, dirty <- r_dirty,
         round <- r_round, queue <- r_queue, log <- r_log, nextLsn <- r_nextLsn,
         disk <- r_disk, state <- r_state, reader <- r_reader,
         written <- r_written, used <- r_used

\* Payloads are only compared, and the instances have none in common.
PayloadSymmetry == Permutations(Payload)

MCInit == Init /\ R!Init

MCNext ==
    \/ R!Init /\ Next /\ UNCHANGED rvars
    \/ Init /\ R!Next /\ UNCHANGED vars

MCSpec == MCInit /\ [][MCNext]_<<vars, rvars>>

-----------------------------------------------------------------------------
\* A get or scan_range that runs beside writers and flush rounds returns every record of its
\* range that was there all the time, nothing that was never there, and no record twice.
ReadsRightBesideWriters == R!ReadsRight

\* A page without a dirty mark is in the data file as published, though page writes fail and
\* complete in any order while writers publish newer images.
CleanIsOnDiskBesideWriters == R!CleanIsOnDisk
=============================================================================
