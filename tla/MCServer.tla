------------------------------- MODULE MCServer ------------------------------
(* Instances of RecoveryBarrier, RingLoop and FsFd for TLC, explored one   *)
(* at a time; mode says which one moves.                                   *)
(*                                                                         *)
(* "start": worker threads at the recovery barrier.  "ring": the service   *)
(* loop of one worker.  "fd": the fd table of a session.                   *)
EXTENDS FsFd, RecoveryBarrier

CONSTANTS Conn, MaxWork, Budget

VARIABLES
    mode,
    stop, told, nudge, requests, calls, frames, shut,
    pc, shutting_down, shutdown_triggered, more_ready, polled,
    mailbox, eventfd, mailbox_read, accept,
    log_queue, flushing, flush_io, flush_due,
    ready_queue, completion_queue, op_registry, queued, notified,
    await, fired, io, timer

rvars == <<
    stop, told, nudge, requests, calls, frames, shut,
    pc, shutting_down, shutdown_triggered, more_ready, polled,
    mailbox, eventfd, mailbox_read, accept,
    log_queue, flushing, flush_io, flush_due,
    ready_queue, completion_queue, op_registry, queued, notified,
    await, fired, io, timer>>

R == INSTANCE RingLoop

mcvars == <<mode, vars, bvars, rvars>>

MCInit ==
    /\ mode \in {"fd", "start", "ring"}
    /\ Init /\ BInit /\ R!Init

FdTable(A) == mode = "fd" /\ A /\ UNCHANGED <<mode, bvars, rvars>>
Start(A) == mode = "start" /\ A /\ UNCHANGED <<mode, vars, rvars>>
Ring(A) == mode = "ring" /\ A /\ UNCHANGED <<mode, vars, bvars>>

MCNext == FdTable(Next) \/ Start(BNext) \/ Ring(R!Next)

(* The fairness of RingLoop.                                               *)
MCSpec ==
    /\ MCInit /\ [][MCNext]_mcvars
    /\ WF_mcvars(Ring(R!LoopStep))
    /\ WF_mcvars(Ring(R!Environment))

------------------------------------------------------------------------------
(* A task whose event happened or whose deadline passed, and a new         *)
(* connection or handler, is polled again: whatever thread the wake comes  *)
(* from, at whatever point of the loop, also while shutting down.          *)
WokenIsPolled == R!WokenIsPolled

(* A stop request ends the service loop, although tasks wait for clients,  *)
(* for workers that never answer and for the log, and although connections *)
(* and calls still arrive.                                                 *)
ShutdownCompletes == R!ShutdownCompletes
==============================================================================
