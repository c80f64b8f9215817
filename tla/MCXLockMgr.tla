----------------------------- MODULE MCXLockMgr -----------------------------
(* Two instances of XLockMgr for TLC, explored one or the other: an        *)
(* instance moves only while the other one is in its initial state.        *)
(*                                                                         *)
(* The extended instance has tasks that lock again while they hold locks,  *)
(* locks that outlive the TTL and calls that time out.  Fifo has one task  *)
(* more, whose transactions take one lock set each, with no expiry.        *)
EXTENDS XLockMgr, TLC

CONSTANTS k1, k2, FifoOid

VARIABLES f_owner, f_stale, f_queue, f_pc, f_req, f_signal, f_late, f_wakes, f_held

fvars == <<f_owner, f_stale, f_queue, f_pc, f_req, f_signal, f_late, f_wakes, f_held>>

Fifo == INSTANCE XLockMgr WITH
            Oid <- FifoOid, Nested <- FALSE, TtlFires <- FALSE, Timeouts <- FALSE,
            owner <- f_owner, stale <- f_stale, queue <- f_queue, pc <- f_pc,
            req <- f_req, signal <- f_signal, late <- f_late, wakes <- f_wakes,
            held <- f_held

(* Single-key statement locks and two-key commit lock sets, in both        *)
(* orders.                                                                 *)
MCRequests == {<<k1>>, <<k2>>, <<k1, k2>>, <<k2, k1>>}

MCInit == Init /\ Fifo!Init

MCNext ==
    \/ Fifo!Init /\ Next /\ UNCHANGED fvars
    \/ Init /\ Fifo!Next /\ UNCHANGED vars

MCSpec == /\ MCInit
          /\ [][MCNext]_<<vars, fvars>>
          /\ TaskFairness
          /\ Fifo!Fairness

-----------------------------------------------------------------------------
(* The deadline ends every wait: lock_some returns also when the waiters   *)
(* hold what each other waits for, or hold it for ever.                    *)
DeadlineReturns == LockSomeReturns

(* Grants follow arrival order per key (x_lock_mgr.rs:101-106).            *)
FifoGrantOrder == Fifo!FifoGrants

(* Every lock_some call returns, its holders releasing in the end and with *)
(* no deadline to rescue it.                                               *)
FifoLockSomeReturns == Fifo!LockSomeReturns
=============================================================================
