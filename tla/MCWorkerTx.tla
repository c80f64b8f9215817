----------------------------- MODULE MCWorkerTx ------------------------------
(* Two instances of WorkerTx for TLC, explored one or the other: mode says *)
(* which one moves; the other one stays in its initial state.              *)
(*                                                                         *)
(* The extended instance has no autocommit writes, no lock that outlives   *)
(* the TTL and no failing I/O.  A has all of them, on keys of the          *)
(* key-value store.                                                        *)
EXTENDS WorkerTx, TLC

VARIABLES mode, a_next_ts, a_running, a_tx, a_staged, a_seen, a_locked, a_pc,
          a_todo, a_owner, a_stale, a_versions, a_queue, a_wal, a_lost, a_awaits

avars == <<a_next_ts, a_running, a_tx, a_staged, a_seen, a_locked, a_pc, a_todo,
           a_owner, a_stale, a_versions, a_queue, a_wal, a_lost, a_awaits>>

A == INSTANCE WorkerTx WITH
         Row <- {}, TtlFires <- TRUE, Autocommit <- TRUE, IoFails <- TRUE,
         next_ts <- a_next_ts, running <- a_running, tx <- a_tx,
         staged <- a_staged, seen <- a_seen, locked <- a_locked, pc <- a_pc,
         todo <- a_todo, owner <- a_owner, stale <- a_stale,
         versions <- a_versions, queue <- a_queue, wal <- a_wal,
         lost <- a_lost, awaits <- a_awaits

MCInit == mode \in {"rows", "auto"} /\ Init /\ A!Init

MCNext ==
    \/ mode = "rows" /\ Next /\ UNCHANGED <<mode, avars>>
    \/ mode = "auto" /\ A!Next /\ UNCHANGED <<mode, vars>>

MCSpec == MCInit /\ [][MCNext]_<<vars, avars, mode>>

(* Both instances treat sessions alike, and keys of one kind.              *)
MCSymmetry == Permutations(Session) \union Permutations(Row) \union Permutations(Kv)

------------------------------------------------------------------------------
(* Replay can end with what readers saw last (kv.rs:216-222): commits are  *)
(* in the log in the order of their versions; and with autocommit writes,  *)
(* expiring locks and failing I/O every version is in the log, in whatever *)
(* order, or was in a flush round that failed.                             *)
LogExplainsVersions == WalOrderIsApplyOrder /\ A!VersionsLogged
==============================================================================
