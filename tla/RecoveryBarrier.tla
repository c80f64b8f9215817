---------------------------- MODULE RecoveryBarrier --------------------------
(***************************************************************************)
(* The start of the io_uring server: every worker thread recovers its own  *)
(* storage (bootstrap, replay of its log, scan of the fs garbage           *)
(* collector) and meets the others at RecoveryCoordinator, a counter and a *)
(* flag under one mutex with a condition variable.  The last worker        *)
(* publishes readiness; a worker that fails, before or after the barrier,  *)
(* raises the flag.                                                        *)
(*                                                                         *)
(* A step is one critical section.  A thread waiting on the condition      *)
(* variable may also wake up for no reason.                                *)
(***************************************************************************)
EXTENDS Naturals, FiniteSets

CONSTANTS
    Worker,     \* the worker threads
    MayFail     \* the workers whose recovery or service loop may fail

ASSUME WorkerAssumption ==
    /\ IsFiniteSet(Worker) /\ Worker # {}
    /\ MayFail \subseteq Worker

VARIABLES
    phase,              \* where each worker thread is
    recovered_workers,  \* RecoveryState
    failed,             \* RecoveryState
    ready,              \* has ready_notifier been notified?
    replayed,           \* the workers whose storage is recovered
    counted             \* the workers recovered_workers counts

bvars == <<phase, recovered_workers, failed, ready, replayed, counted>>

total_workers == Cardinality(Worker)

(* "arrived": recovered, about to call worker_succeeded; "waiting" in      *)
(* condvar.wait; "woken": about to get the mutex back; "serving" in        *)
(* run_service_loop; "stopped" after it returned Ok; "failed" with Err.    *)
Phases == {"recovering", "arrived", "waiting", "woken", "serving", "stopped", "failed"}

(* condvar.notify_all, in a state where phase would be ph.                 *)
NotifyAll(ph) == [w \in Worker |-> IF ph[w] = "waiting" THEN "woken" ELSE ph[w]]

BInit ==
    /\ phase = [w \in Worker |-> "recovering"]
    /\ recovered_workers = 0
    /\ failed = FALSE
    /\ ready = FALSE
    /\ replayed = {}
    /\ counted = {}

(* bootstrap_storage_async, recover_worker_log_on_loop and the scan of     *)
(* the garbage collector have succeeded.                                   *)
Recover(w) ==
    /\ phase[w] = "recovering"
    /\ phase' = [phase EXCEPT ![w] = "arrived"]
    /\ replayed' = replayed \cup {w}
    /\ UNCHANGED <<recovered_workers, failed, ready, counted>>

(* worker_failed, called on every error path of run and by the thread for  *)
(* every error of its loop, with the loop's own result.                    *)
worker_failed(w) ==
    /\ failed' = TRUE
    /\ phase' = NotifyAll([phase EXCEPT ![w] = "failed"])
    /\ UNCHANGED <<recovered_workers, ready, replayed, counted>>

RecoveryFails(w) ==
    /\ w \in MayFail
    /\ phase[w] = "recovering"
    /\ worker_failed(w)

(* An error of the service loop, of a log flush for example.               *)
LoopFails(w) ==
    /\ w \in MayFail
    /\ phase[w] = "serving"
    /\ worker_failed(w)

(* finish_shutdown: the service loop returns Ok.                           *)
LoopReturns(w) ==
    /\ phase[w] = "serving"
    /\ phase' = [phase EXCEPT ![w] = "stopped"]
    /\ UNCHANGED <<recovered_workers, failed, ready, replayed, counted>>

(* Mutant: the barrier opens one worker early.                             *)
CompleteEarly(n) == n + 1 >= total_workers

(* state.recovered_workers == state.total_workers, after the increment.    *)
Complete(n) == n = total_workers

(* worker_succeeded up to its return or to condvar.wait.                   *)
worker_succeeded(w) ==
    /\ phase[w] = "arrived"
    /\ \/ failed /\ worker_failed(w)
       \/ /\ ~failed
          /\ recovered_workers' = recovered_workers + 1
          /\ counted' = counted \cup {w}
          /\ IF Complete(recovered_workers + 1)
             THEN /\ ready' = TRUE
                  /\ phase' = NotifyAll([phase EXCEPT ![w] = "serving"])
             ELSE /\ phase' = [phase EXCEPT ![w] = "waiting"]
                  /\ UNCHANGED ready
          /\ UNCHANGED <<failed, replayed>>

(* condvar.wait returns although nobody called notify_all.                 *)
SpuriousWakeup(w) ==
    /\ phase[w] = "waiting"
    /\ phase' = [phase EXCEPT ![w] = "woken"]
    /\ UNCHANGED <<recovered_workers, failed, ready, replayed, counted>>

(* The mutex is held again: the loop condition, then the test of failed.   *)
LeaveWait(w) ==
    /\ phase[w] = "woken"
    /\ \/ failed /\ worker_failed(w)
       \/ /\ ~failed
          /\ phase' = [phase EXCEPT ![w] =
                 IF recovered_workers < total_workers THEN "waiting" ELSE "serving"]
          /\ UNCHANGED <<recovered_workers, failed, ready, replayed, counted>>

(* What the threads do unless something fails.                             *)
BarrierStep(w) == Recover(w) \/ worker_succeeded(w) \/ LeaveWait(w)

BNext ==
    \E w \in Worker :
        \/ BarrierStep(w) \/ SpuriousWakeup(w)
        \/ RecoveryFails(w) \/ LoopFails(w) \/ LoopReturns(w)

BSpec == BInit /\ [][BNext]_bvars

BTypeOK ==
    /\ phase \in [Worker -> Phases]
    /\ recovered_workers \in Nat
    /\ failed \in BOOLEAN /\ ready \in BOOLEAN
    /\ replayed \subseteq Worker /\ counted \subseteq Worker

(* "Recovery must be complete on every worker before the service loop      *)
(* starts" (worker_succeeded), and readiness is published only then: no    *)
(* client and no call of another worker meets unrecovered storage,         *)
(* whichever worker wakes first, however often waits end spuriously.       *)
ServesOnlyRecovered ==
    (ready \/ \E w \in Worker : phase[w] \in {"serving", "stopped"}) => replayed = Worker
==============================================================================
