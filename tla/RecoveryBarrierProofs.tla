------------------------- MODULE RecoveryBarrierProofs -----------------------
(* The recovery barrier is safe for any finite number of workers.          *)
EXTENDS RecoveryBarrier, FiniteSetTheorems, TLAPS

(* recovered_workers is the number of workers that were counted, each of   *)
(* them once and after its recovery; and once anybody passed the barrier   *)
(* everybody was counted.                                                  *)
Passed == ready \/ \E w \in Worker : phase[w] \in {"serving", "stopped"}

BInv ==
    /\ BTypeOK
    /\ recovered_workers = Cardinality(counted)
    /\ counted \subseteq replayed
    /\ \A w \in Worker : phase[w] \in {"recovering", "arrived"} => w \notin counted
    /\ \A w \in Worker : phase[w] = "arrived" => w \in replayed
    /\ Passed => counted = Worker

(* A set of workers as large as the set of all workers is that set.        *)
LEMMA CountedAll ==
    ASSUME NEW S \in SUBSET Worker, Cardinality(S) >= total_workers
    PROVE  S = Worker
<1>1. /\ IsFiniteSet(S) /\ Cardinality(S) <= Cardinality(Worker)
      /\ Cardinality(S) = Cardinality(Worker) => Worker = S
  BY WorkerAssumption, FS_Subset
<1>2. Cardinality(S) \in Nat /\ Cardinality(Worker) \in Nat
  BY <1>1, WorkerAssumption, FS_CardinalityType
<1> QED
  BY <1>1, <1>2 DEF total_workers

(* A failing worker only adds a "failed" phase.                            *)
LEMMA FailedPreserves ==
    ASSUME BInv, NEW w \in Worker, worker_failed(w)
    PROVE  BInv'
<1> DEFINE ph == [phase EXCEPT ![w] = "failed"]
<1>1. ph \in [Worker -> Phases]
  BY DEF BInv, BTypeOK, Phases
<1>2. phase' = NotifyAll(ph)
  BY DEF worker_failed
<1>3. /\ phase' \in [Worker -> Phases]
      /\ \A v \in Worker : \A p \in {"recovering", "arrived", "serving", "stopped"} :
             phase'[v] = p => phase[v] = p
  BY <1>1, <1>2 DEF BInv, BTypeOK, NotifyAll, Phases
<1> QED
  BY <1>3 DEF BInv, BTypeOK, worker_failed, Passed

(* The invariant is kept by a call of worker_succeeded.                    *)
LEMMA SucceededPreserves ==
    ASSUME BInv, NEW w \in Worker, worker_succeeded(w)
    PROVE  BInv'
<1>1. CASE failed /\ worker_failed(w)
  BY <1>1, FailedPreserves
<1>2. CASE ~failed /\ ~worker_failed(w)
  <2> DEFINE n == recovered_workers + 1
  <2>1. /\ phase[w] = "arrived" /\ w \notin counted /\ w \in replayed
        /\ recovered_workers' = n /\ counted' = counted \cup {w}
        /\ UNCHANGED <<failed, replayed>>
    BY <1>2 DEF BInv, worker_succeeded
  <2>2. IsFiniteSet(counted) /\ Cardinality(counted) \in Nat
    BY WorkerAssumption, FS_Subset, FS_CardinalityType DEF BInv, BTypeOK
  <2>3. Cardinality(counted') = n /\ n \in Nat
    BY <2>1, <2>2, FS_AddElement DEF BInv
  <2>4. Passed => counted = Worker
    BY DEF BInv
  <2>5. ~Passed
    BY <2>1, <2>4
  <2>6. CASE Complete(n)
    <3> DEFINE ph == [phase EXCEPT ![w] = "serving"]
    <3>1. ph \in [Worker -> Phases] /\ ready' = TRUE /\ phase' = NotifyAll(ph)
      BY <1>2, <2>6 DEF BInv, BTypeOK, Phases, worker_succeeded
    <3>2. /\ phase' \in [Worker -> Phases]
          /\ \A v \in Worker : \A p \in {"recovering", "arrived"} :
                 phase'[v] = p => v # w /\ phase[v] = p
      BY <3>1 DEF BInv, BTypeOK, NotifyAll, Phases
    <3>3. counted' = Worker
      BY <2>1, <2>3, <2>6, CountedAll DEF Complete, total_workers, BInv, BTypeOK
    <3> QED
      BY <2>1, <2>3, <3>1, <3>2, <3>3 DEF BInv, BTypeOK, Passed
  <2>7. CASE ~Complete(n)
    <3>1. phase' = [phase EXCEPT ![w] = "waiting"] /\ ready' = ready
      BY <1>2, <2>7 DEF worker_succeeded
    <3>2. ~Passed'
      BY <2>5, <3>1 DEF Passed, BInv, BTypeOK
    <3> QED
      BY <2>1, <2>3, <3>1, <3>2 DEF BInv, BTypeOK, Phases
  <2> QED
    BY <2>6, <2>7
<1>3. CASE ~failed /\ worker_failed(w)
  BY <1>3, FailedPreserves
<1> QED
  BY <1>1, <1>2, <1>3 DEF worker_succeeded

(* The invariant is kept by every step of the barrier.                     *)
LEMMA BarrierInductive == BInv /\ [BNext]_bvars => BInv'
<1> SUFFICES ASSUME BInv, [BNext]_bvars
             PROVE  BInv'
  OBVIOUS
<1>1. CASE UNCHANGED bvars
  BY <1>1 DEF BInv, BTypeOK, Passed, bvars
<1>2. ASSUME NEW w \in Worker, Recover(w)
      PROVE  BInv'
  BY <1>2 DEF BInv, BTypeOK, Passed, Recover, Phases
<1>3. ASSUME NEW w \in Worker, worker_succeeded(w)
      PROVE  BInv'
  BY <1>3, SucceededPreserves
<1>4. ASSUME NEW w \in Worker, LeaveWait(w)
      PROVE  BInv'
  <2>1. CASE worker_failed(w)
    BY <2>1, FailedPreserves
  <2>2. CASE ~worker_failed(w)
    <3>1. /\ phase[w] = "woken"
          /\ phase' = [phase EXCEPT ![w] =
                 IF recovered_workers < total_workers THEN "waiting" ELSE "serving"]
          /\ UNCHANGED <<recovered_workers, failed, ready, replayed, counted>>
      BY <1>4, <2>2 DEF LeaveWait
    <3>2. total_workers \in Nat
      BY WorkerAssumption, FS_CardinalityType DEF total_workers
    <3>3. ~(recovered_workers < total_workers) => counted = Worker
      BY <3>2, CountedAll DEF BInv, BTypeOK
    <3>4. Passed' => counted = Worker
      BY <3>1, <3>3 DEF Passed, BInv, BTypeOK
    <3> QED
      BY <3>1, <3>4 DEF BInv, BTypeOK, Phases
  <2> QED
    BY <2>1, <2>2
<1>5. ASSUME NEW w \in Worker, SpuriousWakeup(w)
      PROVE  BInv'
  BY <1>5 DEF BInv, BTypeOK, Passed, SpuriousWakeup, Phases
<1>6. ASSUME NEW w \in Worker, RecoveryFails(w) \/ LoopFails(w)
      PROVE  BInv'
  BY <1>6, FailedPreserves DEF RecoveryFails, LoopFails
<1>7. ASSUME NEW w \in Worker, LoopReturns(w)
      PROVE  BInv'
  BY <1>7 DEF BInv, BTypeOK, Passed, LoopReturns, Phases
<1> QED
  BY <1>1, <1>2, <1>3, <1>4, <1>5, <1>6, <1>7 DEF BNext, BarrierStep

(* For any finite number of workers, failures and spurious wakeups at any  *)
(* time: no service loop runs, and readiness is not published, before      *)
(* every worker's storage is recovered.                                    *)
THEOREM BarrierSafe == BSpec => []ServesOnlyRecovered
<1>1. BInit => BInv
  <2> SUFFICES ASSUME BInit PROVE BInv
    OBVIOUS
  <2>1. Cardinality(counted) = 0
    BY FS_EmptySet DEF BInit
  <2>2. BTypeOK
    BY DEF BInit, BTypeOK, Phases
  <2>3. ~Passed
    BY DEF BInit, Passed
  <2> QED
    BY <2>1, <2>2, <2>3 DEF BInit, BInv
<1>2. BInv => ServesOnlyRecovered
  BY DEF BInv, BTypeOK, Passed, ServesOnlyRecovered
<1> QED
  BY <1>1, <1>2, BarrierInductive, PTL DEF BSpec
==============================================================================
