------------------------------ MODULE XLockMgr ------------------------------
(***************************************************************************)
(* The per-worker lock table of mudu_kernel (server/x_lock_mgr.rs).        *)
(*                                                                         *)
(* Every key has an owner and a FIFO queue of parked lock_some requests.   *)
(* A request names a list of keys and is granted all of them or none.  The *)
(* code changes the table only under one mutex, so one critical section is *)
(* one action; the notifications a critical section decides on are sent    *)
(* after the mutex is dropped (send_wakes), so they are steps of their own *)
(* that the sender takes before it does anything else.                     *)
(*                                                                         *)
(* A transaction has at most one lock_some call in progress, so the waiter *)
(* of that call (seq and ANotify latch in the code) is named by the        *)
(* transaction; a notification that reaches a latch whose call has         *)
(* returned has no effect and is dropped with the call.                    *)
(*                                                                         *)
(* Time is abstracted to the two comparisons the code makes: whether an    *)
(* owner is older than STATEMENT_LOCK_TTL (the set stale), and whether a   *)
(* request's deadline has passed (the set late).                           *)
(***************************************************************************)
EXTENDS Naturals, Sequences

CONSTANTS
    Oid,        \* transactions / lock tokens
    Key,        \* (relation, key) pairs
    NoOwner,    \* an unowned key
    Requests,   \* the key lists callers pass to lock_some
    Nested,     \* may a caller that holds locks call lock_some again?
    TtlFires,   \* may a lock be held longer than STATEMENT_LOCK_TTL?
    Timeouts    \* may a request's deadline pass?

ASSUME LockAssumption ==
    /\ NoOwner \notin Oid
    /\ Requests \subseteq Seq(Key)
    /\ {Nested, TtlFires, Timeouts} \subseteq BOOLEAN

VARIABLES
    owner,   \* owner[k]: KeyLockEntry.owner
    stale,   \* keys whose owner is older than STATEMENT_LOCK_TTL
    queue,   \* queue[k]: KeyLockEntry.queue
    pc,      \* where each transaction is in lock_some
    req,     \* the table_keys of its call
    signal,  \* transactions whose latch is set
    late,    \* transactions whose call is past its deadline
    wakes,   \* wakes[t]: waiters t collected under the mutex, not yet notified
    held     \* held[t]: keys t was granted and has not released itself

vars == <<owner, stale, queue, pc, req, signal, late, wakes, held>>

PC == {"idle", "attempt", "check", "parked"}

KeysOf(ks) == {ks[i] : i \in DOMAIN ks}

Init ==
    /\ owner = [k \in Key |-> NoOwner]
    /\ stale = {}
    /\ queue = [k \in Key |-> <<>>]
    /\ pc = [t \in Oid |-> "idle"]
    /\ req = [t \in Oid |-> <<>>]
    /\ signal = {}
    /\ late = {}
    /\ wakes = [t \in Oid |-> {}]
    /\ held = [t \in Oid |-> {}]

-----------------------------------------------------------------------------
(* Queues hold every waiter at most once, so retain drops one position.    *)

Queued(k, t) == t \in KeysOf(queue[k])

Without(q, t) ==
    IF \E i \in DOMAIN q : q[i] = t
    THEN LET i == CHOOSE i \in DOMAIN q : q[i] = t
         IN  [j \in 1..(Len(q) - 1) |-> IF j < i THEN q[j] ELSE q[j + 1]]
    ELSE q

Heads(ks) == {Head(queue[k]) : k \in {x \in ks : queue[x] # <<>>}}

(* try_acquire_locked, check pass.  `waiter` says whether the attempt is   *)
(* made by a registered waiter or by a newcomer.                           *)

Foreign(t, k) == owner[k] \notin {NoOwner, t}

(* Mutant: a free key is granted past its queue.                           *)
BlockedBarging(t, k, waiter) == Foreign(t, k) /\ k \notin stale

Blocked(t, k, waiter) ==
    \/ Foreign(t, k) /\ k \notin stale
    \/ /\ owner[k] # t
       /\ queue[k] # <<>>
       /\ ~(waiter /\ Head(queue[k]) = t)

Acquirable(t, ks, waiter) == \A k \in KeysOf(ks) : ~Blocked(t, k, waiter)

(* The pass stops at the first key that blocks; orphaned owners are        *)
(* cleared on every key it looked at, that key included.                   *)
Reclaimed(t, ks, waiter) ==
    {k \in Key :
        /\ Foreign(t, k) /\ k \in stale
        /\ \E i \in DOMAIN ks :
              /\ ks[i] = k
              /\ \A j \in 1..(i - 1) : ~Blocked(t, ks[j], waiter)}

(* try_acquire_locked, take pass: a key t already owns keeps its time.     *)
Take(t, ks, waiter) ==
    /\ owner' = [k \in Key |-> IF k \in KeysOf(ks) THEN t ELSE owner[k]]
    /\ stale' = stale \ {k \in KeysOf(ks) : owner[k] # t}
    /\ queue' = [k \in Key |-> IF waiter /\ k \in KeysOf(ks)
                               THEN Without(queue[k], t) ELSE queue[k]]
    /\ held' = [held EXCEPT ![t] = @ \union KeysOf(ks)]

Reclaim(t, ks, waiter) ==
    LET R == Reclaimed(t, ks, waiter)
    IN  /\ owner' = [k \in Key |-> IF k \in R THEN NoOwner ELSE owner[k]]
        /\ stale' = stale \ R

Collect(t, ws) == wakes' = [wakes EXCEPT ![t] = ws]

(* lock_some returns: the waiter and its latch are dropped.                *)
Return(t, ws) ==
    /\ pc' = [pc EXCEPT ![t] = "idle"]
    /\ req' = [req EXCEPT ![t] = <<>>]
    /\ signal' = signal \ {t}
    /\ late' = late \ {t}
    /\ wakes' = [u \in Oid |-> (IF u = t THEN ws ELSE wakes[u]) \ {t}]

-----------------------------------------------------------------------------
(* Fast path of lock_some: try_lock_some, no waiter registered.            *)

MayCall(t) ==
    /\ pc[t] = "idle"
    /\ wakes[t] = {}
    /\ Nested \/ held[t] = {}

LockSomeFast(t, ks) ==
    /\ MayCall(t)
    /\ Acquirable(t, ks, FALSE)
    /\ Take(t, ks, FALSE)
    /\ Return(t, Heads(Reclaimed(t, ks, FALSE)))

LockSomeSlow(t, ks) ==
    /\ MayCall(t)
    /\ ~Acquirable(t, ks, FALSE)
    /\ Reclaim(t, ks, FALSE)
    /\ Collect(t, Heads(Reclaimed(t, ks, FALSE)))
    /\ pc' = [pc EXCEPT ![t] = "attempt"]
    /\ req' = [req EXCEPT ![t] = ks]
    /\ UNCHANGED <<queue, signal, late, held>>

(* The retry loop: attempt under the mutex, and on failure register on     *)
(* every key not owned (enqueue_locked) and clear the latch.               *)

AttemptGranted(t) ==
    /\ pc[t] = "attempt" /\ wakes[t] = {}
    /\ Acquirable(t, req[t], TRUE)
    /\ Take(t, req[t], TRUE)
    /\ Return(t, Heads(Reclaimed(t, req[t], TRUE)))

Enqueue(t, ks, own) ==
    [k \in Key |-> IF k \in KeysOf(ks) /\ own[k] # t /\ ~Queued(k, t)
                   THEN Append(queue[k], t) ELSE queue[k]]

(* Mutant: the deadline is computed anew on every retry.                   *)
AttemptFailsRestarts(t) ==
    /\ pc[t] = "attempt" /\ wakes[t] = {}
    /\ ~Acquirable(t, req[t], TRUE)
    /\ Reclaim(t, req[t], TRUE)
    /\ Collect(t, Heads(Reclaimed(t, req[t], TRUE)))
    /\ queue' = Enqueue(t, req[t], owner')
    /\ signal' = signal \ {t}
    /\ late' = late \ {t}
    /\ pc' = [pc EXCEPT ![t] = "check"]
    /\ UNCHANGED <<req, held>>

AttemptFails(t) ==
    /\ pc[t] = "attempt" /\ wakes[t] = {}
    /\ ~Acquirable(t, req[t], TRUE)
    /\ Reclaim(t, req[t], TRUE)
    /\ Collect(t, Heads(Reclaimed(t, req[t], TRUE)))
    /\ queue' = Enqueue(t, req[t], owner')
    /\ signal' = signal \ {t}
    /\ pc' = [pc EXCEPT ![t] = "check"]
    /\ UNCHANGED <<req, late, held>>

Park(t) ==
    /\ pc[t] = "check" /\ wakes[t] = {}
    /\ t \notin late
    /\ pc' = [pc EXCEPT ![t] = "parked"]
    /\ UNCHANGED <<owner, stale, queue, req, signal, late, wakes, held>>

(* Mutant: a head that gives up does not hand its wakeup on.               *)
LeaveSilently(t) ==
    /\ pc[t] = "check" /\ wakes[t] = {}
    /\ t \in late
    /\ queue' = [k \in Key |-> IF k \in KeysOf(req[t]) THEN Without(queue[k], t)
                               ELSE queue[k]]
    /\ Return(t, {})
    /\ UNCHANGED <<owner, stale, held>>

(* The deadline check: dequeue_locked hands the wakeup of every unowned    *)
(* key t was the head of to the next waiter.                               *)
LeaveOnTimeout(t) ==
    /\ pc[t] = "check" /\ wakes[t] = {}
    /\ t \in late
    /\ LET ks  == KeysOf(req[t])
           led == {k \in ks : /\ owner[k] = NoOwner
                              /\ queue[k] # <<>> /\ Head(queue[k]) = t}
           q   == [k \in Key |-> IF k \in ks THEN Without(queue[k], t)
                                 ELSE queue[k]]
       IN  /\ queue' = q
           /\ Return(t, {Head(q[k]) : k \in {x \in led : q[x] # <<>>}})
    /\ UNCHANGED <<owner, stale, held>>

Wake(t) ==
    /\ pc[t] = "parked"
    /\ t \in signal \/ t \in late
    /\ pc' = [pc EXCEPT ![t] = "attempt"]
    /\ UNCHANGED <<owner, stale, queue, req, signal, late, wakes, held>>

SendWake(t) ==
    \E u \in wakes[t] :
        /\ wakes' = [wakes EXCEPT ![t] = @ \ {u}]
        /\ signal' = signal \union {u}
        /\ UNCHANGED <<owner, stale, queue, pc, req, late, held>>

(* Mutants: the owner is not compared; the queue head is not woken.        *)
ReleaseAnyOwner(t, ks) ==
    /\ pc[t] = "idle" /\ wakes[t] = {}
    /\ owner' = [k \in Key |-> IF k \in ks THEN NoOwner ELSE owner[k]]
    /\ stale' = stale \ ks
    /\ Collect(t, Heads(ks))
    /\ held' = [held EXCEPT ![t] = @ \ ks]
    /\ UNCHANGED <<queue, pc, req, signal, late>>

ReleaseSilently(t, ks) ==
    LET mine == {k \in ks : owner[k] = t}
    IN  /\ pc[t] = "idle" /\ wakes[t] = {}
        /\ owner' = [k \in Key |-> IF k \in mine THEN NoOwner ELSE owner[k]]
        /\ stale' = stale \ mine
        /\ held' = [held EXCEPT ![t] = @ \ ks]
        /\ UNCHANGED <<queue, pc, req, signal, late, wakes>>

(* release and release_all clear the keys t still owns and wake their      *)
(* heads.                                                                  *)
ReleaseKeys(t, ks) ==
    LET mine == {k \in ks : owner[k] = t}
    IN  /\ pc[t] = "idle" /\ wakes[t] = {}
        /\ owner' = [k \in Key |-> IF k \in mine THEN NoOwner ELSE owner[k]]
        /\ stale' = stale \ mine
        /\ Collect(t, Heads(mine))
        /\ held' = [held EXCEPT ![t] = @ \ ks]
        /\ UNCHANGED <<queue, pc, req, signal, late>>

Release(t, ks) == KeysOf(ks) \intersect held[t] # {} /\ ReleaseKeys(t, KeysOf(ks))

ReleaseAll(t) == held[t] # {} /\ ReleaseKeys(t, Key)

(* The clock.                                                              *)
LockExpires(k) ==
    /\ TtlFires
    /\ owner[k] # NoOwner /\ k \notin stale
    /\ stale' = stale \union {k}
    /\ UNCHANGED <<owner, queue, pc, req, signal, late, wakes, held>>

DeadlinePasses(t) ==
    /\ Timeouts
    /\ pc[t] # "idle" /\ t \notin late
    /\ late' = late \union {t}
    /\ UNCHANGED <<owner, stale, queue, pc, req, signal, wakes, held>>

Next ==
    \/ \E t \in Oid, ks \in Requests : LockSomeFast(t, ks)
    \/ \E t \in Oid, ks \in Requests : LockSomeSlow(t, ks)
    \/ \E t \in Oid, ks \in Requests : Release(t, ks)
    \/ \E t \in Oid : AttemptGranted(t)
    \/ \E t \in Oid : AttemptFails(t)
    \/ \E t \in Oid : Park(t)
    \/ \E t \in Oid : LeaveOnTimeout(t)
    \/ \E t \in Oid : Wake(t)
    \/ \E t \in Oid : SendWake(t)
    \/ \E t \in Oid : ReleaseAll(t)
    \/ \E k \in Key : LockExpires(k)
    \/ \E t \in Oid : DeadlinePasses(t)

Spec == Init /\ [][Next]_vars

(***************************************************************************)
(* Fairness.  A woken task is polled again and a task never stops inside a *)
(* synchronous section; deadlines are real time; a transaction always ends *)
(* with release_all (commit, rollback and abort all call it).              *)
(***************************************************************************)
TaskStep(t) ==
    \/ AttemptGranted(t) \/ AttemptFails(t) \/ Park(t)
    \/ LeaveOnTimeout(t) \/ Wake(t) \/ SendWake(t)

TaskFairness ==
    \A t \in Oid : WF_vars(TaskStep(t)) /\ WF_vars(DeadlinePasses(t))

Fairness == TaskFairness /\ \A t \in Oid : WF_vars(ReleaseAll(t))

FairSpec == Spec /\ Fairness

-----------------------------------------------------------------------------
(* Types of the lock table and of the calls in progress.                   *)
TypeOK ==
    /\ owner \in [Key -> Oid \union {NoOwner}]
    /\ stale \subseteq Key
    /\ queue \in [Key -> Seq(Oid)]
    /\ pc \in [Oid -> PC]
    /\ req \in [Oid -> Seq(Key)]
    /\ signal \subseteq Oid
    /\ late \subseteq Oid
    /\ wakes \in [Oid -> SUBSET Oid]
    /\ held \in [Oid -> SUBSET Key]

(* Every registration belongs to a call in progress: a waiter is at most   *)
(* once in a queue, only of a key its call asked for and does not own, and *)
(* a call that returned (granted, or timed out through dequeue_locked)     *)
(* leaves no entry behind that would block the key for ever.               *)
QueuesSound ==
    \A k \in Key :
        /\ \A i, j \in DOMAIN queue[k] : queue[k][i] = queue[k][j] => i = j
        /\ \A t \in KeysOf(queue[k]) :
              /\ pc[t] # "idle"
              /\ k \in KeysOf(req[t])
              /\ owner[k] # t

(* No lost wakeup (comment at x_lock_mgr.rs:137-140): a request that is    *)
(* about to park, or parked, with its latch clear and no notification on   *)
(* the way, still has a reason to wait: a key it is queued on is owned, or *)
(* free but led by an earlier waiter.                                      *)
NoLostWakeup ==
    \A t \in Oid :
        (pc[t] \in {"check", "parked"} /\ t \notin signal
           /\ \A u \in Oid : t \notin wakes[u])
        => \E k \in KeysOf(req[t]) :
              /\ Queued(k, t)
              /\ owner[k] # NoOwner \/ Head(queue[k]) # t

(* While no lock outlives the TTL, the table agrees with what the callers  *)
(* were told: a key granted to t and not released by t is owned by t, so   *)
(* two transactions never both act as the holder of a key.                 *)
HeldIsOwned ==
    \A t \in Oid : \A k \in held[t] : owner[k] = t

(* Grants follow arrival order per key (x_lock_mgr.rs:101-106): a step     *)
(* removes waiters from a queue or appends one, it never reorders the ones *)
(* that stay, and a key changes hands only to its first waiter, or to a    *)
(* newcomer when nobody waits.                                             *)
ArrivalOrder ==
    \A k \in Key :
        /\ \A t, u \in KeysOf(queue[k]) \intersect KeysOf(queue'[k]) :
              \A i, j \in DOMAIN queue[k] : \A m, n \in DOMAIN queue'[k] :
                 (/\ queue[k][i] = t /\ queue[k][j] = u
                  /\ queue'[k][m] = t /\ queue'[k][n] = u)
                 => (i < j <=> m < n)
        /\ (owner'[k] # owner[k] /\ owner'[k] # NoOwner)
           => (queue[k] = <<>> \/ Head(queue[k]) = owner'[k])

FifoGrants == [][ArrivalOrder]_vars

(* What lock_some (x_lock_mgr.rs:97-99) and acquire_commit_locks           *)
(* (x_contract/utils.rs:578-582) claim: no cycle of transactions that each *)
(* hold a key the next one waits for.                                      *)
WaitsFor(t, u) ==
    /\ pc[t] = "parked"
    /\ \E k \in KeysOf(req[t]) : Queued(k, t) /\ owner[k] = u

NoHoldAndWaitCycle ==
    ~ \E t, u \in Oid : WaitsFor(t, u) /\ WaitsFor(u, t)

(* The manager implements the abstract table: queues, latches, timeouts    *)
(* and wakeups never let a key change hands in a way LockTable forbids.    *)
Table == INSTANCE LockTable

ImplementsLockTable == Table!Spec

(* Every lock_some call returns.                                           *)
LockSomeReturns == \A t \in Oid : pc[t] # "idle" ~> pc[t] = "idle"
=============================================================================
