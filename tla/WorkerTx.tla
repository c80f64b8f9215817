------------------------------ MODULE WorkerTx -------------------------------
(***************************************************************************)
(* Transactions on one worker of mudu_kernel: sessions, snapshots, staged  *)
(* writes, statement and commit locks, the commit critical section, the    *)
(* order of the write-ahead log, and the version chains of the rows.       *)
(*                                                                         *)
(* A session serves one request at a time (the connection loop reads a     *)
(* frame, awaits its handler, and reads the next), so a session is a       *)
(* process; the requests of different sessions interleave at every await.  *)
(* Row keys are written by SQL under a statement lock and read at the      *)
(* latest committed version; Kv keys are read at the begin snapshot and    *)
(* protected by the conflict check at commit.  The lock manager is used    *)
(* through its abstract specification LockTable.                           *)
(*                                                                         *)
(* A version stands for the value it carries: it records who wrote it and  *)
(* which version its writer read (base).                                   *)
(***************************************************************************)
EXTENDS Naturals, Sequences, FiniteSets

CONSTANTS
    Session,
    Row,         \* keys of relations
    Kv,          \* keys of the worker's key-value store
    MaxTs,       \* bound on next_ts
    Blind,       \* base of a write whose key was not read
    TtlFires,    \* may a lock be held longer than STATEMENT_LOCK_TTL?
    Autocommit,  \* do sessions put and delete outside a transaction?
    IoFails,     \* may logging, flushing or applying a write fail?
    Dead         \* key-value writes explored: FALSE puts, TRUE deletes

ASSUME TxAssumption ==
    /\ Row \intersect Kv = {}
    /\ MaxTs \in Nat
    /\ Blind \notin Nat
    /\ {TtlFires, Autocommit, IoFails} \union Dead \subseteq BOOLEAN

Key == Row \union Kv
Xid == 1..MaxTs
NoXid == 0

VARIABLES
    next_ts,   \* WorkerSnapshotMgr.next_ts
    running,   \* WorkerSnapshotMgr.running
    tx,        \* the transaction a session holds or is committing
    staged,    \* its staged writes: key -> [base, dead]
    seen,      \* key -> version its last get returned
    locked,    \* its recorded statement locks
    pc,        \* the request the session is serving
    todo,      \* the keys that request still has to lock or to apply
    owner,     \* lock table
    stale,
    versions,  \* versions[k]: oldest to newest
    queue,     \* log_queue: commits with an LSN, not yet given a file position
    wal,       \* the log, in file order, which is the order of replay
    lost,      \* the commits of flush rounds that failed
    awaits     \* the xids whose LSNs a session's commit still waits for

txvars == <<tx, staged, seen, locked>>
lockvars == <<owner, stale>>
logvars == <<queue, wal, lost>>
vars == <<next_ts, running, txvars, pc, todo, lockvars, versions, logvars, awaits>>

Lock == INSTANCE LockTable WITH Oid <- Xid, NoOwner <- NoXid

NoTx == [xid |-> NoXid, running |-> {}]

Empty == [k \in {} |-> Blind]

Commit_PC == {"commit_lock", "prepare", "enqueue", "apply", "finish", "fail"}

PC == {"idle", "stmt_lock", "stmt_read", "put_apply", "wait"} \union Commit_PC

Init ==
    /\ next_ts = 0
    /\ running = {}
    /\ tx = [s \in Session |-> NoTx]
    /\ staged = [s \in Session |-> Empty]
    /\ seen = [s \in Session |-> Empty]
    /\ locked = [s \in Session |-> {}]
    /\ pc = [s \in Session |-> "idle"]
    /\ todo = [s \in Session |-> {}]
    /\ Lock!Init
    /\ versions = [k \in Key |-> <<>>]
    /\ queue = <<>>
    /\ wal = <<>>
    /\ lost = {}
    /\ awaits = [s \in Session |-> {}]

-----------------------------------------------------------------------------
(* Version chains and snapshots.                                           *)

LatestXid(k) ==
    IF versions[k] = <<>> THEN NoXid ELSE versions[k][Len(versions[k])].xid

Alive(k) == versions[k] # <<>> /\ ~versions[k][Len(versions[k])].dead

(* WorkerSnapshot::is_visible, used by the conflict check.                 *)
IsVisible(t, x) == x <= t.xid /\ x \notin t.running

Least(S) == CHOOSE x \in S : \A y \in S : x <= y
Greatest(S) == CHOOSE x \in S : \A y \in S : y <= x

(* Snapshot::is_visible of contract/snapshot.rs, used by Kv reads: the     *)
(* bounds are the first and the last running transaction, in this order.   *)
LowerUnAllocTs(t) == IF t.running = {} THEN t.xid ELSE Least(t.running)
UpperFinTs(t) == IF t.running = {} THEN t.xid ELSE Greatest(t.running)

SnapshotVisible(t, x) ==
    \/ x = t.xid
    \/ x < UpperFinTs(t)
    \/ x <= LowerUnAllocTs(t) /\ x \notin t.running

(* DataRow::read: the newest visible version of the chain.                 *)
SnapshotRead(t, k) ==
    LET vis == {i \in DOMAIN versions[k] : SnapshotVisible(t, versions[k][i].xid)}
    IN  IF vis = {} THEN NoXid ELSE versions[k][Greatest(vis)].xid

Stage(s, k, base, dead) ==
    staged' = [staged EXCEPT ![s] =
        [x \in DOMAIN @ \union {k} |->
            IF x # k THEN @[x]
            ELSE [base |-> IF k \in DOMAIN @ THEN @[k].base ELSE base,
                  dead |-> dead]]]

(* The transaction is dropped from the session, whatever it still holds.   *)
Forget(s) ==
    /\ tx' = [tx EXCEPT ![s] = NoTx]
    /\ staged' = [staged EXCEPT ![s] = Empty]
    /\ seen' = [seen EXCEPT ![s] = Empty]
    /\ locked' = [locked EXCEPT ![s] = {}]

Goto(s, label, ks) ==
    /\ pc' = [pc EXCEPT ![s] = label]
    /\ todo' = [todo EXCEPT ![s] = ks]

InTx(s) == pc[s] = "idle" /\ tx[s] # NoTx

-----------------------------------------------------------------------------
(* BEGIN.  The transaction is registered before the session is asked       *)
(* whether it already has one; the second BEGIN only returns an error.     *)

BeginTx(s) ==
    /\ pc[s] = "idle" /\ next_ts < MaxTs
    /\ next_ts' = next_ts + 1
    /\ running' = running \union {next_ts + 1}
    /\ tx' = IF tx[s] = NoTx
             THEN [tx EXCEPT ![s] = [xid |-> next_ts + 1, running |-> running]]
             ELSE tx
    /\ UNCHANGED <<staged, seen, locked, pc, todo, lockvars, versions, logvars, awaits>>

(* worker_rollback_tx: release_all, end_tx.                                *)
EndTx(s) ==
    /\ Lock!Release(tx[s].xid, Key)
    /\ running' = running \ {tx[s].xid}
    /\ Forget(s)
    /\ Goto(s, "idle", {})

RollbackTx(s) ==
    /\ InTx(s)
    /\ EndTx(s)
    /\ UNCHANGED <<next_ts, versions, logvars, awaits>>

(* close_session and close_connection_sessions remove the context only.    *)
CloseSession(s) ==
    /\ InTx(s)
    /\ Forget(s)
    /\ UNCHANGED <<next_ts, running, pc, todo, lockvars, versions, logvars, awaits>>

-----------------------------------------------------------------------------
(* SQL statements on a row: take the statement lock, decide from the       *)
(* staged or the latest committed version, stage.                          *)

WriteRow(s, r) ==
    /\ InTx(s)
    /\ Goto(s, "stmt_lock", {r})
    /\ UNCHANGED <<next_ts, running, txvars, lockvars, versions, logvars, awaits>>

(* Mutant: the lock is recorded but not taken.                             *)
StmtLockSkipped(s) ==
    /\ pc[s] = "stmt_lock"
    /\ locked' = [locked EXCEPT ![s] = @ \union todo[s]]
    /\ Goto(s, "stmt_read", todo[s])
    /\ UNCHANGED <<next_ts, running, tx, staged, seen, lockvars, versions, logvars, awaits>>

StmtLock(s) ==
    /\ pc[s] = "stmt_lock"
    /\ Lock!Acquire(tx[s].xid, todo[s])
    /\ locked' = [locked EXCEPT ![s] = @ \union todo[s]]
    /\ Goto(s, "stmt_read", todo[s])
    /\ UNCHANGED <<next_ts, running, tx, staged, seen, versions, logvars, awaits>>

(* Mutant: lock_some waits without a deadline.                             *)
ContendedNever(s) == FALSE

(* lock_some gives up only behind another holder or another waiter.        *)
Contended(s) ==
    \E k \in todo[s] :
        \/ owner[k] \notin {NoXid, tx[s].xid} /\ k \notin stale
        \/ \E u \in Session \ {s} : /\ pc[u] \in {"stmt_lock", "commit_lock"}
                                    /\ k \in todo[u]

StmtLockTimeout(s) ==
    /\ pc[s] = "stmt_lock" /\ Contended(s)
    /\ Goto(s, "idle", {})
    /\ UNCHANGED <<next_ts, running, txvars, lockvars, versions, logvars, awaits>>

Present(s, r) == IF r \in DOMAIN staged[s] THEN ~staged[s][r].dead ELSE Alive(r)

StmtStage(s, r, dead) ==
    /\ Stage(s, r, LatestXid(r), dead)
    /\ Goto(s, "idle", {})
    /\ UNCHANGED <<next_ts, running, tx, seen, locked, lockvars, versions, logvars, awaits>>

StmtDone(s) ==
    /\ Goto(s, "idle", {})
    /\ UNCHANGED <<next_ts, running, txvars, lockvars, versions, logvars, awaits>>

(* INSERT fails on a present key; UPDATE and DELETE of a missing one       *)
(* change nothing.                                                         *)
Insert(s, r) ==
    /\ pc[s] = "stmt_read" /\ r \in todo[s]
    /\ IF Present(s, r) THEN StmtDone(s) ELSE StmtStage(s, r, FALSE)

Update(s, r) ==
    /\ pc[s] = "stmt_read" /\ r \in todo[s]
    /\ IF Present(s, r) THEN StmtStage(s, r, FALSE) ELSE StmtDone(s)

Delete(s, r) ==
    /\ pc[s] = "stmt_read" /\ r \in todo[s]
    /\ IF Present(s, r) THEN StmtStage(s, r, TRUE) ELSE StmtDone(s)

(* Key-value calls inside a transaction: gets at the begin snapshot, puts  *)
(* and deletes only staged.                                                *)

KvGet(s, k) ==
    /\ InTx(s) /\ k \notin DOMAIN staged[s]
    /\ seen' = [seen EXCEPT ![s] =
                   [x \in DOMAIN @ \union {k} |->
                       IF x = k THEN SnapshotRead(tx[s], k) ELSE @[x]]]
    /\ UNCHANGED <<next_ts, running, tx, staged, locked, pc, todo, lockvars,
                   versions, logvars, awaits>>

KvPut(s, k, dead) ==
    /\ InTx(s)
    /\ Stage(s, k, IF k \in DOMAIN seen[s] THEN seen[s][k] ELSE Blind, dead)
    /\ UNCHANGED <<next_ts, running, tx, seen, locked, pc, todo, lockvars,
                   versions, logvars, awaits>>

-----------------------------------------------------------------------------
(* worker_put_async and worker_delete_async outside a transaction: a       *)
(* timestamp that is never running, a frame appended past the queue, and   *)
(* the version after the write has been awaited.  No lock is taken.        *)

(* complete_persisted_lsns: the watermark counts the LSN of x.             *)
Report(x) == awaits' = [s \in Session |-> awaits[s] \ {x}]

AutoPut(s, k, dead) ==
    /\ Autocommit
    /\ pc[s] = "idle" /\ tx[s] = NoTx /\ next_ts < MaxTs
    /\ next_ts' = next_ts + 1
    /\ tx' = [tx EXCEPT ![s] = [xid |-> next_ts + 1, running |-> {}]]
    /\ Stage(s, k, Blind, dead)
    /\ wal' = Append(wal, [xid |-> next_ts + 1, keys |-> {k}])
    /\ Goto(s, "put_apply", {k})
    /\ UNCHANGED <<running, seen, locked, lockvars, versions, queue, lost, awaits>>

AutoApply(s) ==
    /\ pc[s] = "put_apply"
    /\ versions' = [k \in Key |->
           IF k \in todo[s]
           THEN Append(versions[k], [xid |-> tx[s].xid, base |-> Blind,
                                     dead |-> staged[s][k].dead])
           ELSE versions[k]]
    /\ Forget(s)
    /\ Goto(s, "idle", {})
    /\ Report(tx[s].xid)
    /\ UNCHANGED <<next_ts, running, lockvars, logvars>>

(* The append fails after its file position was reserved.                  *)
AutoFails(s) ==
    /\ IoFails /\ pc[s] = "put_apply"
    /\ Forget(s)
    /\ Goto(s, "idle", {})
    /\ Report(tx[s].xid)
    /\ UNCHANGED <<next_ts, running, lockvars, versions, logvars>>

-----------------------------------------------------------------------------
(* COMMIT.  The transaction is taken from the session first, so an error   *)
(* before the critical section leaves nobody to release its locks or to    *)
(* end it.                                                                 *)

CommitEmpty(s) ==
    /\ InTx(s) /\ staged[s] = Empty
    /\ EndTx(s)
    /\ UNCHANGED <<next_ts, versions, logvars, awaits>>

CommitTx(s) ==
    /\ InTx(s) /\ staged[s] # Empty
    /\ Goto(s, "commit_lock", DOMAIN staged[s])
    /\ UNCHANGED <<next_ts, running, txvars, lockvars, versions, logvars, awaits>>

(* Mutant: the commit goes on without its locks.                           *)
CommitLockSkipped(s) ==
    /\ pc[s] = "commit_lock"
    /\ Goto(s, "prepare", {})
    /\ UNCHANGED <<next_ts, running, txvars, lockvars, versions, logvars, awaits>>

CommitLock(s) ==
    /\ pc[s] = "commit_lock"
    /\ Lock!Acquire(tx[s].xid, todo[s])
    /\ Goto(s, "prepare", {})
    /\ UNCHANGED <<next_ts, running, txvars, versions, logvars, awaits>>

(* The error return of acquire_commit_locks and of prepare_commit_async.   *)
CommitError(s) ==
    /\ Forget(s)
    /\ Goto(s, "idle", {})
    /\ UNCHANGED <<next_ts, running, lockvars, versions, logvars, awaits>>

CommitLockTimeout(s) ==
    /\ pc[s] = "commit_lock" /\ Contended(s)
    /\ CommitError(s)

(* has_write_conflict and ensure_no_kv_conflicts, for the keys without a   *)
(* statement lock.                                                         *)
Conflict(s) ==
    \E k \in DOMAIN staged[s] \ locked[s] :
        versions[k] # <<>> /\ ~IsVisible(tx[s], LatestXid(k))

Prepare(s) ==
    /\ pc[s] = "prepare" /\ ~Conflict(s)
    /\ Goto(s, "enqueue", {})
    /\ UNCHANGED <<next_ts, running, txvars, lockvars, versions, logvars, awaits>>

PrepareConflict(s) ==
    /\ pc[s] = "prepare" /\ Conflict(s)
    /\ CommitError(s)

(* Mutant: the newest commit goes to the front of the queue.               *)
EnqueueFront(s) ==
    /\ pc[s] = "enqueue"
    /\ queue' = <<[xid |-> tx[s].xid, keys |-> DOMAIN staged[s]]>> \o queue
    /\ Goto(s, "apply", DOMAIN staged[s])
    /\ UNCHANGED <<next_ts, running, txvars, lockvars, versions, wal, lost, awaits>>

(* enqueue_group_commit; an error skips the apply, not the release.        *)
EnqueueLog(s) ==
    /\ pc[s] = "enqueue"
    /\ queue' = Append(queue, [xid |-> tx[s].xid, keys |-> DOMAIN staged[s]])
    /\ Goto(s, "apply", DOMAIN staged[s])
    /\ UNCHANGED <<next_ts, running, txvars, lockvars, versions, wal, lost, awaits>>

EnqueueFails(s) ==
    /\ IoFails /\ pc[s] = "enqueue"
    /\ Goto(s, "fail", {})
    /\ UNCHANGED <<next_ts, running, txvars, lockvars, versions, logvars, awaits>>

(* Allocated LSNs that the log has not reported to the watermark.          *)
Unreported ==
    lost \union {queue[i].xid : i \in DOMAIN queue}
         \union {tx[s].xid : s \in {u \in Session : pc[u] = "put_apply"}}

(* apply_prepared_commit_async: rows, then keys of the key-value store.    *)
(* The commit will wait for the last LSN allocated by its end, so for      *)
(* every LSN that is not reported by then.                                 *)
ApplyKey(s, k) ==
    /\ pc[s] = "apply" /\ k \in todo[s]
    /\ k \in Kv => todo[s] \subseteq Kv
    /\ versions' = [versions EXCEPT ![k] =
           Append(@, [xid |-> tx[s].xid, base |-> staged[s][k].base,
                      dead |-> staged[s][k].dead])]
    /\ Goto(s, IF todo[s] = {k} THEN "finish" ELSE "apply", todo[s] \ {k})
    /\ awaits' = IF todo[s] = {k} THEN [awaits EXCEPT ![s] = Unreported] ELSE awaits
    /\ UNCHANGED <<next_ts, running, txvars, lockvars, logvars>>

ApplyFails(s) ==
    /\ IoFails /\ pc[s] = "apply"
    /\ Goto(s, "fail", {})
    /\ UNCHANGED <<next_ts, running, txvars, lockvars, versions, logvars, awaits>>

(* release_all and worker_rollback_tx, then the wait for durability, which *)
(* holds nothing; an error is returned instead of the wait.                *)
CommitFinish(s) ==
    /\ pc[s] \in {"finish", "fail"}
    /\ Lock!Release(tx[s].xid, Key)
    /\ running' = running \ {tx[s].xid}
    /\ Forget(s)
    /\ Goto(s, IF pc[s] = "finish" THEN "wait" ELSE "idle", {})
    /\ UNCHANGED <<next_ts, versions, logvars, awaits>>

(* wait_group_commit_advanced: the watermark has passed the last LSN.      *)
WaitReturns(s) ==
    /\ pc[s] = "wait" /\ awaits[s] = {}
    /\ Goto(s, "idle", {})
    /\ UNCHANGED <<next_ts, running, txvars, lockvars, versions, logvars, awaits>>

(* A flush round takes a prefix of the queue, reserves its positions,      *)
(* writes it and reports its LSNs.                                         *)
FlushQueue ==
    /\ queue # <<>>
    /\ wal' = Append(wal, Head(queue))
    /\ queue' = Tail(queue)
    /\ Report(Head(queue).xid)
    /\ UNCHANGED <<next_ts, running, txvars, pc, todo, lockvars, versions, lost>>

(* The round fails: what it took from the queue is neither queued again    *)
(* nor reported.  The commit that drives the round returns the error; on   *)
(* io_uring no commit does.                                                *)
FlushFails ==
    /\ IoFails /\ queue # <<>>
    /\ lost' = lost \union {Head(queue).xid}
    /\ queue' = Tail(queue)
    /\ \/ UNCHANGED <<pc, todo, awaits>>
       \/ \E s \in Session : /\ pc[s] = "wait"
                             /\ Goto(s, "idle", {})
                             /\ awaits' = [awaits EXCEPT ![s] = {}]
    /\ UNCHANGED <<next_ts, running, txvars, lockvars, versions, wal>>

(* No request takes as long as the TTL: it fires on locks whose holder is  *)
(* idle between two requests, or gone.                                     *)
LockExpires(k) ==
    /\ TtlFires /\ k \notin stale
    /\ \A s \in Session : tx[s].xid = owner[k] => pc[s] = "idle"
    /\ Lock!Expire(k)
    /\ UNCHANGED <<next_ts, running, txvars, pc, todo, versions, logvars, awaits>>

Next ==
    \/ \E s \in Session :
        \/ BeginTx(s) \/ RollbackTx(s) \/ CloseSession(s)
        \/ StmtLock(s) \/ StmtLockTimeout(s)
        \/ AutoApply(s) \/ AutoFails(s)
        \/ CommitEmpty(s) \/ CommitTx(s) \/ CommitLock(s) \/ CommitLockTimeout(s)
        \/ Prepare(s) \/ PrepareConflict(s)
        \/ EnqueueLog(s) \/ EnqueueFails(s) \/ ApplyFails(s) \/ CommitFinish(s)
        \/ WaitReturns(s)
    \/ \E s \in Session, r \in Row :
        WriteRow(s, r) \/ Insert(s, r) \/ Update(s, r) \/ Delete(s, r)
    \/ \E s \in Session, k \in Kv :
        KvGet(s, k) \/ \E dead \in Dead : KvPut(s, k, dead) \/ AutoPut(s, k, dead)
    \/ \E s \in Session, k \in Key : ApplyKey(s, k)
    \/ FlushQueue \/ FlushFails
    \/ \E k \in Key : LockExpires(k)

Spec == Init /\ [][Next]_vars

(* A request in progress is polled until it returns: its task is woken by  *)
(* the lock manager, by its timeout, by the I/O it awaits or by the        *)
(* watermark.  A queued commit is flushed, by a commit that drives the     *)
(* round or by the flush loop.                                             *)
RequestStep(s) ==
    \/ StmtLock(s) \/ StmtLockTimeout(s)
    \/ \E r \in Row : Insert(s, r) \/ Update(s, r) \/ Delete(s, r)
    \/ AutoApply(s)
    \/ CommitLock(s) \/ CommitLockTimeout(s) \/ Prepare(s) \/ PrepareConflict(s)
    \/ EnqueueLog(s) \/ (\E k \in Key : ApplyKey(s, k)) \/ CommitFinish(s) \/ WaitReturns(s)

FairSpec == Spec /\ WF_vars(FlushQueue) /\ \A s \in Session : WF_vars(RequestStep(s))

-----------------------------------------------------------------------------
Entry == [xid : Xid, keys : SUBSET Key]

Version == [xid : Xid, base : 0..MaxTs \union {Blind}, dead : BOOLEAN]

(* Types of the worker's transaction state.                                *)
TypeOK ==
    /\ next_ts \in 0..MaxTs
    /\ running \subseteq 1..next_ts
    /\ tx \in [Session -> [xid : 0..MaxTs, running : SUBSET Xid]]
    /\ \A s \in Session :
          /\ DOMAIN staged[s] \subseteq Key
          /\ \A k \in DOMAIN staged[s] :
                staged[s][k] \in [base : 0..MaxTs \union {Blind}, dead : BOOLEAN]
          /\ DOMAIN seen[s] \subseteq Kv
          /\ \A k \in DOMAIN seen[s] : seen[s][k] \in 0..MaxTs
    /\ locked \in [Session -> SUBSET Row]
    /\ pc \in [Session -> PC]
    /\ todo \in [Session -> SUBSET Key]
    /\ owner \in [Key -> 0..MaxTs]
    /\ stale \subseteq Key
    /\ versions \in [Key -> Seq(Version)]
    /\ queue \in Seq(Entry)
    /\ wal \in Seq(Entry)
    /\ lost \subseteq Xid
    /\ awaits \in [Session -> SUBSET Xid]

(* Every version was computed from the version it follows: no writer that  *)
(* read a value overwrites one it has not seen.                            *)
NoLostUpdate(ks) ==
    \A k \in ks : \A i \in DOMAIN versions[k] :
        versions[k][i].base \in
            {Blind, IF i = 1 THEN NoXid ELSE versions[k][i - 1].xid}

(* INSERT, UPDATE and DELETE re-read the row under the statement lock and  *)
(* skip the snapshot check at commit; the lock alone keeps the version     *)
(* they read the latest until theirs is appended (worker_storage.rs,       *)
(* "the lock is their write-write conflict protection").                   *)
RowNoLostUpdate == NoLostUpdate(Row)

(* get followed by put in a key-value transaction: the conflict check at   *)
(* commit (ensure_no_kv_conflicts) must refuse the transaction when the    *)
(* version it read has been replaced.                                      *)
KvNoLostUpdate == NoLostUpdate(Kv)

(* The conflict check is not stale when it is acted on: between Prepare    *)
(* and the append of the version, nobody commits a version of a staged key *)
(* that the transaction's snapshot does not see.                           *)
CheckStillHolds ==
    \A s \in Session : pc[s] \in {"enqueue", "apply"} =>
        \A k \in DOMAIN staged[s] \ locked[s] :
            (pc[s] = "enqueue" \/ k \in todo[s]) =>
                versions[k] = <<>> \/ IsVisible(tx[s], LatestXid(k))

Log == wal \o queue

(* The comment in the commit path (kv.rs:216-222): the log has the commits *)
(* of a key in the order in which their versions were appended, and has    *)
(* every version that was appended, so that replay in file order ends with *)
(* the version readers saw last.                                           *)
WalOrderIsApplyOrder ==
    \A k \in Key : \A i, j \in DOMAIN versions[k] : i <= j =>
        \E a, b \in DOMAIN Log :
            /\ a <= b
            /\ Log[a].xid = versions[k][i].xid /\ k \in Log[a].keys
            /\ Log[b].xid = versions[k][j].xid /\ k \in Log[b].keys

(* Every version was logged by the time readers can see it, also when it   *)
(* was written by an autocommit put that holds no lock: it is in the log,  *)
(* queued, or was in a flush round that failed.                            *)
VersionsLogged ==
    \A k \in Key : \A i \in DOMAIN versions[k] :
        \/ versions[k][i].xid \in lost
        \/ \E a \in DOMAIN Log : Log[a].xid = versions[k][i].xid /\ k \in Log[a].keys

(* What worker_commit_tx_with_lock_owner_async documents (kv.rs:166-172):  *)
(* every lock of the transaction is released when the commit returns.      *)
CommitReleasesLocks ==
    [][\A s \in Session : (pc[s] \in Commit_PC /\ pc'[s] \in {"wait", "idle"}) =>
          \A k \in Key : owner'[k] # tx[s].xid]_vars

(* The commit waits for an LSN of a flush round that failed.               *)
Parked(s) == pc[s] = "wait" /\ awaits[s] \intersect lost # {}

(* Every request returns, also when a key it needs was left locked by a    *)
(* transaction nobody will end, and whatever I/O fails; all but a commit   *)
(* that waits for the watermark to pass a flush round that failed.  Such a *)
(* commit holds no lock, so it keeps nobody else from returning.           *)
RequestReturns == \A s \in Session : pc[s] # "idle" ~> (pc[s] = "idle" \/ Parked(s))
==============================================================================
