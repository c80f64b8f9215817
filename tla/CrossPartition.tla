--------------------------- MODULE CrossPartition ----------------------------
(***************************************************************************)
(* Transactions over the partitions of several workers of mudu_kernel.     *)
(*                                                                         *)
(* A transaction lives on the worker of its session, its coordinator.  A   *)
(* statement on a row of another worker locks and reads it there           *)
(* (LockKeyForUpdate), its write is staged at home, and the commit takes   *)
(* one of three routes: local, handed off as a whole to the one remote     *)
(* owner (CommitWriteSet), or applied partition by partition               *)
(* (ApplyCrossPartitionTx).  Every remote call is a pair of messages of    *)
(* the workers' message bus with a ten second timeout; the handler of a    *)
(* request is a task of its own on the owner, which runs on whether or     *)
(* not its caller still waits.                                             *)
(*                                                                         *)
(* Transaction identifiers are local to a worker: <<w, x>> is transaction  *)
(* x of worker w, which is also what statement_lock_token(w, x) stands     *)
(* for.  A version records who wrote it, the timestamp it carries on its   *)
(* owner, and how many versions of the row its writer had read (base).     *)
(* The lock manager is used through its specification LockTable.           *)
(***************************************************************************)
EXTENDS Naturals, Sequences, FiniteSets, SequencesExt

CONSTANTS
    Worker,       \* worker identifiers, naturals
    Session,
    Home,         \* Home[s]: the worker that serves session s
    Row,
    PartitionOf,  \* PartitionOf[r]: a natural
    WorkerOf,     \* WorkerOf[p]: the owner of partition p
    MaxTx,        \* MaxTx[s]: bound on the transactions session s begins
    MaxCalls,     \* MaxCalls[w]: bound on the statement calls worker w sends
    MaxFaults,    \* bound on the timeouts of calls and failures of writes
    TtlFires      \* may the lock TTL pass for locks nobody will release?

ASSUME PartitionAssumption ==
    /\ Worker \subseteq Nat \ {0}
    /\ Home \in [Session -> Worker]
    /\ PartitionOf \in [Row -> DOMAIN WorkerOf]
    /\ \A p \in DOMAIN WorkerOf : p \in Nat /\ WorkerOf[p] \in Worker
    /\ MaxFaults \in Nat /\ TtlFires \in BOOLEAN

VARIABLES
    next_ts,      \* WorkerSnapshotMgr.next_ts of each worker
    running,      \* WorkerSnapshotMgr.running of each worker
    begun,        \* transactions each session has begun (bound)
    faults,       \* timeouts and failures so far (bound)
    xid,          \* the transaction a session is in, or NoXid
    staged,       \* its staged relation writes: row -> base
    remote,       \* its remote_lock_owners
    pc,           \* where the session is inside a request
    todo,         \* rows, owners or partitions the request has to go through
    call,         \* message id of the remote call it waits for, or NoMsg
    next_msg,     \* WorkerMessageBus.next_msg_id of each worker
    mailbox,      \* the mailbox of each worker, oldest message first
    inbox,        \* WorkerMessageBusState.inbox
    waiters,      \* WorkerMessageBusState.recv_waiters
    answer,       \* the response a session's recv returned, or NoAnswer
    tasks,        \* the handlers in progress, one per delivered request
    owner, stale, \* lock tables, over <<worker, row>>
    versions,     \* versions[r]: the chain of r on its owner
    applied,      \* applied_cross_tx of each worker
    stopped,      \* workers with a failed flush round: their watermark has stopped
    behind,       \* transactions whose commit waits for a watermark that has stopped
    acked,        \* transactions whose commit returned Ok (history)
    loose         \* <<tx, worker>>: owners a transaction no longer tracks (history)

snapvars == <<next_ts, running>>
txvars == <<begun, xid, staged, remote>>
ctlvars == <<pc, todo, call, answer>>
busvars == <<next_msg, mailbox, inbox, waiters>>
lockvars == <<owner, stale>>
flushvars == <<stopped, behind>>
datavars == <<versions, applied, flushvars>>
histvars == <<acked, loose>>
vars == <<snapvars, txvars, ctlvars, busvars, tasks, lockvars, datavars, histvars, faults>>

NoXid == 0
NoMsg == 0
NoTx == <<0, NoXid>>
Nothing == [r \in {} |-> 0]
NoAnswer == [ok |-> FALSE, to |-> NoMsg, base |-> 0]

Owner(r) == WorkerOf[PartitionOf[r]]
LockKeys == {<<w, r>> : w \in Worker, r \in Row}
TxOf(s) == <<Home[s], xid[s]>>
At(w) == {<<w, r>> : r \in Row}

Lock == INSTANCE LockTable WITH Oid <- Worker \X Nat, Key <- LockKeys, NoOwner <- NoTx

Init ==
    /\ next_ts = [w \in Worker |-> 0]
    /\ running = [w \in Worker |-> {}]
    /\ faults = 0
    /\ begun = [s \in Session |-> 0]
    /\ xid = [s \in Session |-> NoXid]
    /\ staged = [s \in Session |-> Nothing]
    /\ remote = [s \in Session |-> {}]
    /\ pc = [s \in Session |-> "idle"]
    /\ todo = [s \in Session |-> {}]
    /\ call = [s \in Session |-> NoMsg]
    /\ answer = [s \in Session |-> NoAnswer]
    /\ next_msg = [w \in Worker |-> 1]
    /\ mailbox = [w \in Worker |-> <<>>]
    /\ inbox = [w \in Worker |-> <<>>]
    /\ waiters = [w \in Worker |-> <<>>]
    /\ tasks = {}
    /\ Lock!Init
    /\ versions = [r \in Row |-> <<>>]
    /\ applied = [w \in Worker |-> {}]
    /\ stopped = {}
    /\ behind = {}
    /\ acked = {}
    /\ loose = {}

-----------------------------------------------------------------------------
(* A call times out, or logging or applying a write fails.                 *)
Fault == faults < MaxFaults /\ faults' = faults + 1

(* The message bus.                                                        *)

(* Mutant: a filter without the correlation id.                            *)
MatchesAnyAnswer(m, filter) == m.op = "response" /\ m.src = filter.src

(* Envelope::matches for the filter of send_partition_rpc.                 *)
Matches(m, filter) ==
    m.op = "response" /\ m.src = filter.src /\ m.correlation_id = filter.correlation_id

(* WorkerMessageBus::send, and recv of the answer in the same poll: the    *)
(* identifier is fresh, so its answer is not in the inbox yet.             *)
Send(s, w, op, ws) ==
    LET h == Home[s]
    IN  /\ mailbox' = [mailbox EXCEPT ![w] = Append(@,
               [op |-> op, src |-> h, id |-> next_msg[h], tx |-> TxOf(s), ws |-> ws])]
        /\ next_msg' = [next_msg EXCEPT ![h] = @ + 1]
        /\ waiters' = [waiters EXCEPT ![h] =
               Append(@, [src |-> w, correlation_id |-> next_msg[h], for |-> s])]
        /\ call' = [call EXCEPT ![s] = next_msg[h]]
        /\ answer' = [answer EXCEPT ![s] = NoAnswer]
        /\ UNCHANGED inbox

Task(w, m) ==
    [at |-> w, src |-> m.src, id |-> m.id, op |-> m.op, tx |-> m.tx, ws |-> m.ws,
     pc |-> "start", attempt |-> 0, xid |-> NoXid, running |-> {}]

(* The waiter's receiver has not been dropped by a timeout.                *)
Listens(f) == call[f.for] = f.correlation_id /\ answer[f.for] = NoAnswer

(* WorkerMessageBusState::handle_incoming.  The first waiter that matches  *)
(* is removed even when its receiver has gone; a request goes to the       *)
(* callback, which is a new task; anything else stays in the inbox.        *)
Deliver(w) ==
    /\ mailbox[w] # <<>>
    /\ mailbox' = [mailbox EXCEPT ![w] = Tail(@)]
    /\ LET m == Head(mailbox[w])
           i == SelectInSeq(waiters[w], LAMBDA f : Matches(m, f))
           awaited == i # 0
           request == ~awaited /\ m.op # "response"
       IN  /\ waiters' = IF awaited THEN [waiters EXCEPT ![w] = RemoveAt(@, i)] ELSE waiters
           /\ answer' = IF awaited /\ Listens(waiters[w][i])
                        THEN [answer EXCEPT ![waiters[w][i].for] =
                                 [ok |-> m.ok, to |-> m.correlation_id, base |-> m.base]]
                        ELSE answer
           /\ tasks' = IF request THEN tasks \union {Task(w, m)} ELSE tasks
           /\ inbox' = IF awaited \/ request THEN inbox
                       ELSE [inbox EXCEPT ![w] = Append(@, m)]
    /\ UNCHANGED <<snapvars, txvars, pc, todo, call, next_msg, lockvars, datavars, histvars, faults>>

Become(t, u) == tasks' = (tasks \ {t}) \union {u}

Reply(t, ok, base) ==
    /\ tasks' = tasks \ {t}
    /\ mailbox' = [mailbox EXCEPT ![t.src] = Append(@,
           [op |-> "response", src |-> t.at, correlation_id |-> t.id, ok |-> ok, base |-> base])]
    /\ UNCHANGED <<next_msg, inbox, waiters>>

-----------------------------------------------------------------------------
(* History: s gives up a call that may lock at ws, or ends with locks      *)
(* there that it does not release.                                         *)
Loosen(s, ws) == loose' = loose \union ({TxOf(s)} \X ws)

(* Waiting for an answer.  A call that times out drops its receiver and    *)
(* leaves its waiter behind.                                               *)

(* Mutant: the timeout removes the waiter.                                 *)
RpcTimeoutForgets(s) ==
    /\ Fault /\ call[s] # NoMsg /\ answer[s] = NoAnswer
    /\ answer' = [answer EXCEPT ![s] = [ok |-> FALSE, to |-> call[s], base |-> 0]]
    /\ waiters' = [waiters EXCEPT ![Home[s]] =
                      SelectSeq(@, LAMBDA f : f.correlation_id # call[s])]
    /\ Loosen(s, IF pc[s] = "statement" THEN {Owner(r) : r \in todo[s]} ELSE {})
    /\ UNCHANGED <<snapvars, txvars, pc, todo, call, next_msg, mailbox, inbox, tasks,
                   lockvars, datavars, acked>>

(* The handler of the call waits for a watermark that has stopped.         *)
Unanswered(s) ==
    /\ call[s] # NoMsg /\ answer[s] = NoAnswer
    /\ \E t \in tasks : t.src = Home[s] /\ t.id = call[s] /\ t.pc = "flush" /\ t.tx \in behind

RpcTimeout(s) ==
    /\ call[s] # NoMsg /\ answer[s] = NoAnswer
    /\ Fault \/ (Unanswered(s) /\ UNCHANGED faults)
    /\ answer' = [answer EXCEPT ![s] = [ok |-> FALSE, to |-> call[s], base |-> 0]]
    /\ Loosen(s, IF pc[s] = "statement" THEN {Owner(r) : r \in todo[s]} ELSE {})
    /\ UNCHANGED <<snapvars, txvars, pc, todo, call, busvars, tasks, lockvars, datavars, acked>>

Answered(s) == call[s] # NoMsg /\ answer[s] # NoAnswer

TakeAnswer(s) ==
    /\ call' = [call EXCEPT ![s] = NoMsg]
    /\ answer' = [answer EXCEPT ![s] = NoAnswer]

Goto(s, label, ks) ==
    /\ pc' = [pc EXCEPT ![s] = label]
    /\ todo' = [todo EXCEPT ![s] = ks]

-----------------------------------------------------------------------------
(* BEGIN and the statements.                                               *)

InTx(s) == pc[s] = "idle" /\ xid[s] # NoXid

BeginTx(s) ==
    /\ pc[s] = "idle" /\ xid[s] = NoXid /\ begun[s] < MaxTx[s]
    /\ begun' = [begun EXCEPT ![s] = @ + 1]
    /\ next_ts' = [next_ts EXCEPT ![Home[s]] = @ + 1]
    /\ running' = [running EXCEPT ![Home[s]] = @ \union {next_ts[Home[s]] + 1}]
    /\ xid' = [xid EXCEPT ![s] = next_ts[Home[s]] + 1]
    /\ UNCHANGED <<staged, remote, ctlvars, busvars, tasks, lockvars, datavars, histvars, faults>>

Stage(s, r, base) ==
    staged' = [staged EXCEPT ![s] =
                  [x \in DOMAIN @ \union {r} |-> IF x = r THEN base ELSE @[x]]]

(* A statement on a row of this worker: the lock, the latest version, the  *)
(* staged write.                                                           *)
WriteLocal(s, r) ==
    /\ InTx(s) /\ Owner(r) = Home[s] /\ r \notin DOMAIN staged[s]
    /\ Lock!Acquire(TxOf(s), {<<Home[s], r>>})
    /\ Stage(s, r, Len(versions[r]))
    /\ UNCHANGED <<snapvars, begun, xid, remote, ctlvars, busvars, tasks, datavars, histvars, faults>>

(* lock_remote_key_for_update, for a key that is not staged yet.           *)
WriteRemote(s, r) ==
    /\ InTx(s) /\ Owner(r) # Home[s] /\ r \notin DOMAIN staged[s]
    /\ next_msg[Home[s]] <= MaxCalls[Home[s]]
    /\ Send(s, Owner(r), "lock", [x \in {r} |-> 0])
    /\ Goto(s, "statement", {r})
    /\ UNCHANGED <<snapvars, txvars, tasks, lockvars, datavars, histvars, faults>>

(* The owner is recorded only when the answer is a value.  An INSERT of a  *)
(* present key and an UPDATE or DELETE of a missing one stage nothing.     *)
StatementDone(s, changes) ==
    /\ pc[s] = "statement" /\ Answered(s)
    /\ \E r \in todo[s] :
           IF answer[s].ok
           THEN /\ remote' = [remote EXCEPT ![s] = @ \union {Owner(r)}]
                /\ IF changes THEN Stage(s, r, answer[s].base) ELSE UNCHANGED staged
           ELSE UNCHANGED <<remote, staged>>
    /\ TakeAnswer(s)
    /\ Goto(s, "idle", {})
    /\ UNCHANGED <<snapvars, begun, xid, busvars, tasks, lockvars, datavars, histvars, faults>>

-----------------------------------------------------------------------------
(* The end of a transaction.                                               *)

Forget(s) ==
    /\ xid' = [xid EXCEPT ![s] = NoXid]
    /\ staged' = [staged EXCEPT ![s] = Nothing]
    /\ remote' = [remote EXCEPT ![s] = {}]
    /\ Goto(s, "idle", {})
    /\ UNCHANGED begun

(* worker_rollback_tx at the end of a request.                             *)
EndTx(s) ==
    /\ Lock!Release(TxOf(s), At(Home[s]))
    /\ running' = [running EXCEPT ![Home[s]] = @ \ {xid[s]}]
    /\ Forget(s)
    /\ UNCHANGED next_ts

(* The same in a commit, which goes on to wait for its log.                *)
EndCommit(s) ==
    /\ Lock!Release(TxOf(s), At(Home[s]))
    /\ running' = [running EXCEPT ![Home[s]] = @ \ {xid[s]}]
    /\ remote' = [remote EXCEPT ![s] = {}]
    /\ UNCHANGED <<next_ts, begun, xid, staged>>

Acknowledge(s) ==
    acked' = acked \union {[tx |-> TxOf(s), rows |-> DOMAIN staged[s]]}

(* ROLLBACK, and the end of a handoff that failed: worker_abort_tx_async   *)
(* unlocks at every recorded owner, whatever it answers, and rolls back.   *)
Abort(s) ==
    /\ InTx(s)
    /\ Goto(s, "abort", remote[s])
    /\ UNCHANGED <<snapvars, txvars, call, answer, busvars, tasks, lockvars, datavars, histvars, faults>>

Unlocking(s) == pc[s] \in {"abort", "unlock"}

UnlockKeys(s) ==
    /\ Unlocking(s) /\ call[s] = NoMsg /\ todo[s] # {}
    /\ Send(s, Min(todo[s]), "unlock", Nothing)
    /\ UNCHANGED <<snapvars, txvars, pc, todo, tasks, lockvars, datavars, histvars, faults>>

UnlockDone(s) ==
    /\ Unlocking(s) /\ Answered(s)
    /\ TakeAnswer(s)
    /\ Goto(s, pc[s], todo[s] \ {Min(todo[s])})
    /\ UNCHANGED <<snapvars, txvars, busvars, tasks, lockvars, datavars, histvars, faults>>

(* Mutant: the abort rolls back without the remote unlocks.                *)
AbortDoneAtOnce(s) ==
    /\ pc[s] = "abort" /\ call[s] = NoMsg
    /\ EndTx(s)
    /\ UNCHANGED <<call, answer, busvars, tasks, datavars, histvars, faults>>

AbortDone(s) ==
    /\ pc[s] = "abort" /\ call[s] = NoMsg /\ todo[s] = {}
    /\ EndTx(s)
    /\ UNCHANGED <<call, answer, busvars, tasks, datavars, histvars, faults>>

-----------------------------------------------------------------------------
(* COMMIT: worker_commit_routed_tx_async chooses by the owners of the      *)
(* staged rows.                                                            *)

Owners(s) == {Owner(r) : r \in DOMAIN staged[s]}

(* Versions of rows of tx are appended with timestamp x.                   *)
Publish(rows, tx, x, ws, route) ==
    versions' = [r \in Row |->
        IF r \in rows
        THEN Append(versions[r], [by |-> tx, xid |-> x, base |-> ws[r], route |-> route])
        ELSE versions[r]]

(* The same when writing fails, after some of the rows.                    *)
PublishSome(tx, x, ws, route) ==
    \E rows \in SUBSET DOMAIN ws : rows # DOMAIN ws /\ Publish(rows, tx, x, ws, route)

CommitEmpty(s) ==
    /\ InTx(s) /\ Owners(s) = {}
    /\ EndTx(s)
    /\ Loosen(s, remote[s])
    /\ UNCHANGED <<call, answer, busvars, tasks, datavars, acked, faults>>

CommitLocal(s) ==
    /\ InTx(s) /\ Owners(s) = {Home[s]}
    /\ Lock!Acquire(TxOf(s), {<<Home[s], r>> : r \in DOMAIN staged[s]})
    /\ Goto(s, "local", {})
    /\ UNCHANGED <<snapvars, txvars, call, answer, busvars, tasks, datavars, histvars, faults>>

(* The log of worker w is written in flush rounds.  A commit waits until   *)
(* the watermark has passed its LSN, the mixed route that of its log       *)
(* entry, the others the last one allocated when their versions were       *)
(* applied.  When a round fails the watermark stops below it.              *)

Flushing(s) == pc[s] \in {"flush", "wait"}

WaitsOn(w) ==
    {TxOf(s) : s \in {u \in Session : Home[u] = w /\
           (Flushing(u) \/ pc[u] \in {"mixed", "record", "failed", "drive", "drive_failed"})}}
    \union {t.tx : t \in {u \in tasks : u.at = w /\ u.pc = "flush"}}

(* The round of some of the commits fails.                                 *)
RoundFails(w) ==
    /\ Fault
    /\ stopped' = stopped \union {w}
    /\ \E txs \in SUBSET WaitsOn(w) : txs # {} /\ behind' = behind \union txs
    /\ UNCHANGED <<snapvars, txvars, ctlvars, busvars, tasks, lockvars, versions, applied, histvars>>

(* The commit of tx gets the LSN it will wait for: the rounds that failed  *)
(* before are below it.                                                    *)
Target(w, tx) ==
    /\ behind' = IF w \in stopped THEN behind \union {tx} ELSE behind
    /\ UNCHANGED stopped

LocalPublish(s) ==
    /\ pc[s] = "local"
    /\ Publish(DOMAIN staged[s], TxOf(s), xid[s], staged[s], "locked")
    /\ Target(Home[s], TxOf(s))
    /\ EndCommit(s)
    /\ Goto(s, "flush", {})
    /\ Loosen(s, remote[s])
    /\ UNCHANGED <<call, answer, busvars, tasks, applied, acked, faults>>

(* wait_group_commit_advanced returns.                                     *)
Durable(s) ==
    /\ Flushing(s) /\ TxOf(s) \notin behind
    /\ Acknowledge(s)
    /\ Forget(s)
    /\ UNCHANGED <<snapvars, call, answer, busvars, tasks, lockvars, datavars, loose, faults>>

(* drive_group_commit_flush returns the error of the round it drives.      *)
LocalFlushFails(s) ==
    /\ pc[s] = "flush" /\ Home[s] \in stopped
    /\ Forget(s)
    /\ UNCHANGED <<snapvars, call, answer, busvars, tasks, lockvars, datavars, histvars, faults>>

(* Logging or applying fails: the locks are released and the transaction   *)
(* ended all the same.                                                     *)
LocalFails(s) ==
    /\ Fault /\ pc[s] = "local"
    /\ PublishSome(TxOf(s), xid[s], staged[s], "locked")
    /\ EndTx(s)
    /\ Loosen(s, remote[s])
    /\ UNCHANGED <<call, answer, busvars, tasks, applied, flushvars, acked>>

(* handoff_commit_tx_async.                                                *)
CommitHandoff(s) ==
    /\ InTx(s)
    /\ \E w \in Worker \ {Home[s]} :
           /\ Owners(s) = {w}
           /\ Send(s, w, "commit", staged[s])
    /\ Goto(s, "handoff", {})
    /\ UNCHANGED <<snapvars, txvars, tasks, lockvars, datavars, histvars, faults>>

HandoffDone(s) ==
    /\ pc[s] = "handoff" /\ Answered(s) /\ answer[s].ok
    /\ TakeAnswer(s)
    /\ Acknowledge(s)
    /\ EndTx(s)
    /\ Loosen(s, remote[s] \ Owners(s))
    /\ UNCHANGED <<busvars, tasks, datavars, faults>>

HandoffFailed(s) ==
    /\ pc[s] = "handoff" /\ Answered(s) /\ ~answer[s].ok
    /\ TakeAnswer(s)
    /\ Goto(s, "abort", remote[s])
    /\ UNCHANGED <<snapvars, txvars, busvars, tasks, lockvars, datavars, histvars, faults>>

(* Rows of several owners: the remote statement locks are given up first,  *)
(* then the commit locks are taken, all of them on this worker.            *)
CommitMixed(s) ==
    /\ InTx(s) /\ Cardinality(Owners(s)) > 1
    /\ Goto(s, "unlock", remote[s])
    /\ UNCHANGED <<snapvars, txvars, call, answer, busvars, tasks, lockvars, datavars, histvars, faults>>

HomeKeys(s) == {<<Home[s], r>> : r \in DOMAIN staged[s]}

Contended(tx, ks) == \E k \in ks : ~Lock!Available(tx, k)

MixedLock(s) ==
    /\ pc[s] = "unlock" /\ call[s] = NoMsg /\ todo[s] = {}
    /\ Lock!Acquire(TxOf(s), HomeKeys(s))
    /\ remote' = [remote EXCEPT ![s] = {}]
    /\ Goto(s, "mixed", {PartitionOf[r] : r \in DOMAIN staged[s]})
    /\ Target(Home[s], TxOf(s))
    /\ UNCHANGED <<snapvars, begun, xid, staged, call, answer, busvars, tasks, versions, applied,
                   histvars, faults>>

(* The error leaves with the transaction running and its locks held.       *)
MixedLockTimeout(s) ==
    /\ pc[s] = "unlock" /\ call[s] = NoMsg /\ todo[s] = {}
    /\ Contended(TxOf(s), HomeKeys(s))
    /\ Forget(s)
    /\ UNCHANGED <<snapvars, call, answer, busvars, tasks, lockvars, datavars, histvars, faults>>

Part(ws, p) == [r \in {x \in DOMAIN ws : PartitionOf[x] = p} |-> ws[r]]

(* Mutant: an idempotency guard without the partition.                     *)
GuardTxOnly(w, x, p) == \E q \in DOMAIN WorkerOf : <<x, q>> \in applied[w]

(* The idempotency guard of apply_cross_partition_tx_async.                *)
Guard(w, x, p) == <<x, p>> \in applied[w]

(* apply_cross_partition_ops: one partition after the other, here or by a  *)
(* call to its owner, until one fails.                                     *)
MixedApplyHere(s) ==
    /\ pc[s] = "mixed" /\ call[s] = NoMsg /\ todo[s] # {}
    /\ LET p == Min(todo[s]) IN
           /\ WorkerOf[p] = Home[s]
           /\ IF Guard(Home[s], xid[s], p)
              THEN Goto(s, "mixed", todo[s] \ {p}) /\ UNCHANGED versions
              ELSE /\ Publish(DOMAIN Part(staged[s], p), TxOf(s), xid[s], staged[s], "mixed")
                   /\ Goto(s, "record", todo[s])
    /\ UNCHANGED <<snapvars, txvars, call, answer, busvars, tasks, lockvars, applied, flushvars, histvars, faults>>

MixedApplyFails(s) ==
    /\ Fault
    /\ pc[s] = "mixed" /\ call[s] = NoMsg /\ todo[s] # {}
    /\ WorkerOf[Min(todo[s])] = Home[s]
    /\ PublishSome(TxOf(s), xid[s], Part(staged[s], Min(todo[s])), "mixed")
    /\ Goto(s, "failed", {})
    /\ UNCHANGED <<snapvars, txvars, call, answer, busvars, tasks, lockvars, applied, flushvars, histvars>>

MixedRecord(s) ==
    /\ pc[s] = "record"
    /\ applied' = [applied EXCEPT ![Home[s]] = @ \union {<<xid[s], Min(todo[s])>>}]
    /\ Goto(s, "mixed", todo[s] \ {Min(todo[s])})
    /\ UNCHANGED <<snapvars, txvars, call, answer, busvars, tasks, lockvars, versions, flushvars, histvars, faults>>

MixedApplyThere(s) ==
    /\ pc[s] = "mixed" /\ call[s] = NoMsg /\ todo[s] # {}
    /\ LET p == Min(todo[s]) IN
           /\ WorkerOf[p] # Home[s]
           /\ Send(s, WorkerOf[p], "apply", Part(staged[s], p))
    /\ UNCHANGED <<snapvars, txvars, pc, todo, tasks, lockvars, datavars, histvars, faults>>

MixedApplied(s) ==
    /\ pc[s] = "mixed" /\ Answered(s)
    /\ TakeAnswer(s)
    /\ IF answer[s].ok
       THEN Goto(s, "mixed", todo[s] \ {Min(todo[s])})
       ELSE Goto(s, "failed", {})
    /\ UNCHANGED <<snapvars, txvars, busvars, tasks, lockvars, datavars, histvars, faults>>

(* The commit locks are released before the log is flushed, and the        *)
(* transaction ends after it.                                              *)
MixedRelease(s) ==
    /\ pc[s] \in {"mixed", "failed"} /\ call[s] = NoMsg /\ todo[s] = {}
    /\ Lock!Release(TxOf(s), HomeKeys(s))
    /\ Goto(s, IF pc[s] = "mixed" THEN "drive" ELSE "drive_failed", {})
    /\ UNCHANGED <<snapvars, txvars, call, answer, busvars, tasks, datavars, histvars, faults>>

MixedDone(s) ==
    /\ \/ pc[s] = "drive" /\ EndCommit(s) /\ Goto(s, "wait", {})
       \/ pc[s] = "drive_failed" /\ EndTx(s)
    /\ UNCHANGED <<call, answer, busvars, tasks, datavars, histvars, faults>>

(* drive_group_commit_flush fails: only the commit locks are released.     *)
MixedFlushFails(s) ==
    /\ pc[s] \in {"drive", "drive_failed"} /\ Home[s] \in stopped
    /\ Forget(s)
    /\ UNCHANGED <<snapvars, call, answer, busvars, tasks, lockvars, datavars, histvars, faults>>

-----------------------------------------------------------------------------
(* The handlers of the owner, execute_partition_rpc.                       *)

Keys(t) == {<<t.at, r>> : r \in DOMAIN t.ws}

(* Mutant: the row is read without its lock.                               *)
HandleLockReadsOnly(t) ==
    /\ t.op = "lock"
    /\ next_ts' = [next_ts EXCEPT ![t.at] = @ + 1]
    /\ \E r \in DOMAIN t.ws : Reply(t, TRUE, Len(versions[r]))
    /\ UNCHANGED <<running, txvars, ctlvars, lockvars, datavars, histvars, faults>>

(* LockKeyForUpdate: the lock under the coordinator's token, then a read   *)
(* in a transaction of its own that ends at once.                          *)
HandleLock(t) ==
    /\ t.op = "lock"
    /\ \/ /\ Lock!Acquire(t.tx, Keys(t))
          /\ next_ts' = [next_ts EXCEPT ![t.at] = @ + 1]
          /\ \E r \in DOMAIN t.ws : Reply(t, TRUE, Len(versions[r]))
       \/ /\ Contended(t.tx, Keys(t))
          /\ Reply(t, FALSE, 0)
          /\ UNCHANGED <<next_ts, lockvars>>
    /\ UNCHANGED <<running, txvars, ctlvars, datavars, histvars, faults>>

HandleUnlock(t) ==
    /\ t.op = "unlock"
    /\ Lock!Release(t.tx, At(t.at))
    /\ Reply(t, TRUE, 0)
    /\ UNCHANGED <<snapvars, txvars, ctlvars, datavars, histvars, faults>>

(* ApplyCrossPartitionTx: the guard, the versions without any lock, then   *)
(* the guard's entry.                                                      *)
HandleApply(t) ==
    /\ t.op = "apply" /\ t.pc = "start"
    /\ LET p == PartitionOf[CHOOSE r \in DOMAIN t.ws : TRUE] IN
           IF Guard(t.at, t.tx[2], p)
           THEN Reply(t, TRUE, 0) /\ UNCHANGED versions
           ELSE /\ Publish(DOMAIN t.ws, t.tx, t.tx[2], t.ws, "mixed")
                /\ Become(t, [t EXCEPT !.pc = "record"])
                /\ UNCHANGED busvars
    /\ UNCHANGED <<snapvars, txvars, ctlvars, lockvars, applied, flushvars, histvars, faults>>

HandleRecord(t) ==
    /\ t.op = "apply" /\ t.pc = "record"
    /\ applied' = [applied EXCEPT ![t.at] =
                      @ \union {<<t.tx[2], PartitionOf[r]>> : r \in DOMAIN t.ws}]
    /\ Reply(t, TRUE, 0)
    /\ UNCHANGED <<snapvars, txvars, ctlvars, lockvars, versions, flushvars, histvars, faults>>

(* A write fails after some of the rows before it.                         *)
HandleApplyFails(t) ==
    /\ Fault /\ t.op = "apply" /\ t.pc = "start"
    /\ PublishSome(t.tx, t.tx[2], t.ws, "mixed")
    /\ Reply(t, FALSE, 0)
    /\ UNCHANGED <<snapvars, txvars, ctlvars, lockvars, applied, flushvars, histvars>>

(* CommitWriteSet: at most two attempts, each a transaction of the owner   *)
(* that commits under the coordinator's lock token.                        *)

MaxCommitWriteSetAttempts == 2

(* Mutant: every error is retried.                                         *)
RetryAlways(t, transaction) == t.attempt < MaxCommitWriteSetAttempts

(* Only a Transaction error is retried.                                    *)
Retry(t, transaction) == transaction /\ t.attempt < MaxCommitWriteSetAttempts

AttemptFailed(t, transaction) ==
    Become(t, [t EXCEPT !.pc = IF Retry(t, transaction) THEN "start" ELSE "error"])

HandleCommit(t) ==
    /\ t.op = "commit" /\ t.pc = "start"
    /\ next_ts' = [next_ts EXCEPT ![t.at] = @ + 1]
    /\ running' = [running EXCEPT ![t.at] = @ \union {next_ts[t.at] + 1}]
    /\ Become(t, [t EXCEPT !.pc = "locking", !.attempt = @ + 1,
                           !.xid = next_ts[t.at] + 1, !.running = running[t.at]])
    /\ UNCHANGED <<txvars, ctlvars, busvars, lockvars, datavars, histvars, faults>>

(* A failure here or in prepare leaves the attempt's xid running.          *)
HandleCommitLock(t) ==
    /\ t.op = "commit" /\ t.pc = "locking"
    /\ \/ /\ Lock!Acquire(t.tx, Keys(t))
          /\ Become(t, [t EXCEPT !.pc = "prepare"])
       \/ /\ Contended(t.tx, Keys(t))
          /\ AttemptFailed(t, TRUE)
          /\ UNCHANGED lockvars
    /\ UNCHANGED <<snapvars, txvars, ctlvars, busvars, datavars, histvars, faults>>

(* ensure_no_relation_conflicts_async against the attempt's own snapshot.  *)
Conflict(t) ==
    \E r \in DOMAIN t.ws :
        /\ versions[r] # <<>>
        /\ LET x == Last(versions[r]).xid IN x > t.xid \/ x \in t.running

HandlePrepare(t) ==
    /\ t.op = "commit" /\ t.pc = "prepare"
    /\ IF Conflict(t) THEN AttemptFailed(t, TRUE)
                      ELSE Become(t, [t EXCEPT !.pc = "apply"])
    /\ UNCHANGED <<snapvars, txvars, ctlvars, busvars, lockvars, datavars, histvars, faults>>

(* The versions, the release of every lock of the token, the end of the    *)
(* attempt's transaction; logging or applying may fail instead.            *)
HandlePublish(t) ==
    /\ t.op = "commit" /\ t.pc = "apply"
    /\ \/ /\ Publish(DOMAIN t.ws, t.tx, t.xid, t.ws, "locked")
          /\ Become(t, [t EXCEPT !.pc = "flush"])
          /\ Target(t.at, t.tx)
          /\ UNCHANGED faults
       \/ /\ Fault
          /\ PublishSome(t.tx, t.xid, t.ws, "locked")
          /\ AttemptFailed(t, FALSE)
          /\ UNCHANGED flushvars
    /\ Lock!Release(t.tx, At(t.at))
    /\ running' = [running EXCEPT ![t.at] = @ \ {t.xid}]
    /\ UNCHANGED <<next_ts, txvars, ctlvars, busvars, applied, histvars>>

HandleFlushFails(t) ==
    /\ t.op = "commit" /\ t.pc = "flush" /\ t.at \in stopped
    /\ AttemptFailed(t, FALSE)
    /\ UNCHANGED <<snapvars, txvars, ctlvars, busvars, lockvars, datavars, histvars, faults>>

(* The backstop release, and the answer, once the log is durable.          *)
HandleCommitDone(t) ==
    /\ t.op = "commit"
    /\ t.pc = "error" \/ (t.pc = "flush" /\ t.tx \notin behind)
    /\ Lock!Release(t.tx, At(t.at))
    /\ Reply(t, t.pc = "flush", 0)
    /\ UNCHANGED <<snapvars, txvars, ctlvars, datavars, histvars, faults>>

-----------------------------------------------------------------------------
(* Some message or handler still carries this transaction.                 *)
InFlight(tx) ==
    \/ \E t \in tasks : t.tx = tx
    \/ \E w \in Worker : \E i \in DOMAIN mailbox[w] :
           mailbox[w][i].op # "response" /\ mailbox[w][i].tx = tx

Open(tx) == \E s \in Session : xid[s] # NoXid /\ ~Flushing(s) /\ TxOf(s) = tx

(* The TTL passes for a lock whose transaction is over.                    *)
LockExpires(k) ==
    /\ TtlFires /\ k \notin stale
    /\ ~Open(owner[k]) /\ ~InFlight(owner[k])
    /\ Lock!Expire(k)
    /\ UNCHANGED <<snapvars, txvars, ctlvars, busvars, tasks, datavars, histvars, faults>>

Statement(s) ==
    \E r \in Row : WriteLocal(s, r) \/ WriteRemote(s, r)

Request(s) ==
    \/ BeginTx(s) \/ Statement(s) \/ Abort(s)
    \/ CommitEmpty(s) \/ CommitLocal(s) \/ CommitHandoff(s) \/ CommitMixed(s)

(* The steps of a request once it has begun.                               *)
Progress(s) ==
    \/ \E changes \in BOOLEAN : StatementDone(s, changes)
    \/ UnlockKeys(s) \/ UnlockDone(s) \/ AbortDone(s)
    \/ LocalPublish(s) \/ LocalFails(s) \/ Durable(s)
    \/ HandoffDone(s) \/ HandoffFailed(s)
    \/ MixedLock(s) \/ MixedLockTimeout(s) \/ MixedApplyHere(s) \/ MixedApplyFails(s)
    \/ MixedRecord(s) \/ MixedApplyThere(s) \/ MixedApplied(s) \/ MixedRelease(s)
    \/ MixedDone(s)

Handle(t) ==
    \/ HandleLock(t) \/ HandleUnlock(t) \/ HandleApply(t) \/ HandleRecord(t)
    \/ HandleApplyFails(t) \/ HandleCommit(t) \/ HandleCommitLock(t) \/ HandlePrepare(t)
    \/ HandlePublish(t) \/ HandleCommitDone(t)

(* A commit drives a flush round that fails.  On io_uring rounds are       *)
(* driven by the flush loop and no commit is told.                         *)
DriveFails ==
    \/ \E s \in Session : LocalFlushFails(s) \/ MixedFlushFails(s)
    \/ \E t \in tasks : HandleFlushFails(t)

Next ==
    \/ \E s \in Session : Request(s) \/ Progress(s) \/ RpcTimeout(s)
    \/ \E w \in Worker : Deliver(w) \/ RoundFails(w)
    \/ \E t \in tasks : Handle(t)
    \/ DriveFails
    \/ \E k \in LockKeys : LockExpires(k)

Spec == Init /\ [][Next]_vars

(* The tasks of a worker run on its executor, which polls every task that  *)
(* is ready, flushes its log and reads its mailbox; a waiting lock_some    *)
(* and a call that gets no answer have their timeouts.  No fairness for    *)
(* the client's requests, for the timeout of a call that will be answered, *)
(* for the TTL, or for a failed flush to be told to its commit.            *)
Fairness ==
    /\ \A s \in Session : WF_vars(Progress(s)) /\ WF_vars(Unanswered(s) /\ RpcTimeout(s))
    /\ \A w \in Worker : WF_vars(Deliver(w))
    /\ WF_vars(\E t \in tasks : Handle(t))

FairSpec == Spec /\ Fairness

-----------------------------------------------------------------------------
\* Types of the transactions, the locks, the messages and the rows.
TypeOK ==
    /\ \A w \in Worker : running[w] \subseteq 1..next_ts[w]
    /\ \A s \in Session :
           /\ (xid[s] # NoXid /\ ~Flushing(s)) => xid[s] \in running[Home[s]]
           /\ DOMAIN staged[s] \subseteq Row
           /\ \A r \in DOMAIN staged[s] : staged[s][r] <= Len(versions[r])
           /\ remote[s] \subseteq Worker \ {Home[s]}
           /\ pc[s] \in {"idle", "statement", "local", "handoff", "abort", "unlock",
                         "mixed", "record", "failed", "drive", "drive_failed",
                         "flush", "wait"}
           /\ (call[s] # NoMsg) => pc[s] \in {"statement", "handoff", "abort", "unlock", "mixed"}
    /\ owner \in [LockKeys -> (Worker \X Nat) \union {NoTx}]
    /\ stale \subseteq LockKeys
    /\ stopped \subseteq Worker

(* A local or handed-off commit that returned Ok overwrote no version its  *)
(* transaction had not read, other than versions of the lock-free mixed    *)
(* route and of transactions that were not told Ok.  For a handed-off      *)
(* commit that is answered, the statement lock of LockKeyForUpdate covers  *)
(* the row until CommitWriteSet has published it.  For one that timed out  *)
(* it does not: the abort unlocks at the owner while the handler runs on,  *)
(* and a commit that was told Ok in between can be overwritten by the late *)
(* one, whose client got an error.  Such writers are outside this claim.   *)
AckedNoLostUpdate ==
    \A r \in Row : \A i \in DOMAIN versions[r] :
        LET v == versions[r][i] IN
        (v.route = "locked" /\ \E a \in acked : a.tx = v.by)
            => \A j \in (v.base + 1)..(i - 1) :
                   LET u == versions[r][j] IN
                   u.route = "locked" => \A a \in acked : a.tx # u.by

(* A transaction leaves at most one version on a row, although             *)
(* CommitWriteSet is attempted twice and the mixed route goes through the  *)
(* partitions one call after the other.                                    *)
AppliedAtMostOnce ==
    \A r \in Row : \A i, j \in DOMAIN versions[r] :
        versions[r][i].by = versions[r][j].by => i = j

Applied(a, r) == \E i \in DOMAIN versions[r] : versions[r][i].by = a.tx

(* A commit that returned Ok has its version on every row it staged: what  *)
(* the comment on applied_cross_tx promises.                               *)
AckedApplied == \A a \in acked : \A r \in a.rows : Applied(a, r)

(* The same, but for rows of a partition to which a transaction of another *)
(* coordinator has brought a mixed write set with an equal local xid: the  *)
(* guard takes the second for a repetition of the first.                   *)
AckedAppliedUnlessGuarded ==
    \A a \in acked : \A r \in a.rows :
        \/ Applied(a, r)
        \/ \E q \in Row : \E i \in DOMAIN versions[q] :
               /\ PartitionOf[q] = PartitionOf[r]
               /\ versions[q][i].route = "mixed"
               /\ versions[q][i].xid = a.tx[2] /\ versions[q][i].by # a.tx

(* A statement lock on a remote row belongs to a transaction that is still *)
(* open and has recorded the owner, or is being worked on by a call, unless*)
(* the lock call was given up by its timeout or the transaction committed  *)
(* elsewhere: every rollback and every failed handoff unlocks.             *)
RemoteLockTracked ==
    \A w \in Worker, r \in Row :
        LET tx == owner[<<w, r>>] IN
        (tx # NoTx /\ tx[1] # w) =>
            \/ \E s \in Session : xid[s] # NoXid /\ TxOf(s) = tx
                   /\ (w \in remote[s] \/ call[s] # NoMsg)
            \/ InFlight(tx)
            \/ <<tx, w>> \in loose

(* An answer reaches the call it answers, even when an earlier call of the *)
(* same session to the same worker timed out and its answer comes late.    *)
AnswerIsOwn == \A s \in Session : answer[s] # NoAnswer => answer[s].to = call[s]

(* The calls of worker w that are on their way, handled, or answered.      *)
Outstanding(w) ==
    LET sent == UNION {ToSet(mailbox[v]) : v \in Worker}
    IN  {m.id : m \in {m \in sent : m.op # "response" /\ m.src = w}}
        \union {t.id : t \in {t \in tasks : t.src = w}}
        \union {m.correlation_id : m \in {m \in ToSet(mailbox[w]) : m.op = "response"}}

(* Every answer on its way finds a waiter, a late one that of the call     *)
(* that gave up: nothing piles up in the inbox of WorkerMessageBusState,   *)
(* and no waiter stays for good.                                           *)
AnswersAwaited ==
    \A w \in Worker : inbox[w] = <<>> /\ Len(waiters[w]) = Cardinality(Outstanding(w))

(* The session's own commit waits for a watermark that has stopped.        *)
Parked(s) == Flushing(s) /\ TxOf(s) \in behind

(* Every request of a session returns, also one that waits for a row       *)
(* another transaction keeps, since the lock wait of a handler has a       *)
(* timeout, and one whose handler hangs behind a failed flush round, since *)
(* its call has one; all but a commit of the worker itself that waits for  *)
(* the watermark to pass a flush round that failed.                        *)
RequestReturns == \A s \in Session : pc[s] # "idle" ~> (pc[s] = "idle" \/ Parked(s))
==============================================================================
