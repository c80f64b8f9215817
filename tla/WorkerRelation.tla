--------------------------- MODULE WorkerRelation ---------------------------
(***************************************************************************)
(* One relation of a worker (mudu_kernel, storage/relation/relation.rs):   *)
(* an in-memory index from keys to version chains (contract/data_row.rs)   *)
(* over a key file and a value file, below the commits of                  *)
(* server/worker_storage.rs and beside the worker's log.                   *)
(*                                                                         *)
(* A commit first enqueues its entry in the worker's log.  write_rows then *)
(* reserves a tuple id for every new key under write stripes, writes both  *)
(* files, and publishes the versions.  write_rows_delta publishes first:   *)
(* each new value is computed from the latest version under the row's lock.*)
(* Commits overlap.  After a crash the index is rebuilt from whatever the  *)
(* two files kept, and the log is replayed over it.                        *)
(*                                                                         *)
(* Each file has a log of its own, in which a batch is one frame; a crash  *)
(* keeps a prefix of each.  TimeSeriesFile models the file, WorkerWal the  *)
(* worker's log, WorkerTx the locks and the conflict check of a commit.    *)
(***************************************************************************)
EXTENDS Integers, FiniteSets, Sequences, FiniteSetsExt, SequencesExt, TLC

CONSTANTS
    Key,         \* row keys: naturals, in the order of the index
    Xid,         \* transactions: naturals
    Batch,       \* Batch[x]: the write sets x may commit, sequences of [key, op]
    Foreign,     \* Foreign[x]: the write sets another worker may apply here as x
    StripeOf,    \* StripeOf[k]: the write stripe of a key
    Amount,      \* Amount[x]: what the deferred delta of x adds to the column
    Start,       \* the column's value in a row a transaction writes
    Limit,       \* the largest value of the column's type
    Window,      \* UNCOMPRESSED_VERSION_COUNT
    WalFirst,    \* assumption: a file keeps no batch of a commit whose log entry is lost
    MaxFaults,   \* bound: failed file writes
    MaxCrashes,  \* bound: crashes
    MaxBoth      \* bound: failed writes and crashes together

VARIABLES
    xl,      \* the worker's log: entries [xid, ops] in LSN order
    keyLog,  \* batches of the key file: sets of [xid, tid, key]
    valLog,  \* batches of the value file: sets of [xid, tid, value]
    index,   \* the B-tree index: key -> tuple id of its DataRow, 0 when absent
    rows,    \* the DataRows, by tuple id
    next,    \* next_tuple_id
    tx,      \* the commits in flight
    acked,   \* history: commits reported to the client
    phase,   \* "up", "down" after a crash, "replay", "refused"
    todo,    \* replay: the operations still to apply
    used     \* bounded counters: faults, crashes

files == <<keyLog, valLog>>
memory == <<index, rows, next>>
vars == <<xl, files, memory, tx, acked, phase, todo, used>>

NoId == 0
NoOps == <<>>
\* a payload: the transaction that wrote the row, and how often each delta was added
Put(x) == [base |-> x, adds |-> [y \in Xid |-> 0]]
Add(v, x) == [v EXCEPT !.adds[x] = @ + 1]
Empty == [base |-> 0, adds |-> [y \in Xid |-> 0]]
Column(v) == Start + MapThenSumSet(LAMBDA x : v.adds[x] * Amount[x], Xid)

Version(x, deleted, payload) == [xid |-> x, deleted |-> deleted, payload |-> payload]
NoRow == [window |-> <<>>, delta |-> <<>>]

Idle == [pc |-> "idle", foreign |-> FALSE, ops |-> NoOps, part |-> "rows", held |-> {},
         missing |-> {}, ids |-> <<>>, values |-> <<>>, left |-> {}]

KeysOf(ops) == {ops[i].key : i \in DOMAIN ops}
Rows(ops) == {ops[i].key : i \in {j \in DOMAIN ops : ops[j].op # "delta"}}
Deltas(ops) == {ops[i].key : i \in {j \in DOMAIN ops : ops[j].op = "delta"}}
OpOn(ops, k) == ops[CHOOSE i \in DOMAIN ops : ops[i].key = k].op
Active(x) == tx[x].pc \notin {"idle", "done", "failed", "dead"}
PartKeys(x) == IF tx[x].part = "rows" THEN Rows(tx[x].ops) ELSE Deltas(tx[x].ops)

\* Types of the log, the files, the index and the rows.  An indexed key has a row below
\* next_tuple_id, and a row keeps at most Window versions (push_version).
TypeOK ==
    /\ xl \in Seq([xid : Xid, ops : UNION {Batch[x] : x \in Xid}])
    /\ \A i \in DOMAIN keyLog : keyLog[i] \subseteq [xid : Xid, tid : Nat \ {0}, key : Key]
    /\ \A i \in DOMAIN valLog : \A r \in valLog[i] : r.xid \in Xid /\ r.tid \in Nat \ {0}
    /\ index \in [Key -> Nat]
    /\ next \in Nat \ {0}
    /\ \A k \in Key : index[k] # NoId => index[k] \in DOMAIN rows /\ index[k] < next
    /\ \A t \in DOMAIN rows : Len(rows[t].window) <= Window
    /\ acked \subseteq Xid
    /\ phase \in {"up", "down", "replay", "refused"}
    /\ used \in [faults : 0..MaxFaults, crashes : 0..MaxCrashes]

(***************************************************************************)
(* DataRow.                                                                *)
(***************************************************************************)
Meta(v) == [xid |-> v.xid, deleted |-> v.deleted]

push_version(window, v) ==
    LET longer == Append(window, v)
    IN  IF Len(longer) > Window THEN Tail(longer) ELSE longer

\* the delta chain keeps the timestamp and the deleted flag of the version before
write_version_shallow(row, v) ==
    [window |-> push_version(row.window, v),
     delta  |-> IF row.window = <<>> THEN row.delta ELSE Append(row.delta, Meta(Last(row.window)))]

Latest(row) == Last(row.window)

NewestVisible(versions, seen) == Max({i \in DOMAIN versions : versions[i].xid \in seen})

\* mutant: one entry of the chain too few is counted as older
OlderOffByOne(row) == SubSeq(row.delta, 1, Len(row.delta) - Len(row.window))
\* versions that left the window: the first older_version_count entries of the delta chain
Older(row) == SubSeq(row.delta, 1, Len(row.delta) + 1 - Len(row.window))

\* what a snapshot that sees the transactions `seen` finds: the version and whether the
\* window holds its payload
read_version_detailed(row, seen) ==
    IF \E i \in DOMAIN row.window : row.window[i].xid \in seen
    THEN LET v == row.window[NewestVisible(row.window, seen)]
         IN  [found |-> TRUE, meta |-> Meta(v), payload |-> v.payload,
              authoritative |-> v.payload # Empty]
    ELSE IF row.window # <<>> /\ \E i \in DOMAIN Older(row) : Older(row)[i].xid \in seen
    THEN [found |-> TRUE, meta |-> Older(row)[NewestVisible(Older(row), seen)],
          payload |-> Empty, authoritative |-> FALSE]
    ELSE [found |-> FALSE]

(***************************************************************************)
(* The two files: a later record of a (timestamp, tuple id) replaces the   *)
(* earlier one.                                                            *)
(***************************************************************************)
KeyRecords == UNION Range(keyLog)
ValueBatches(x, tid) == {i \in DOMAIN valLog : \E r \in valLog[i] : r.xid = x /\ r.tid = tid}
HasValue(x, tid) == ValueBatches(x, tid) # {}
ValueAt(x, tid) == (CHOOSE r \in valLog[Max(ValueBatches(x, tid))] : r.xid = x /\ r.tid = tid).value

insert_batch(log, batch) == IF batch = {} THEN log ELSE Append(log, batch)

(***************************************************************************)
(* Reads.                                                                  *)
(***************************************************************************)
NoValue == [Empty EXCEPT !.base = -1]   \* no visible row
Missing == [Empty EXCEPT !.base = -2]   \* the error "missing value payload"

visible_value(k, seen) ==
    IF index[k] = NoId THEN NoValue
    ELSE LET r == read_version_detailed(rows[index[k]], seen)
         IN  CASE ~r.found \/ r.meta.deleted -> NoValue
               [] r.found /\ ~r.meta.deleted /\ r.authoritative -> r.payload
               [] OTHER -> IF HasValue(r.meta.xid, index[k])
                           THEN ValueAt(r.meta.xid, index[k]) ELSE Missing

(***************************************************************************)
(* A commit: the log entry, then the rows, then the deferred deltas.       *)
(***************************************************************************)
Init ==
    /\ xl = <<>> /\ keyLog = <<>> /\ valLog = <<>>
    /\ index = [k \in Key |-> NoId] /\ rows = <<>> /\ next = 1
    /\ tx = [x \in Xid |-> Idle]
    /\ acked = {} /\ phase = "up" /\ todo = <<>>
    /\ used = [faults |-> 0, crashes |-> 0]

StartPart(rec, part) ==
    [rec EXCEPT !.pc = "stripes", !.part = part, !.held = {}, !.missing = {}, !.ids = <<>>,
                !.values = <<>>, !.left = {"key", "value"}]

\* Commit locks keep two commits off the rows of each other.  Deferred deltas take no
\* lock: that other writers of their keys write deltas too is their caller's contract.
MayOverlap(ops, others) ==
    /\ Rows(ops) \cap KeysOf(others) = {}
    /\ Deltas(ops) \cap Rows(others) = {}

\* apply_cross_partition_tx_async writes for a transaction of another worker: without commit
\* locks and without an entry in this worker's log
ApplyForeign(x) ==
    /\ phase = "up" /\ tx[x].pc = "idle"
    /\ \E ops \in Foreign[x] :
        /\ \A y \in Xid : Active(y) => KeysOf(ops) \cap Deltas(tx[y].ops) = {}
        /\ tx' = [tx EXCEPT ![x] = StartPart([Idle EXCEPT !.ops = ops, !.foreign = TRUE], "rows")]
    /\ UNCHANGED <<xl, files, memory, acked, phase, todo, used>>

\* a statement found the row its delete or delta is for
Exists(k) == index[k] # NoId /\ visible_value(k, Xid) # NoValue

EnqueueCommit(x) ==
    /\ phase = "up" /\ tx[x].pc = "idle"
    /\ \E ops \in Batch[x] :
        /\ \A y \in Xid : Active(y) =>
            IF tx[y].foreign THEN Deltas(ops) \cap KeysOf(tx[y].ops) = {}
            ELSE MayOverlap(ops, tx[y].ops)
        /\ \A i \in DOMAIN ops : ops[i].op \in {"delete", "delta"} => Exists(ops[i].key)
        /\ xl' = Append(xl, [xid |-> x, ops |-> ops])
        /\ tx' = [tx EXCEPT ![x] = StartPart([Idle EXCEPT !.ops = ops],
                                             IF Rows(ops) # {} THEN "rows" ELSE "deltas")]
    /\ UNCHANGED <<files, memory, acked, phase, todo, used>>

StripesOf(x) == {StripeOf[k] : k \in PartKeys(x)}
\* mutant: stripes in no common order
WantedStripeOwn(x) ==
    IF x % 2 = 0 THEN Max(StripesOf(x) \ tx[x].held) ELSE Min(StripesOf(x) \ tx[x].held)
\* stripes are taken in ascending order
WantedStripe(x) == Min(StripesOf(x) \ tx[x].held)
\* mutant: no stripes
StripeFreeAlways(s) == TRUE
StripeFree(s) == \A y \in Xid : s \notin tx[y].held

TakeStripe(x) ==
    /\ phase = "up" /\ tx[x].pc = "stripes" /\ tx[x].held # StripesOf(x)
    /\ StripeFree(WantedStripe(x))
    /\ tx' = [tx EXCEPT ![x].held = @ \cup {WantedStripe(x)}]
    /\ UNCHANGED <<xl, files, memory, acked, phase, todo, used>>

\* index.get for every key of the batch ...
ResolveRows(x) ==
    /\ phase = "up" /\ tx[x].pc = "stripes" /\ tx[x].held = StripesOf(x)
    /\ tx' = [tx EXCEPT ![x].pc = "reserve",
                        ![x].missing = {k \in PartKeys(x) : index[k] = NoId},
                        ![x].ids = [k \in PartKeys(x) |-> index[k]]]
    /\ UNCHANGED <<xl, files, memory, acked, phase, todo, used>>

\* the tuple ids new keys get, in key order
NewIds(new) == [k \in new |-> next + Cardinality({j \in new : j < k})]
WithRows(ids) == [t \in DOMAIN rows \cup Range(ids) |->
                    IF t \in DOMAIN rows THEN rows[t] ELSE NoRow]

\* ... and the reservation of a tuple id for those it did not find
ReserveTupleIds(x) ==
    /\ phase = "up" /\ tx[x].pc = "reserve"
    /\ LET ids == NewIds(tx[x].missing) IN
        /\ index' = [k \in Key |-> IF k \in DOMAIN ids THEN ids[k] ELSE index[k]]
        /\ rows' = WithRows(ids)
        /\ next' = next + Cardinality(tx[x].missing)
        /\ tx' = [tx EXCEPT ![x].pc = IF tx[x].part = "rows" THEN "files" ELSE "compute",
                            ![x].held = {},
                            ![x].ids = [k \in PartKeys(x) |-> IF k \in DOMAIN ids THEN ids[k] ELSE @[k]]]
    /\ UNCHANGED <<xl, files, acked, phase, todo, used>>

KeyBatch(x) == {[xid |-> x, tid |-> tx[x].ids[k], key |-> k] : k \in PartKeys(x)}
ValueBatch(x) ==
    {[xid |-> x, tid |-> tx[x].ids[k],
      value |-> IF tx[x].part = "rows" THEN Put(x) ELSE tx[x].values[k]] :
        k \in {j \in PartKeys(x) : OpOn(tx[x].ops, j) # "delete"}}

\* the two insert_batch calls are polled together
WriteKeyFile(x) ==
    /\ phase = "up" /\ tx[x].pc = "files" /\ "key" \in tx[x].left
    /\ keyLog' = insert_batch(keyLog, KeyBatch(x))
    /\ tx' = [tx EXCEPT ![x].left = @ \ {"key"}]
    /\ UNCHANGED <<xl, valLog, memory, acked, phase, todo, used>>

WriteValueFile(x) ==
    /\ phase = "up" /\ tx[x].pc = "files" /\ "value" \in tx[x].left
    /\ valLog' = insert_batch(valLog, ValueBatch(x))
    /\ tx' = [tx EXCEPT ![x].left = @ \ {"value"}]
    /\ UNCHANGED <<xl, keyLog, memory, acked, phase, todo, used>>

\* One of the two writes fails: the commit returns the error.  Its log entry stays, and
\* so do the reserved ids, the other file's batch and the versions of deferred deltas.
FileWriteFails(x) ==
    /\ phase = "up" /\ tx[x].pc = "files" /\ tx[x].left # {}
    /\ used.faults < MaxFaults /\ used.faults + used.crashes < MaxBoth
    /\ tx' = [tx EXCEPT ![x].pc = "failed"]
    /\ used' = [used EXCEPT !.faults = @ + 1]
    /\ UNCHANGED <<xl, files, memory, acked, phase, todo>>

\* the version a row operation publishes
RowVersion(x, op) == Version(x, op = "delete", IF op = "delete" THEN Empty ELSE Put(x))

FilesWritten(x) == tx[x].left = {}

\* both files have the rows: publish the versions, then go on to the deltas
PublishRows(x) ==
    /\ phase = "up" /\ tx[x].pc = "files" /\ tx[x].part = "rows" /\ FilesWritten(x)
    /\ rows' = [t \in DOMAIN rows |->
                  IF t \in Range(tx[x].ids)
                  THEN LET k == CHOOSE j \in DOMAIN tx[x].ids : tx[x].ids[j] = t
                       IN  write_version_shallow(rows[t], RowVersion(x, OpOn(tx[x].ops, k)))
                  ELSE rows[t]]
    /\ tx' = [tx EXCEPT ![x] = IF Deltas(tx[x].ops) # {} THEN StartPart(tx[x], "deltas")
                               ELSE [tx[x] EXCEPT !.pc = "applied"]]
    /\ UNCHANGED <<xl, files, index, next, acked, phase, todo, used>>

\* the delta can be evaluated on the latest version as it is in memory
Computable(row, x) ==
    /\ row.window # <<>> /\ Latest(row).payload # Empty
    /\ Column(Latest(row).payload) + Amount[x] \in 0..Limit

apply_update_to_latest(row, x) ==
    write_version_shallow(row, Version(x, FALSE, Add(Latest(row).payload, x)))

ComputeDeltas(x) ==
    /\ phase = "up" /\ tx[x].pc = "compute"
    /\ \A t \in Range(tx[x].ids) : Computable(rows[t], x)
    /\ rows' = [t \in DOMAIN rows |->
                  IF t \in Range(tx[x].ids) THEN apply_update_to_latest(rows[t], x) ELSE rows[t]]
    /\ tx' = [tx EXCEPT ![x].pc = "files",
                        ![x].values = [k \in PartKeys(x) |-> Latest(rows'[tx[x].ids[k]]).payload]]
    /\ UNCHANGED <<xl, files, index, next, acked, phase, todo, used>>

\* A delta cannot be evaluated: the commit fails with its log entry written.  The rows
\* before it, in key order, keep their new version.
DeltaFails(x) ==
    /\ phase = "up" /\ tx[x].pc = "compute"
    /\ \E k \in PartKeys(x) :
        /\ ~Computable(rows[tx[x].ids[k]], x)
        /\ \A j \in PartKeys(x) : j < k => Computable(rows[tx[x].ids[j]], x)
        /\ rows' = [t \in DOMAIN rows |->
                      IF \E j \in PartKeys(x) : j < k /\ tx[x].ids[j] = t
                      THEN apply_update_to_latest(rows[t], x) ELSE rows[t]]
    /\ tx' = [tx EXCEPT ![x].pc = "failed"]
    /\ UNCHANGED <<xl, files, index, next, acked, phase, todo, used>>

\* the deltas' file records are written; no version is left to publish
DeltasWritten(x) ==
    /\ phase = "up" /\ tx[x].pc = "files" /\ tx[x].part = "deltas" /\ tx[x].left = {}
    /\ tx' = [tx EXCEPT ![x].pc = "applied"]
    /\ UNCHANGED <<xl, files, memory, acked, phase, todo, used>>

\* the worker's log is durable up to this commit
CommitReturns(x) ==
    /\ phase = "up" /\ tx[x].pc = "applied"
    /\ tx' = [tx EXCEPT ![x].pc = "done"]
    /\ acked' = acked \cup {x}
    /\ UNCHANGED <<xl, files, memory, phase, todo, used>>

(***************************************************************************)
(* A crash, the rebuild of the index, and the replay of the log.           *)
(***************************************************************************)
Logged(log) == {log[i].xid : i \in DOMAIN log}
AckedPrefix == Max({0} \cup {i \in DOMAIN xl : xl[i].xid \in acked})
FilePrefixes(log, kept) ==
    {p \in {SubSeq(log, 1, n) : n \in 0..Len(log)} :
        WalFirst => \A i \in DOMAIN p : \A r \in p[i] : r.xid \in kept \/ tx[r.xid].foreign}

\* The allocator restarts above the largest logged timestamp: later ones are used again.
AfterCrash(log) ==
    [x \in Xid |-> CASE tx[x].foreign ->
                        [Idle EXCEPT !.pc = "dead", !.foreign = TRUE, !.ops = tx[x].ops]
                     [] ~tx[x].foreign /\ x > Max({0} \cup Logged(log)) -> Idle
                     [] OTHER -> [Idle EXCEPT !.pc = "dead"]]

Crash ==
    /\ phase \in {"up", "replay"}
    /\ used.crashes < MaxCrashes /\ used.faults + used.crashes < MaxBoth
    /\ \E n \in AckedPrefix..Len(xl) :
        /\ xl' = SubSeq(xl, 1, n)
        /\ keyLog' \in FilePrefixes(keyLog, Logged(xl'))
        /\ valLog' \in FilePrefixes(valLog, Logged(xl'))
        /\ tx' = AfterCrash(xl')
    /\ index' = [k \in Key |-> NoId] /\ rows' = <<>> /\ next' = 1
    /\ phase' = "down" /\ todo' = <<>>
    /\ used' = [used EXCEPT !.crashes = @ + 1]
    /\ UNCHANGED acked

\* one tuple id per key: otherwise the rebuild returns an error
Rebuildable == \A r, s \in KeyRecords : r.key = s.key => r.tid = s.tid

\* the versions of a row, oldest first: a record without a value is a delete
RebuiltVersions(tid) ==
    LET xids == {r.xid : r \in {s \in KeyRecords : s.tid = tid}}
    IN  [i \in 1..Cardinality(xids) |->
            LET x == CHOOSE y \in xids : Cardinality({z \in xids : z < y}) = i - 1
            IN  Version(x, ~HasValue(x, tid), Empty)]
RebuiltRow(tid) == FoldLeft(write_version_shallow, NoRow, RebuiltVersions(tid))

EntryOps(e) == [i \in DOMAIN e.ops |->
                   [xid |-> e.xid, key |-> e.ops[i].key, op |-> e.ops[i].op]]
\* mutant: entries in the order of their transactions instead of their LSNs
ReplayOpsByXid(log) ==
    FoldLeft(LAMBDA acc, e : acc \o EntryOps(e), <<>>, SortSeq(log, LAMBDA d, e : d.xid < e.xid))
\* mutant: what the files hold already is not replayed
ReplayOpsSkips(log) ==
    FoldLeft(LAMBDA acc, e : acc \o SelectSeq(EntryOps(e), LAMBDA o :
                 ~\E r \in KeyRecords : r.xid = o.xid /\ r.key = o.key /\ HasValue(r.xid, r.tid)),
             <<>>, log)
ReplayOps(log) == FoldLeft(LAMBDA acc, e : acc \o EntryOps(e), <<>>, log)

\* an unusable key file is refused; else the index, the rows and next_tuple_id come from it
rebuild_from_files ==
    /\ phase = "down"
    /\ LET tids == {r.tid : r \in KeyRecords} IN
        /\ index' = [k \in Key |-> IF \E r \in KeyRecords : r.key = k
                                  THEN (CHOOSE r \in KeyRecords : r.key = k).tid ELSE NoId]
        /\ rows' = [t \in tids |-> RebuiltRow(t)]
        /\ next' = Max({0} \cup tids) + 1
    /\ phase' = IF Rebuildable THEN "replay" ELSE "refused"
    /\ todo' = ReplayOps(xl)
    /\ UNCHANGED <<xl, files, tx, acked, used>>

\* replay_batch writes one operation at a time, through the same paths as a commit
ReplayTarget(k) == IF index[k] = NoId THEN next ELSE index[k]
ReplayRow(k) == IF index[k] = NoId THEN NoRow ELSE rows[index[k]]

ReplayWrites(o, version) ==
    LET t == ReplayTarget(o.key) IN
    /\ index' = [index EXCEPT ![o.key] = t]
    /\ next' = IF index[o.key] = NoId THEN next + 1 ELSE next
    /\ rows' = (t :> write_version_shallow(ReplayRow(o.key), version)) @@ rows
    /\ keyLog' = insert_batch(keyLog, {[xid |-> o.xid, tid |-> t, key |-> o.key]})
    /\ valLog' = insert_batch(valLog, IF version.deleted THEN {}
                                      ELSE {[xid |-> o.xid, tid |-> t, value |-> version.payload]})

\* the version a replayed row operation publishes
ReplayVersion(o) == RowVersion(o.xid, o.op)

ReplayOp ==
    /\ phase = "replay" /\ todo # <<>>
    /\ todo' = Tail(todo)
    /\ LET o == Head(todo) IN
        \/ /\ o.op # "delta"
           /\ ReplayWrites(o, ReplayVersion(o))
           /\ UNCHANGED phase
        \/ /\ o.op = "delta" /\ Computable(ReplayRow(o.key), o.xid)
           /\ ReplayWrites(o, Version(o.xid, FALSE, Add(Latest(ReplayRow(o.key)).payload, o.xid)))
           /\ UNCHANGED phase
        \/ /\ o.op = "delta" /\ ~Computable(ReplayRow(o.key), o.xid)
           /\ phase' = "refused"
           /\ UNCHANGED <<files, memory>>
    /\ UNCHANGED <<xl, tx, acked, used>>

ReplayDone ==
    /\ phase = "replay" /\ todo = <<>>
    /\ phase' = "up"
    /\ UNCHANGED <<xl, files, memory, tx, acked, todo, used>>

CommitStep(x) ==
    \/ TakeStripe(x) \/ ResolveRows(x) \/ ReserveTupleIds(x)
    \/ WriteKeyFile(x) \/ WriteValueFile(x) \/ PublishRows(x)
    \/ ComputeDeltas(x) \/ DeltaFails(x) \/ DeltasWritten(x) \/ CommitReturns(x)

Next ==
    \/ \E x \in Xid : EnqueueCommit(x) \/ ApplyForeign(x) \/ CommitStep(x) \/ FileWriteFails(x)
    \/ Crash \/ rebuild_from_files \/ ReplayOp \/ ReplayDone

Spec == Init /\ [][Next]_vars

(***************************************************************************)
(* Properties.                                                             *)
(***************************************************************************)
\* the value the log gives a row: its entries applied in LSN order
LogsOps(ops, k) ==
    LET ApplyOp(v, o) == CASE o.key # k -> v
                           [] o.key = k /\ o.op = "put" -> Put(o.xid)
                           [] o.key = k /\ o.op = "delete" -> NoValue
                           [] OTHER -> IF v = NoValue THEN NoValue ELSE Add(v, o.xid)
    IN  FoldLeft(ApplyOp, NoValue, ops)
LogOps(log) == FoldLeft(LAMBDA acc, e : acc \o EntryOps(e), <<>>, log)
Logs(log, k) == LogsOps(LogOps(log), k)

Settled(k) == \A x \in Xid : tx[x].foreign \/ Active(x) \/ tx[x].pc = "failed"
                                => k \notin KeysOf(tx[x].ops)

\* A row that only this worker's own commits wrote, and none is working on, has, live and
\* after every recovery, the value the worker's log gives it: overlapping deferred deltas are
\* neither lost nor added twice, a replay over rebuilt rows changes nothing, and nothing of a
\* lost commit is left (write_rows, write_rows_delta, rebuild_from_files_async, replay_batch).
LatestIsLogged ==
    phase = "up" => \A k \in Key : Settled(k) => visible_value(k, Xid) = Logs(xl, k)

\* A key has one tuple id, in the index, in the commits in flight and in every record of
\* the key file, and no two keys share one: what a rebuild needs (write_stripes).
OneTupleId ==
    /\ \A r, s \in KeyRecords : r.key = s.key <=> r.tid = s.tid
    /\ phase = "up" =>
        /\ \A r \in KeyRecords : index[r.key] = r.tid
        /\ \A x \in Xid : Active(x) /\ tx[x].pc \in {"compute", "files"} =>
            \A k \in DOMAIN tx[x].ids : tx[x].ids[k] = index[k]

Unwritten == {x \in Xid : tx[x].pc \in {"files", "failed"} /\ tx[x].part = "deltas"}

\* Whatever version a snapshot finds, its payload can be read, from the window or from the
\* value file, and is the one its transaction wrote (visible_value, read_version_detailed).
\* A deferred delta that is still writing its file record is excepted.
ReadsOwnPayload ==
    phase = "up" => \A k \in Key : index[k] # NoId => \A seen \in SUBSET Xid :
        LET r == read_version_detailed(rows[index[k]], seen) IN
        r.found /\ ~r.meta.deleted /\ r.meta.xid \notin Unwritten =>
            LET v == visible_value(k, seen) IN
            /\ v # Missing
            /\ v.base = r.meta.xid \/ v.adds[r.meta.xid] = 1

\* The window and the delta chain together are the whole history: a snapshot finds the
\* newest version it sees among all versions ever appended to the row.
ReadsNewestVisible ==
    \A t \in DOMAIN rows : \A seen \in SUBSET Xid :
        LET row == rows[t]
            history == IF row.window = <<>> THEN <<>> ELSE Append(row.delta, Meta(Latest(row)))
            r == read_version_detailed(row, seen)
        IN  IF \E i \in DOMAIN history : history[i].xid \in seen
            THEN r.found /\ r.meta = history[NewestVisible(history, seen)]
            ELSE ~r.found

\* the deltas of a log can all be evaluated when its entries are applied in LSN order to
\* empty rows
LogApplies(log) ==
    LET ops == LogOps(log)
    IN  \A i \in DOMAIN ops : ops[i].op = "delta" =>
            LET v == LogsOps(SubSeq(ops, 1, i - 1), ops[i].key)
            IN  v # NoValue /\ Column(v) + Amount[ops[i].xid] \in 0..Limit

\* What the two files kept never makes recovery fail: it is refused only when the log alone
\* holds a delta that cannot be evaluated in LSN order (rebuild_from_files_async,
\* apply_relation_replay_update_async).
RefusedOnlyByLog == phase = "refused" => ~LogApplies(xl)

\* Recovery succeeds on every log a worker wrote (worker_storage.rs: the replay of a deferred
\* delta is such that "the result equals the live apply").
NeverRefused == phase # "refused"

\* The file records of a reported commit are durable (kv.rs: "the PL batches are durable
\* before the commit is reported").
AckedInFiles ==
    phase = "down" => \A i \in DOMAIN xl : xl[i].xid \in acked =>
        \A k \in KeysOf(xl[i].ops) : \E r \in KeyRecords : r.xid = xl[i].xid /\ r.key = k

\* the stripe a commit is waiting for is held by another
WaitsFor(x, y) ==
    /\ tx[x].pc = "stripes" /\ tx[x].held # StripesOf(x)
    /\ WantedStripe(x) \in tx[y].held

\* Batches that need several stripes never wait for each other in a circle (ascending order).
NoStripeCycle == ~\E x, y \in Xid : WaitsFor(x, y) /\ WaitsFor(y, x)
=============================================================================
