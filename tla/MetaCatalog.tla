---------------------------- MODULE MetaCatalog ----------------------------
(***************************************************************************)
(* The catalogs of mudu_kernel and the statements that use them            *)
(* (meta/meta_mgr.rs, meta/*_catalog.rs, command/, mudu_conn/plan_cache.rs *)
(* and the two run_sql_*_with_tx of server/worker.rs).                     *)
(*                                                                         *)
(* Every worker, a thread, has a MetaMgrImpl: maps in memory and its own   *)
(* catalog relations, all over the same files.  A DDL statement takes the  *)
(* lock of the path, checks the maps of its own worker, writes one catalog *)
(* row through its own worker's relation and flushes it, then changes the  *)
(* maps of every registered instance and bumps that instance's version.    *)
(* Other statements bind against their worker's maps and keep the plan in  *)
(* a cache tagged with the version.  A restart loads the maps from the     *)
(* files and replays the workers' logs, whose entries name tables by id.   *)
(*                                                                         *)
(* WorkerRelation models what is below a catalog row; here a row is one    *)
(* frame in its catalog's log, which stands for the logs of the relation's *)
(* key file and value file: `cut` says in which of the two a failed write  *)
(* has left a hole.                                                        *)
(***************************************************************************)
EXTENDS Integers, FiniteSets, Sequences, FiniteSetsExt, SequencesExt, Functions

CONSTANTS
    Worker,       \* workers: naturals, in the order they registered
    DdlSession,   \* sessions that run DDL statements
    StmtSession,  \* sessions that run other statements
    Home,         \* Home[s]: the worker of a session
    Name,         \* table names
    Rule,         \* partition rules
    FsName,       \* names of filesystem types
    Partition,    \* partitions that are placed on workers
    PlanCacheShardCapacity,  \* plans a worker's cache has room for (one shard)
    MaxDdl,       \* bound: DDL statements
    MaxPlace,     \* bound: placement statements among them
    MaxFaults,    \* bound: failed catalog writes
    MaxCrashes    \* bound: crashes

VARIABLES
    meta,    \* the maps of each worker's MetaMgrImpl
    disk,    \* the log of each catalog: frames [key, val, cut]
    pos,     \* pos[w][c]: how many frames the log has for worker w's relation
    lock,    \* ddl_lock: the session that holds it
    ddl,     \* DDL statements in progress
    stmt,    \* other statements in progress
    cache,   \* the plan cache of each worker
    info,    \* the schemas made so far, by table id (the content of a TableInfo)
    logged,  \* table ids the workers' logs name
    phase,   \* "up", "down" after a crash, "refused" when recovery failed
    acked,   \* history: DDL statements reported to their client
    tried,   \* history: drops that passed their check, tables whose write failed, statements
             \* whose row was written behind a hole
    used     \* bounded counters

vars == <<meta, disk, pos, lock, ddl, stmt, cache, info, logged, phase, acked, tried, used>>

None == "none"
NoId == 0
Session == DdlSession \cup StmtSession
Catalogs == {"schema", "rule", "binding", "placement", "fs"}

EmptyMeta == [table |-> [n \in Name |-> NoId], id2table |-> {}, rule |-> {}, binding |-> <<>>,
              placement |-> [p \in Partition |-> NoId], fs |-> [f \in FsName |-> NoId],
              next_fs_id |-> 1, version |-> 0]
NoOp == [kind |-> None]
IdleDdl == [pc |-> "idle", op |-> NoOp, then |-> NoOp, left |-> <<>>, stage |-> 0]
IdleStmt == [pc |-> "idle", name |-> None, version |-> 0, id |-> NoId]
Cuts == {"none", "key", "value"}
NoPlan == [version |-> -1, id |-> NoId]

KeyOf(c) == CASE c \in {"schema", "binding"} -> DOMAIN info
              [] c = "rule" -> Rule
              [] c = "placement" -> Partition
              [] c = "fs" -> FsName
ValOf(c) == CASE c = "schema" -> DOMAIN info
              [] c \in {"rule", "binding"} -> Rule
              [] c = "placement" -> Worker
              [] c = "fs" -> 1 .. MaxDdl

\* Types of the maps, of the catalogs' files and of the plans.
TypeOK ==
    /\ \A w \in Worker :
        /\ meta[w].table \in [Name -> Nat] /\ meta[w].id2table \subseteq DOMAIN info
        /\ meta[w].rule \subseteq Rule /\ DOMAIN meta[w].binding \subseteq DOMAIN info
        /\ meta[w].placement \in [Partition -> Worker \cup {NoId}]
        /\ meta[w].fs \in [FsName -> Nat]
        /\ pos[w] \in [Catalogs -> Nat]
    /\ \A c \in Catalogs : disk[c] \in Seq([key : KeyOf(c), val : SUBSET ValOf(c), cut : Cuts])
    /\ lock \in DdlSession \cup {None}
    /\ cache \in [Worker -> [Name -> {NoPlan} \cup [version : Nat, id : DOMAIN info]]]
    /\ logged \subseteq DOMAIN info
    /\ phase \in {"up", "down", "refused"}

(***************************************************************************)
(* The maps: scc::HashMap::insert_sync leaves a present key as it is.      *)
(***************************************************************************)
insert_sync(f, k, v) == IF f[k] = NoId THEN [f EXCEPT ![k] = v] ELSE f

apply_create_table_local(m, id) ==
    [m EXCEPT !.table = insert_sync(@, info[id].name, id), !.id2table = @ \cup {id}]

apply_drop_table_local(m, id) ==
    [m EXCEPT !.table[info[id].name] = NoId, !.id2table = @ \ {id}]

apply_bind_table_partition_local(m, id, r) ==
    [m EXCEPT !.binding = IF id \in DOMAIN @ THEN @ ELSE [i \in DOMAIN @ \cup {id} |->
                                                           IF i = id THEN r ELSE @[i]]]

apply_create_fs_type_local(m, f, fid) ==
    [m EXCEPT !.next_fs_id = Max({@, fid + 1}), !.fs = insert_sync(@, f, fid)]

\* what one statement changes in the maps of one instance
ApplyLocal(m, op) ==
    CASE op.kind = "table"  -> apply_create_table_local(m, op.id)
      [] op.kind = "drop"   -> apply_drop_table_local(m, op.id)
      [] op.kind = "rule"   -> [m EXCEPT !.rule = @ \cup {op.rule}]
      [] op.kind = "bind"   -> apply_bind_table_partition_local(m, op.id, op.rule)
      [] op.kind = "place"  -> [m EXCEPT !.placement = insert_sync(@, op.part, op.worker)]
      [] op.kind = "fs"     -> apply_create_fs_type_local(m, op.fs, op.fid)
      [] op.kind = "dropfs" -> [m EXCEPT !.fs[op.fs] = NoId]

\* the catalog row a statement writes: a delete has no value
CatalogOf(op) == CASE op.kind \in {"table", "drop"} -> "schema"
                   [] op.kind = "rule" -> "rule"
                   [] op.kind = "bind" -> "binding"
                   [] op.kind = "place" -> "placement"
                   [] OTHER -> "fs"
Frame(k, v) == [key |-> k, val |-> v, cut |-> "none"]
Row(op) == CASE op.kind = "table" -> Frame(op.id, {op.id})
             [] op.kind = "drop" -> Frame(op.id, {})
             [] op.kind = "rule" -> Frame(op.rule, {op.rule})
             [] op.kind = "bind" -> Frame(op.id, {op.rule})
             [] op.kind = "place" -> Frame(op.part, {op.worker})
             [] op.kind = "fs" -> Frame(op.fs, {op.fid})
             [] OTHER -> Frame(op.fs, {})

\* mutant: the frames are queued and not flushed
FlushedNot(log, p, row) == {log}
\* The frame goes where the writing relation's tail is.  When other instances have written
\* there, it replaces their frame, and those behind it may have become unreadable.
Flushed(log, p, row) ==
    LET front == Append(SubSeq(log, 1, p), row)
    IN  {front, front \o SubSeq(log, p + 2, Len(log))}

\* What a failed flush leaves at the place it has reserved in the logs: the row (the write
\* succeeded and its fsync failed), its key alone, or a hole in one of the two logs.  The
\* queue is drained, nothing is written to the hole later.
FailedFrames(row) ==
    {row, [row EXCEPT !.val = {}], [row EXCEPT !.val = {}, !.cut = "key"]}
    \cup {[row EXCEPT !.val = {}, !.cut = "value"] : v \in row.val}

HasHole(log) == \E i \in DOMAIN log : log[i].cut # "none"

\* scan_tail_async: the log of the key file, and that of the value file, end before the
\* first hole; a key without its value is a delete
Prefix(log) ==
    LET end == Min({i \in DOMAIN log : log[i].cut = "key"} \cup {Len(log) + 1}) - 1
    IN  [i \in 1 .. end |-> Frame(log[i].key, IF HasHole(SubSeq(log, 1, i)) THEN {} ELSE log[i].val)]

(***************************************************************************)
(* DDL statements.                                                         *)
(***************************************************************************)
Init ==
    /\ meta = [w \in Worker |-> EmptyMeta]
    /\ disk = [c \in Catalogs |-> <<>>]
    /\ pos = [w \in Worker |-> [c \in Catalogs |-> 0]]
    /\ lock = None
    /\ ddl = [s \in DdlSession |-> IdleDdl]
    /\ stmt = [s \in StmtSession |-> IdleStmt]
    /\ cache = [w \in Worker |-> [n \in Name |-> NoPlan]]
    /\ info = <<>> /\ logged = {} /\ phase = "up"
    /\ acked = {} /\ tried = [drop |-> {}, dropfs |-> {}, failed |-> {}, beyond |-> {}]
    /\ used = [ddl |-> 0, place |-> 0, faults |-> 0, crashes |-> 0]

\* a worker's thread runs a broadcast to its end: nothing else of that worker moves
Free(w) == \A s \in DdlSession : Home[s] = w => ddl[s].pc # "broadcast"

Begin(s, op, then) ==
    /\ ddl' = [ddl EXCEPT ![s] = [IdleDdl EXCEPT !.pc = "lock", !.op = op, !.then = then]]
    /\ used' = [used EXCEPT !.ddl = @ + 1, !.place = IF op.kind = "place" THEN @ + 1 ELSE @]
    /\ UNCHANGED <<meta, disk, pos, lock, stmt, cache, logged, phase, acked, tried>>

MayBegin(s) ==
    /\ phase = "up" /\ ddl[s].pc = "idle" /\ Free(Home[s]) /\ used.ddl < MaxDdl

\* bind_create_table makes the schema, with a fresh id and the filesystem type its column
\* names, and the binding to the rule; prepare() finds no table of this name
BindCreateTable(s) ==
    /\ MayBegin(s)
    /\ LET m == meta[Home[s]]
           id == Len(info) + 1
       IN  \E n \in Name, r \in m.rule \cup {None}, f \in {g \in FsName : m.fs[g] # NoId} \cup {None} :
            /\ m.table[n] = NoId
            /\ info' = Append(info, [name |-> n, fid |-> IF f = None THEN NoId ELSE m.fs[f]])
            /\ Begin(s, [kind |-> "table", id |-> id],
                     IF r = None THEN NoOp ELSE [kind |-> "bind", id |-> id, rule |-> r])

\* the statements that make no schema
OtherOps(m) ==
    {[kind |-> "drop", id |-> m.table[n]] : n \in {k \in Name : m.table[k] # NoId}}
    \cup {[kind |-> "rule", rule |-> r] : r \in Rule}
    \cup (IF used.place < MaxPlace
          THEN {[kind |-> "place", part |-> p, worker |-> w] : p \in Partition, w \in Worker} ELSE {})
    \cup {[kind |-> "fs", fs |-> f, fid |-> NoId] : f \in {g \in FsName : m.fs[g] = NoId}}
    \cup {[kind |-> "dropfs", fs |-> f] : f \in {g \in FsName : m.fs[g] # NoId}}

BindOther(s) ==
    /\ MayBegin(s)
    /\ \E op \in OtherOps(meta[Home[s]]) : Begin(s, op, NoOp)
    /\ UNCHANGED info

\* check_fs_type_not_referenced
Referenced(m, fid) == \E n \in Name : m.table[n] # NoId /\ info[m.table[n]].fid = fid

\* the checks each *_inner makes under the lock
Allowed(m, op) ==
    CASE op.kind = "table"  -> m.table[info[op.id].name] = NoId
      [] op.kind = "drop"   -> op.id \in m.id2table
      [] op.kind = "rule"   -> op.rule \notin m.rule
      [] op.kind = "bind"   -> op.id \in m.id2table /\ op.rule \in m.rule
      [] op.kind = "place"  -> TRUE
      [] op.kind = "fs"     -> m.fs[op.fs] = NoId
      [] op.kind = "dropfs" -> m.fs[op.fs] # NoId /\ ~Referenced(m, m.fs[op.fs])

Stages == <<"write", "broadcast">>

\* mutant: only the other instances are told
PeersOthers(s) == SetToSortSeq(Worker \ {Home[s]}, <)
\* peer_instances: every registered instance, in the order of registration
Peers(s) == SetToSortSeq(Worker, <)

\* mutant: the version first, then the maps
StepsBumpFirst(w) == <<[worker |-> w, do |-> "bump"], [worker |-> w, do |-> "apply"]>>
\* what a broadcast does to one instance: its maps, then its version
Steps(w) == <<[worker |-> w, do |-> "apply"], [worker |-> w, do |-> "bump"]>>
BroadcastSteps(peers) == FlattenSeq([i \in DOMAIN peers |-> Steps(peers[i])])

Locked(op, m) == IF op.kind = "fs" THEN [op EXCEPT !.fid = m.next_fs_id] ELSE op

\* take ddl_lock and check; a refused statement has let go of the lock again
LockAndCheck(s) ==
    /\ phase = "up" /\ ddl[s].pc = "lock" /\ lock = None /\ Free(Home[s])
    /\ LET m == meta[Home[s]]
           op == ddl[s].op
       IN  IF Allowed(m, op)
           THEN /\ lock' = s
                /\ ddl' = [ddl EXCEPT ![s].pc = Stages[1], ![s].stage = 1,
                                      ![s].op = Locked(op, m), ![s].left = BroadcastSteps(Peers(s))]
                /\ meta' = [meta EXCEPT ![Home[s]].next_fs_id = IF op.kind = "fs" THEN @ + 1 ELSE @]
                /\ tried' = [tried EXCEPT !.drop = IF op.kind = "drop" THEN @ \cup {op.id} ELSE @,
                                          !.dropfs = IF op.kind = "dropfs" THEN @ \cup {op.fs} ELSE @]
           ELSE /\ ddl' = [ddl EXCEPT ![s] = IdleDdl]
                /\ UNCHANGED <<lock, meta, tried>>
    /\ UNCHANGED <<disk, pos, stmt, cache, info, logged, phase, acked, used>>

\* the stage after this one; behind the last one the lock is free
NextStage(s) ==
    IF ddl[s].stage < Len(Stages)
    THEN [ddl[s] EXCEPT !.stage = @ + 1, !.pc = Stages[ddl[s].stage + 1]]
    ELSE [ddl[s] EXCEPT !.pc = "return"]
LockAfter(s) == IF ddl[s].stage < Len(Stages) THEN lock ELSE None

\* write_*_to_catalog: the row is in the catalog's log when it returns
WriteCatalog(s) ==
    /\ phase = "up" /\ ddl[s].pc = "write" /\ Free(Home[s])
    /\ LET c == CatalogOf(ddl[s].op)
           p == pos[Home[s]][c]
       IN  /\ \E log \in Flushed(disk[c], p, Row(ddl[s].op)) : disk' = [disk EXCEPT ![c] = log]
           /\ pos' = [pos EXCEPT ![Home[s]][c] = p + 1]
           /\ tried' = [tried EXCEPT !.beyond = IF HasHole(disk[c]) THEN @ \cup {ddl[s].op} ELSE @]
    /\ ddl' = [ddl EXCEPT ![s] = NextStage(s)]
    /\ lock' = LockAfter(s)
    /\ UNCHANGED <<meta, stmt, cache, info, logged, phase, acked, used>>

\* The write or the flush fails and the statement returns the error.  Before anything is
\* queued, the logs stay as they are.  Behind that, the place is taken: what the failed
\* flush, or a later one of frames that stay queued, leaves there is chosen now.
WriteCatalogFails(s) ==
    /\ phase = "up" /\ ddl[s].pc = "write" /\ Free(Home[s]) /\ used.faults < MaxFaults
    /\ LET c == CatalogOf(ddl[s].op)
           p == pos[Home[s]][c]
       IN  \/ UNCHANGED <<disk, pos>>
           \/ /\ \E f \in FailedFrames(Row(ddl[s].op)) :
                    disk' = [disk EXCEPT ![c] = Append(SubSeq(@, 1, p), f)]
              /\ pos' = [pos EXCEPT ![Home[s]][c] = p + 1]
    /\ ddl' = [ddl EXCEPT ![s] = IdleDdl]
    /\ lock' = None
    /\ tried' = [tried EXCEPT !.failed = IF ddl[s].op.kind = "table"
                                         THEN @ \cup {info[ddl[s].op.id].name} ELSE @]
    /\ used' = [used EXCEPT !.faults = @ + 1]
    /\ UNCHANGED <<meta, stmt, cache, info, logged, phase, acked>>

\* One step of a broadcast.  `left` holds the steps that are still to come.
Broadcast(s) ==
    /\ phase = "up" /\ ddl[s].pc = "broadcast"
    /\ LET steps == ddl[s].left
           step == Head(steps)
       IN  /\ meta' = [meta EXCEPT ![step.worker] =
                         IF step.do = "apply" THEN ApplyLocal(@, ddl[s].op)
                         ELSE [@ EXCEPT !.version = @ + 1]]
           /\ ddl' = [ddl EXCEPT ![s] = IF Tail(steps) = <<>> THEN NextStage(s)
                                        ELSE [ddl[s] EXCEPT !.left = Tail(steps)]]
           /\ lock' = IF Tail(steps) = <<>> THEN LockAfter(s) ELSE lock
    /\ UNCHANGED <<disk, pos, stmt, cache, info, logged, phase, acked, tried, used>>

\* The statement returns.  CREATE TABLE with a rule goes on to bind_table_partition.
DdlReturns(s) ==
    /\ phase = "up" /\ ddl[s].pc = "return" /\ Free(Home[s])
    /\ IF ddl[s].then # NoOp
       THEN /\ ddl' = [ddl EXCEPT ![s] = [IdleDdl EXCEPT !.pc = "lock", !.op = ddl[s].then]]
            /\ UNCHANGED acked
       ELSE /\ ddl' = [ddl EXCEPT ![s] = IdleDdl]
            /\ acked' = acked \cup {ddl[s].op}
    /\ UNCHANGED <<meta, disk, pos, lock, stmt, cache, info, logged, phase, tried, used>>

(***************************************************************************)
(* Other statements: look the plan up, else bind and cache it, then run.   *)
(***************************************************************************)
StmtMoves(s, pc) == phase = "up" /\ stmt[s].pc = pc /\ Free(Home[s])

\* the version, and a hit in the cache
LookUpPlan(s) ==
    /\ StmtMoves(s, "idle")
    /\ \E n \in Name :
        LET w == Home[s]
            hit == cache[w][n].version = meta[w].version
        IN  stmt' = [stmt EXCEPT ![s] = [pc |-> IF hit THEN "run" ELSE "bind", name |-> n,
                                         version |-> meta[w].version,
                                         id |-> IF hit THEN cache[w][n].id ELSE NoId]]
    /\ UNCHANGED <<meta, disk, pos, lock, ddl, cache, info, logged, phase, acked, tried, used>>

\* bind_template: an unknown name is an error
BindTemplate(s) ==
    /\ StmtMoves(s, "bind")
    /\ LET id == meta[Home[s]].table[stmt[s].name]
       IN  stmt' = [stmt EXCEPT ![s] = IF id = NoId THEN IdleStmt
                                       ELSE [@ EXCEPT !.pc = "insert", !.id = id]]
    /\ UNCHANGED <<meta, disk, pos, lock, ddl, cache, info, logged, phase, acked, tried, used>>

\* PlanCache::insert replaces a plan, or adds one while there is room
HasRoom(w, n) ==
    \/ cache[w][n] # NoPlan
    \/ Cardinality({m \in Name : cache[w][m] # NoPlan}) < PlanCacheShardCapacity

\* the plan is cached only when the version is still the one read before the bind
InsertPlan(s) ==
    /\ StmtMoves(s, "insert")
    /\ LET w == Home[s]
           plan == [version |-> stmt[s].version, id |-> stmt[s].id]
       IN  cache' = [cache EXCEPT ![w][stmt[s].name] =
                        IF meta[w].version = stmt[s].version /\ HasRoom(w, stmt[s].name)
                        THEN plan ELSE @]
    /\ stmt' = [stmt EXCEPT ![s].pc = "run"]
    /\ UNCHANGED <<meta, disk, pos, lock, ddl, info, logged, phase, acked, tried, used>>

\* get_table_by_id of the plan's table
RunPlan(s) ==
    /\ StmtMoves(s, "run")
    /\ stmt' = [stmt EXCEPT ![s] = IF stmt[s].id \in meta[Home[s]].id2table
                                   THEN [@ EXCEPT !.pc = "commit"] ELSE IdleStmt]
    /\ UNCHANGED <<meta, disk, pos, lock, ddl, cache, info, logged, phase, acked, tried, used>>

\* the commit of a written row puts an entry for its table into the worker's log
LogRow(s) ==
    /\ StmtMoves(s, "commit")
    /\ logged' = logged \cup {stmt[s].id}
    /\ stmt' = [stmt EXCEPT ![s] = IdleStmt]
    /\ UNCHANGED <<meta, disk, pos, lock, ddl, cache, info, phase, acked, tried, used>>

(***************************************************************************)
(* A crash and the restart of all workers.                                 *)
(***************************************************************************)
\* a row that was being written is lost, whole, or a key without its value: a delete
Torn(log, row) == {log, Append(log, row), Append(log, [row EXCEPT !.val = {}])}
Writing == {s \in DdlSession : ddl[s].pc = "write"}

Crash ==
    /\ phase = "up" /\ used.crashes < MaxCrashes
    /\ disk' \in {disk} \cup UNION {
            LET c == CatalogOf(ddl[s].op)
            IN  {[disk EXCEPT ![c] = log] : log \in Torn(disk[c], Row(ddl[s].op))} : s \in Writing}
    /\ phase' = "down"
    /\ meta' = [w \in Worker |-> EmptyMeta]
    /\ lock' = None
    /\ ddl' = [s \in DdlSession |-> IdleDdl]
    /\ stmt' = [s \in StmtSession |-> IdleStmt]
    /\ cache' = [w \in Worker |-> [n \in Name |-> NoPlan]]
    /\ used' = [used EXCEPT !.crashes = @ + 1]
    /\ UNCHANGED <<pos, info, logged, acked, tried>>

\* the visible rows of a catalog: the last frame of each key that is not a delete
Keys(c) == {f.key : f \in Range(Prefix(disk[c]))}
LastVal(c, k) ==
    LET log == Prefix(disk[c]) IN log[Max({i \in DOMAIN log : log[i].key = k})].val
Visible(c) == {k \in Keys(c) : LastVal(c, k) # {}}
ValueIn(c, k) == CHOOSE v \in LastVal(c, k) : TRUE

\* the tables of one name: the one with the smallest id is found by it
Loaded ==
    LET ids == Visible("schema")
        named(n) == {i \in ids : info[i].name = n}
        fids == {ValueIn("fs", f) : f \in Visible("fs")}
    IN  [EmptyMeta EXCEPT
           !.table = [n \in Name |-> IF named(n) = {} THEN NoId ELSE Min(named(n))],
           !.id2table = ids,
           !.rule = Visible("rule"),
           !.binding = [i \in Visible("binding") |-> ValueIn("binding", i)],
           !.placement = [p \in Partition |-> IF p \in Visible("placement")
                                              THEN ValueIn("placement", p) ELSE NoId],
           !.fs = [f \in FsName |-> IF f \in Visible("fs") THEN ValueIn("fs", f) ELSE NoId],
           !.next_fs_id = Max({0} \cup fids) + 1]

\* bootstrap looks up the rule of every bound table, replay the table of every log entry
Recoverable(m) ==
    /\ \A i \in m.id2table \cap DOMAIN m.binding : m.binding[i] \in m.rule
    /\ logged \subseteq m.id2table

\* initialize_inner, bootstrap_existing_tables_async and the replay, on all workers
Restart ==
    /\ phase = "down"
    /\ meta' = [w \in Worker |-> Loaded]
    /\ disk' = [c \in Catalogs |-> Prefix(disk[c])]
    /\ pos' = [w \in Worker |-> [c \in Catalogs |-> Len(disk'[c])]]
    /\ phase' = IF Recoverable(Loaded) THEN "up" ELSE "refused"
    /\ UNCHANGED <<lock, ddl, stmt, cache, info, logged, acked, tried, used>>

Next ==
    \/ \E s \in DdlSession :
        \/ BindCreateTable(s) \/ BindOther(s) \/ LockAndCheck(s)
        \/ WriteCatalog(s) \/ WriteCatalogFails(s) \/ Broadcast(s) \/ DdlReturns(s)
    \/ \E s \in StmtSession :
        LookUpPlan(s) \/ BindTemplate(s) \/ InsertPlan(s) \/ RunPlan(s) \/ LogRow(s)
    \/ Crash \/ Restart

Spec == Init /\ [][Next]_vars

(***************************************************************************)
(* Properties.                                                             *)
(***************************************************************************)
\* Between two DDL statements every worker has the same tables, rules, bindings, placements
\* and filesystem types, and the same version ("all instances on the same path advance in
\* lockstep").  As long as no catalog write of a CREATE TABLE has failed, it
\* finds a table by its name exactly when it finds it by its id.
CatalogsAgree ==
    phase = "up" /\ lock = None =>
        \A w, v \in Worker :
            /\ [meta[w] EXCEPT !.next_fs_id = 0] = [meta[v] EXCEPT !.next_fs_id = 0]
            /\ tried.failed = {} =>
                meta[w].id2table = {meta[w].table[n] : n \in Name} \ {NoId}

\* the maps of w have changed and its version has not
Behind(w) == \E s \in DdlSession : ddl[s].pc = "broadcast"
                                   /\ Head(ddl[s].left) = [worker |-> w, do |-> "bump"]

\* A plan the cache would give out names the table its statement would be bound to now: no
\* order of binds, inserts and DDL of other workers leaves a stale plan under the current
\* version (run_sql_query_with_tx, bump_catalog_version).
PlanFresh ==
    \A w \in Worker, n \in Name :
        cache[w][n].version = meta[w].version /\ ~Behind(w) => cache[w][n].id = meta[w].table[n]

AckedHolds(op, m) ==
    CASE op.kind = "table" ->
            op.id \notin tried.drop =>
                /\ op.id \in m.id2table
                /\ info[op.id].name \notin tried.failed => m.table[info[op.id].name] = op.id
      [] op.kind = "drop" -> op.id \notin m.id2table
      [] op.kind = "rule" -> op.rule \in m.rule
      [] op.kind = "bind" -> op.id \notin tried.drop =>
                                /\ op.id \in m.id2table /\ op.id \in DOMAIN m.binding
                                /\ m.binding[op.id] = op.rule
      [] op.kind = "fs" -> op.fs \notin tried.dropfs => m.fs[op.fs] = op.fid
      [] OTHER -> TRUE

\* the statement's row, and for a binding that of its table, was written behind a hole
BeyondHole(op) ==
    \/ op \in tried.beyond
    \/ op.kind = "bind" /\ [kind |-> "table", id |-> op.id] \in tried.beyond

\* A DDL statement that was reported is in every worker's maps, before and after every
\* crash, until it is undone; a catalog write that failed takes nothing of what was reported
\* before it.  Excepted are statements whose row was written behind the hole a failed flush
\* has left in their catalog's log (write_schema_to_catalog, run_flush_log).
DdlDurable ==
    phase # "down" =>
        \A op \in acked, w \in Worker : ~BeyondHole(op) => AckedHolds(op, meta[w])

\* Every DDL statement that was reported is there, also behind a hole ("so the DDL is
\* durable when it returns").
DdlDurableAlways ==
    phase # "down" => \A op \in acked, w \in Worker : AckedHolds(op, meta[w])

\* Recovery fails only when a worker's log names a table that somebody dropped, or a row was
\* written behind a hole: no crash leaves a log entry whose table, or a binding whose rule,
\* is not in the catalogs yet.
RefusedOnlyByDrop == phase = "refused" => logged \cap tried.drop # {} \/ tried.beyond # {}

\* Recovery succeeds (recovery.rs: the log is replayed "before the worker starts serving
\* live traffic").
RecoverySucceeds == phase # "refused"

\* A column's filesystem type exists (meta_mgr.rs: "Reject dropping a filesystem type that
\* is still referenced by an FS-bound table column").
FsTypeExists ==
    \A w \in Worker : ~Behind(w) /\ lock = None =>
        \A n \in Name : meta[w].table[n] # NoId /\ info[meta[w].table[n]].fid # NoId =>
            \E f \in FsName : meta[w].fs[f] = info[meta[w].table[n]].fid

\* A partition is where its last acknowledged placement put it.
PlacementFollows ==
    phase = "up" /\ lock = None =>
        \A w \in Worker, p \in Visible("placement") :
            meta[w].placement[p] = ValueIn("placement", p)
=============================================================================
