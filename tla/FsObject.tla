------------------------------- MODULE FsObject ------------------------------
(***************************************************************************)
(* Filesystem objects of one worker of mudu_kernel: the DML hooks that     *)
(* bind object ids to table rows, the transactional _fs_object rows, the   *)
(* content files written through session file descriptors, the periodic    *)
(* garbage collection of content, and the recovery scan after a crash.     *)
(*                                                                         *)
(* Rows of the table are written under a statement lock, rows of           *)
(* _fs_object under the conflict check of the commit.  An object is        *)
(* created PENDING at generation 0; its only content generation is 1, and  *)
(* it is SEALED at generation 1.  So a content file is current exactly     *)
(* when the row is SEALED, and generations need no numbers here.           *)
(* Commits are durable when they take effect (WorkerWal is about that);    *)
(* file descriptors have no numbers (FsFd is about those)     .            *)
(***************************************************************************)
EXTENDS Naturals, Sequences, FiniteSets

CONSTANTS
    Session,
    Row,           \* rows of a table with one FS-bound column
    Entry,         \* paths in an object: one for a FILE object
    IsDirectory,   \* FsTypeKind::Directory rather than File
    MaxTs,         \* bound on next_ts
    MaxOid,        \* bound on object ids ever generated
    MaxFds,        \* bound on the write fds a session has open
    GcRuns,        \* does the periodic garbage collection run?
    MaxCrashes     \* bound on crashes

ASSUME FsAssumption ==
    /\ {MaxTs, MaxOid, MaxFds, MaxCrashes} \subseteq Nat
    /\ {IsDirectory, GcRuns} \subseteq BOOLEAN

Oid == 1..MaxOid
None == 0

VARIABLES
    next_ts, running,  \* WorkerSnapshotMgr
    tx,                \* Session -> its transaction
    lock,              \* Row -> xid holding its statement lock, or None
    table,             \* Row -> object id of the committed row, or None
    rows,              \* Oid -> committed versions of the _fs_object row
    staged_row,        \* Session -> staged table rows: Row -> Oid or None
    staged_obj,        \* Session -> staged _fs_object rows: Oid -> state
    stmt,              \* Session -> the DML statement between hook and lock
    next_oid,
    fds,               \* Session -> its write fds
    file,              \* content path -> [exists, ino, synced]
    gc,                \* the garbage collection round
    up, crashes

txvars == <<tx, staged_row, staged_obj>>
dbvars == <<next_ts, running, lock, table, rows>>
sysvars == <<gc, up, crashes>>
vars == <<dbvars, txvars, stmt, next_oid, fds, file, sysvars>>

NoTx == [xid |-> None, running |-> {}]
NoStmt == [op |-> "none", row |-> None, old |-> None, new |-> None]
NoGc == [phase |-> "idle", horizon |-> 0, listed |-> {}, doomed |-> {}]
Empty == [x \in {} |-> None]
Path == Oid \X Entry

Init ==
    /\ next_ts = 0
    /\ running = {}
    /\ tx = [s \in Session |-> NoTx]
    /\ lock = [r \in Row |-> None]
    /\ table = [r \in Row |-> None]
    /\ rows = [o \in Oid |-> <<>>]
    /\ staged_row = [s \in Session |-> Empty]
    /\ staged_obj = [s \in Session |-> Empty]
    /\ stmt = [s \in Session |-> NoStmt]
    /\ next_oid = 1
    /\ fds = [s \in Session |-> {}]
    /\ file = [p \in Path |-> [exists |-> FALSE, ino |-> 0, synced |-> FALSE]]
    /\ gc = NoGc
    /\ up = TRUE
    /\ crashes = 0

-----------------------------------------------------------------------------
(* The _fs_object row of o as a snapshot with bound x and no running       *)
(* transactions sees it.                                                   *)
Newest(S) == CHOOSE i \in S : \A j \in S : j <= i

StateAt(o, x) ==
    LET vis == {i \in DOMAIN rows[o] : rows[o][i].xid <= x}
    IN  IF vis = {} THEN "absent" ELSE rows[o][Newest(vis)].state

Committed(o) == StateAt(o, MaxTs)

Put(f, k, v) == [x \in DOMAIN f \union {k} |-> IF x = k THEN v ELSE f[x]]

StagedRow(s, r) ==
    IF r \in DOMAIN staged_row[s] THEN staged_row[s][r] ELSE table[r]

Ready(s) == up /\ stmt[s] = NoStmt

InTx(s) == Ready(s) /\ tx[s] # NoTx

Begin(s) ==
    /\ Ready(s) /\ tx[s] = NoTx /\ next_ts < MaxTs
    /\ next_ts' = next_ts + 1
    /\ running' = running \union {next_ts + 1}
    /\ tx' = [tx EXCEPT ![s] = [xid |-> next_ts + 1, running |-> running]]
    /\ UNCHANGED <<lock, table, rows, staged_row, staged_obj, stmt, next_oid,
                   fds, file, sysvars>>

Forget(s) ==
    /\ tx' = [tx EXCEPT ![s] = NoTx]
    /\ staged_row' = [staged_row EXCEPT ![s] = Empty]
    /\ staged_obj' = [staged_obj EXCEPT ![s] = Empty]

(* end_tx and release_all.  The session's fds stay open.                   *)
EndTx(s) ==
    /\ running' = running \ {tx[s].xid}
    /\ lock' = [r \in Row |-> IF lock[r] = tx[s].xid THEN None ELSE lock[r]]
    /\ Forget(s)

Rollback(s) ==
    /\ InTx(s)
    /\ EndTx(s)
    /\ UNCHANGED <<next_ts, table, rows, stmt, next_oid, fds, file, sysvars>>

(* ensure_no_relation_conflicts on the _fs_object rows, which are under no *)
(* statement lock.                                                         *)
Conflict(s) ==
    \E o \in DOMAIN staged_obj[s] :
        /\ rows[o] # <<>>
        /\ LET x == rows[o][Len(rows[o])].xid
           IN  x > tx[s].xid \/ x \in tx[s].running

(* Mutant: the staged _fs_object rows are not applied with the row.        *)
CommitRowOnly(s) ==
    /\ InTx(s) /\ ~Conflict(s)
    /\ table' = [r \in Row |-> StagedRow(s, r)]
    /\ EndTx(s)
    /\ UNCHANGED <<next_ts, rows, stmt, next_oid, fds, file, sysvars>>

Commit(s) ==
    /\ InTx(s) /\ ~Conflict(s)
    /\ table' = [r \in Row |-> StagedRow(s, r)]
    /\ rows' = [o \in Oid |->
                   IF o \in DOMAIN staged_obj[s]
                   THEN Append(rows[o], [xid |-> tx[s].xid, state |-> staged_obj[s][o]])
                   ELSE rows[o]]
    /\ EndTx(s)
    /\ UNCHANGED <<next_ts, stmt, next_oid, fds, file, sysvars>>

(* The error return of the commit gives nothing back.                      *)
CommitConflict(s) ==
    /\ InTx(s) /\ Conflict(s)
    /\ Forget(s)
    /\ UNCHANGED <<dbvars, stmt, next_oid, fds, file, sysvars>>

(* close_session: drop_session forgets the fds, the transaction is not     *)
(* ended.                                                                  *)
CloseSession(s) ==
    /\ Ready(s) /\ (tx[s] # NoTx \/ fds[s] # {})
    /\ Forget(s)
    /\ fds' = [fds EXCEPT ![s] = {}]
    /\ UNCHANGED <<dbvars, stmt, next_oid, file, sysvars>>

-----------------------------------------------------------------------------
(* DML on a row.  The hook runs before the statement takes its lock: it    *)
(* generates the new object id and reads the old one.                      *)

Hook(s, op, r) ==
    LET creates == op # "delete"
    IN  /\ InTx(s)
        /\ creates => next_oid <= MaxOid
        /\ next_oid' = IF creates THEN next_oid + 1 ELSE next_oid
        /\ stmt' = [stmt EXCEPT ![s] =
               [op |-> op, row |-> r,
                old |-> IF op = "insert" THEN None ELSE StagedRow(s, r),
                new |-> IF creates THEN next_oid ELSE None]]
        /\ UNCHANGED <<dbvars, txvars, fds, file, sysvars>>

(* stage_fs_ops: the new object PENDING, the old one deleted.              *)
StageFsOps(f, st) ==
    LET g == IF st.new = None THEN f ELSE Put(f, st.new, "pending")
    IN  IF st.old = None THEN g ELSE Put(g, st.old, "deleted")

(* The statement under its lock: INSERT of a present row is an error,      *)
(* UPDATE and DELETE of a missing one change nothing.                      *)
Exec(s) ==
    LET st == stmt[s]
        r == st.row
        applies == (st.op = "insert") <=> (StagedRow(s, r) = None)
    IN  /\ up /\ st # NoStmt
        /\ lock[r] \in {None, tx[s].xid}
        /\ lock' = [lock EXCEPT ![r] = tx[s].xid]
        /\ stmt' = [stmt EXCEPT ![s] = NoStmt]
        /\ IF applies
           THEN /\ staged_row' = [staged_row EXCEPT ![s] = Put(@, r, st.new)]
                /\ staged_obj' = [staged_obj EXCEPT ![s] = StageFsOps(@, st)]
           ELSE UNCHANGED <<staged_row, staged_obj>>
        /\ UNCHANGED <<next_ts, running, table, rows, tx, next_oid, fds, file,
                       sysvars>>

ExecTimeout(s) ==
    /\ up /\ stmt[s] # NoStmt
    /\ lock[stmt[s].row] \notin {None, tx[s].xid}
    /\ stmt' = [stmt EXCEPT ![s] = NoStmt]
    /\ UNCHANGED <<dbvars, txvars, next_oid, fds, file, sysvars>>

-----------------------------------------------------------------------------
(* open_write: an object staged by the session's transaction that is       *)
(* PENDING, or a directory sealed by it; the file is created if it is not  *)
(* there.                                                                  *)
Writable(s, o) ==
    /\ o \in DOMAIN staged_obj[s]
    /\ \/ staged_obj[s][o] = "pending"
       \/ staged_obj[s][o] = "sealed" /\ IsDirectory

(* A file id that no open fd of the path has.                              *)
FreshIno(p) ==
    LET open == {d.ino : d \in {x \in UNION {fds[s] : s \in Session} : x.path = p}}
    IN  CHOOSE n \in 1..(Cardinality(open) + 1) : n \notin open

FsOpenWrite(s, p) ==
    /\ InTx(s)
    /\ Writable(s, p[1])
    /\ Cardinality(fds[s]) < MaxFds
    /\ file' = IF file[p].exists THEN file
               ELSE [file EXCEPT ![p] = [exists |-> TRUE, ino |-> FreshIno(p),
                                         synced |-> FALSE]]
    /\ fds' = [fds EXCEPT ![s] = @ \union
                   {[path |-> p, ino |-> file'[p].ino, n |-> n] :
                       n \in {CHOOSE n \in 1..MaxFds : \A d \in fds[s] : d.n # n}}]
    /\ UNCHANGED <<dbvars, txvars, stmt, next_oid, sysvars>>

Linked(d) == file[d.path].exists /\ file[d.path].ino = d.ino

(* fs_write and fs_pwrite.  Into an unlinked file, or one that has writes  *)
(* that are not synced already, a write changes nothing here.              *)
FsWrite(s, d) ==
    /\ InTx(s)
    /\ Linked(d) /\ file[d.path].synced
    /\ file' = [file EXCEPT ![d.path].synced = FALSE]
    /\ UNCHANGED <<dbvars, txvars, stmt, next_oid, fds, sysvars>>

FsFsync(s, d) ==
    /\ InTx(s)
    /\ Linked(d) /\ ~file[d.path].synced
    /\ file' = [file EXCEPT ![d.path].synced = TRUE]
    /\ UNCHANGED <<dbvars, txvars, stmt, next_oid, fds, sysvars>>

(* Mutant: the row is sealed without an fsync of the content.              *)
FsCloseNoSync(s, d) ==
    /\ InTx(s)
    /\ fds' = [fds EXCEPT ![s] = @ \ {d}]
    /\ staged_obj' = [staged_obj EXCEPT ![s] = Put(@, d.path[1], "sealed")]
    /\ UNCHANGED <<dbvars, tx, staged_row, stmt, next_oid, file, sysvars>>

(* fs_close of a write fd: fsync, then the SEALED row is staged into the   *)
(* transaction the session has now.                                        *)
FsClose(s, d) ==
    /\ InTx(s)
    /\ fds' = [fds EXCEPT ![s] = @ \ {d}]
    /\ file' = IF Linked(d) THEN [file EXCEPT ![d.path].synced = TRUE] ELSE file
    /\ staged_obj' = [staged_obj EXCEPT ![s] = Put(@, d.path[1], "sealed")]
    /\ UNCHANGED <<dbvars, tx, staged_row, stmt, next_oid, sysvars>>

(* The fsync fails: the fd is gone and nothing is staged.                  *)
FsCloseFails(s, d) ==
    /\ InTx(s)
    /\ fds' = [fds EXCEPT ![s] = @ \ {d}]
    /\ UNCHANGED <<dbvars, txvars, stmt, next_oid, file, sysvars>>

-----------------------------------------------------------------------------
(* A round of the garbage collection.  gc_horizon first ...                *)
GcHorizon ==
    IF running = {} THEN next_ts
    ELSE CHOOSE x \in running : \A y \in running : x <= y

GcStart ==
    /\ GcRuns /\ up /\ gc.phase = "idle"
    /\ gc' = [NoGc EXCEPT !.phase = "scan", !.horizon = GcHorizon]
    /\ UNCHANGED <<dbvars, txvars, stmt, next_oid, fds, file, up, crashes>>

(* ... then scan_fs_roots lists the content files ...                      *)
ScanFsRoots ==
    /\ up /\ gc.phase = "scan"
    /\ gc' = [gc EXCEPT !.phase = "check",
                        !.listed = {p \in Path : file[p].exists}]
    /\ UNCHANGED <<dbvars, txvars, stmt, next_oid, fds, file, up, crashes>>

(* Mutant: an object without a row is taken for a new one.                 *)
GcDoomedKnown(o) == StateAt(o, gc.horizon) \in {"pending", "deleted"}

GcDoomed(o) == StateAt(o, gc.horizon) # "sealed"

(* ... and object by object, in the order of their ids, the row is read    *)
(* and the files of a generation that is not current are removed.          *)
GcCheck(o) ==
    LET mine == {p \in gc.listed : p[1] = o}
    IN  /\ up /\ gc.phase = "check" /\ gc.doomed = {}
        /\ mine # {} /\ \A p \in gc.listed : o <= p[1]
        /\ gc' = [gc EXCEPT !.listed = @ \ mine,
                            !.doomed = IF GcDoomed(o) THEN mine ELSE {}]
        /\ UNCHANGED <<dbvars, txvars, stmt, next_oid, fds, file, up, crashes>>

RemoveRootEntry(p) ==
    /\ up /\ p \in gc.doomed
    /\ gc' = [gc EXCEPT !.doomed = @ \ {p}]
    /\ file' = [file EXCEPT ![p].exists = FALSE]
    /\ UNCHANGED <<dbvars, txvars, stmt, next_oid, fds, up, crashes>>

GcEnd ==
    /\ up /\ gc.phase = "check" /\ gc.listed = {} /\ gc.doomed = {}
    /\ gc' = NoGc
    /\ UNCHANGED <<dbvars, txvars, stmt, next_oid, fds, file, up, crashes>>

-----------------------------------------------------------------------------
(* A crash forgets what is in memory and may take content that was not     *)
(* synced.                                                                 *)
Crash ==
    /\ up /\ crashes < MaxCrashes
    /\ crashes' = crashes + 1
    /\ up' = FALSE
    /\ \E kept \in SUBSET {p \in Path : file[p].exists /\ ~file[p].synced} :
           file' = [p \in Path |-> [file[p] EXCEPT
                       !.exists = @ /\ (file[p].synced \/ p \in kept)]]
    /\ running' = {}
    /\ lock' = [r \in Row |-> None]
    /\ tx' = [s \in Session |-> NoTx]
    /\ staged_row' = [s \in Session |-> Empty]
    /\ staged_obj' = [s \in Session |-> Empty]
    /\ stmt' = [s \in Session |-> NoStmt]
    /\ fds' = [s \in Session |-> {}]
    /\ gc' = NoGc
    /\ UNCHANGED <<next_ts, table, rows, next_oid>>

(* recover_scan: after the replay of the log, content is kept only for     *)
(* SEALED rows.                                                            *)
RecoverScan ==
    /\ ~up
    /\ up' = TRUE
    /\ file' = [p \in Path |->
                   [file[p] EXCEPT !.exists = @ /\ Committed(p[1]) = "sealed"]]
    /\ UNCHANGED <<dbvars, txvars, stmt, next_oid, fds, gc, crashes>>

SessionNext(s) ==
    \/ Begin(s) \/ Rollback(s) \/ Commit(s) \/ CommitConflict(s)
    \/ CloseSession(s)
    \/ \E r \in Row : \E op \in {"insert", "update", "delete"} : Hook(s, op, r)
    \/ Exec(s) \/ ExecTimeout(s)
    \/ \E p \in Path : FsOpenWrite(s, p)
    \/ \E d \in fds[s] : FsWrite(s, d) \/ FsFsync(s, d)
                          \/ FsClose(s, d) \/ FsCloseFails(s, d)

GcNext ==
    \/ GcStart \/ ScanFsRoots \/ GcEnd
    \/ \E o \in Oid : GcCheck(o)
    \/ \E p \in Path : RemoveRootEntry(p)

Next ==
    \/ \E s \in Session : SessionNext(s)
    \/ GcNext
    \/ Crash \/ RecoverScan

Spec == Init /\ [][Next]_vars

(* gc_loop, or the ring loop, starts a round every FS_GC_INTERVAL and a    *)
(* round runs to its end; a restart runs recover_scan.                     *)
FairSpec == Spec /\ WF_vars(GcNext) /\ WF_vars(RecoverScan)
-----------------------------------------------------------------------------
State == {"pending", "sealed", "deleted"}

(* Types of the object rows, the content files and the round.              *)
TypeOK ==
    /\ next_ts \in 0..MaxTs
    /\ running \subseteq 1..next_ts
    /\ \A s \in Session :
          /\ tx[s].xid \in running \union {None}
          /\ DOMAIN staged_row[s] \subseteq Row
          /\ \A o \in DOMAIN staged_obj[s] :
                o \in 1..(next_oid - 1) /\ staged_obj[s][o] \in State
          /\ \A d \in fds[s] : d.path \in Path /\ d.ino # 0
    /\ lock \in [Row -> 0..next_ts]
    /\ table \in [Row -> 0..(next_oid - 1)]
    /\ \A o \in Oid : \A i \in DOMAIN rows[o] :
          rows[o][i].state \in State /\ rows[o][i].xid \in 1..next_ts
    /\ gc.horizon <= next_ts
    /\ gc.listed \union gc.doomed \subseteq Path

(* The content of a committed SEALED object is there and has reached the   *)
(* disk, also after a crash: fs_close syncs before it stages the row, and  *)
(* the recovery scan does not take it for garbage.  This is a claim about  *)
(* one write fd per session and no collection: a collection round can      *)
(* remove such content.                                                    *)
SealedHasContent ==
    \A o \in Oid : Committed(o) = "sealed" =>
        \E e \in Entry : file[<<o, e>>].exists /\ file[<<o, e>>].synced

(* "Every object id stored in an FS-bound table column is backed by one    *)
(* row of the _fs_object table" (meta/fs_object.rs): also when a statement *)
(* read the old object id before it got its lock.                          *)
ReferencedHasRow ==
    \A r \in Row : table[r] # None => Committed(table[r]) \in {"pending", "sealed"}

(* "Object generations are immutable" (fs_service.rs): no write reaches a  *)
(* content file of an object whose SEALED row is committed.                *)
SealedImmutable ==
    [][\A p \in Path :
          (Committed(p[1]) = "sealed" /\ file[p].exists /\ file[p].synced)
          => file'[p].synced]_vars

(* "Files left behind by unclosed write fds belong to generations that     *)
(* were never sealed" (fs_service.rs): no write fd is open on a file of an *)
(* object whose SEALED row is committed.                                   *)
UnclosedUnsealed ==
    \A s \in Session : \A d \in fds[s] : Committed(d.path[1]) # "sealed"

(* The hooks delete "every object id the old row referenced" and an        *)
(* aborted write leaves nothing: the object of a committed _fs_object row  *)
(* that is not deleted is bound to a row of the table.                     *)
NoOrphanRow ==
    \A o \in Oid : Committed(o) \in {"pending", "sealed"} =>
        \E r \in Row : table[r] = o

(* An object that was never committed and that no transaction, statement   *)
(* or fd refers to any more.                                               *)
Abandoned(o) ==
    /\ rows[o] = <<>>
    /\ \A s \in Session : /\ o \notin DOMAIN staged_obj[s]
                          /\ stmt[s].new # o
                          /\ \A d \in fds[s] : d.path[1] # o

(* "aborted writes ... removed": an object that no transaction committed   *)
(* loses its content once nothing refers to it, whatever transactions are  *)
(* running or were leaked meanwhile.                                       *)
AbortedReclaimed ==
    \A p \in Path : Abandoned(p[1]) ~> (~file[p].exists \/ ~Abandoned(p[1]))
==============================================================================
