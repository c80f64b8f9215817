------------------------------ MODULE WorkerWal ------------------------------
(***************************************************************************)
(* The write-ahead log of one worker of mudu_kernel: LSN allocation, the   *)
(* group-commit queue, concurrent flush rounds, direct appends, the        *)
(* watermark that acknowledges commits, both sync policies, crashes, and   *)
(* the tail scan and the replay of a restart.                              *)
(*                                                                         *)
(* An entry is one XLBatch; it has Parts[e] frames, each with an LSN.      *)
(* Frames are placed in chunk files when their file offset is reserved; a  *)
(* frame that fills a chunk has size ChunkSize, a last part has size 1.    *)
(* What a power loss or a process crash keeps of a frame is decided by its *)
(* status: reserved (the write is in flight), written (in the page cache), *)
(* synced.                                                                 *)
(***************************************************************************)
EXTENDS Naturals, Sequences, FiniteSets

CONSTANTS
    Entry,      \* the entries ever logged, each by one request
    Direct,     \* those appended without the queue (autocommit puts, deletes)
    Parts,      \* frames per entry
    Slot,       \* flush rounds that may run at once (FLUSH_SLOT_COUNT)
    MaxBatch,   \* max_batch_bytes, in entries
    ChunkSize,  \* in units of a small frame
    Periodic,   \* WalSyncPolicy::Periodic rather than Commit
    PowerLoss,  \* does a crash lose the page cache?
    IoFails,    \* may a write fail?
    MaxCrashes  \* bound on crashes

ASSUME WalAssumption ==
    /\ Direct \subseteq Entry
    /\ Parts \in [Entry -> 1..2]
    /\ MaxBatch \in Nat \ {0}
    /\ ChunkSize \in Nat \ {0}
    /\ MaxCrashes \in Nat
    /\ {Periodic, PowerLoss, IoFails} \subseteq BOOLEAN

VARIABLES
    next_lsn,
    frame,          \* LSN -> the entry it belongs to and the parts after it
    status,         \* LSN -> what has become of that frame
    log_queue,      \* Seq of entries, each the Seq of its LSNs
    chunks,         \* the chunk files: Seq of Seq of LSNs
    round,          \* Slot -> the flush round running in it
    ready_lsns,     \* WaitLsn: reported, not yet below the watermark
    next_wait_lsn,  \* WaitLsn: the watermark
    unsynced,       \* unsynced_paths: chunks
    syncing,        \* chunks the running periodic fsync has taken and not yet synced
    fsync,          \* the one it has submitted: its chunk and what it covers
    pc,             \* Entry -> progress of the request that logs it
    target,         \* Entry -> LSN its request waits for
    up,             \* is the worker running?
    crashes

vars == <<next_lsn, frame, status, log_queue, chunks, round, ready_lsns,
          next_wait_lsn, unsynced, syncing, fsync, pc, target, up, crashes>>
waitlsn == <<ready_lsns, next_wait_lsn>>
fsyncvars == <<unsynced, syncing, fsync>>

Idle == [phase |-> "idle", lsns |-> {}, cover |-> {}]

NoFsync == [path |-> 0, cover |-> {}]

Status == {"alloc", "reserved", "written", "synced", "hole", "lost"}

Progress == {"new", "wait", "write", "acked", "failed"}

Init ==
    /\ next_lsn = 0
    /\ frame = <<>>
    /\ status = <<>>
    /\ log_queue = <<>>
    /\ chunks = <<>>
    /\ round = [s \in Slot |-> Idle]
    /\ ready_lsns = {}
    /\ next_wait_lsn = 0
    /\ unsynced = {}
    /\ syncing = {}
    /\ fsync = NoFsync
    /\ pc = [e \in Entry |-> "new"]
    /\ target = [e \in Entry |-> 0]
    /\ up = TRUE
    /\ crashes = 0
-----------------------------------------------------------------------------
(* serialize_entry: the LSNs of e's frames, and the maps extended by them. *)
LsnsOf(e) == next_lsn..(next_lsn + Parts[e] - 1)

Frames(e) ==
    [l \in DOMAIN frame \union LsnsOf(e) |->
        IF l \in LsnsOf(e) THEN [e |-> e, left |-> next_lsn + Parts[e] - 1 - l]
        ELSE frame[l]]

Mark(ls, st) ==
    [l \in DOMAIN status \union ls |-> IF l \in ls THEN st ELSE status[l]]

FrameSize(f) == IF f.left > 0 THEN ChunkSize ELSE 1

ChunkBytes(fr, chunk) ==
    LET n[i \in 0..Len(chunk)] ==
            IF i = 0 THEN 0 ELSE n[i - 1] + FrameSize(fr[chunk[i]])
    IN  n[Len(chunk)]

(* reserve_append: frame l goes to the current chunk if it fits.           *)
Place(fr, cs, l) ==
    IF cs = <<>> \/ ChunkBytes(fr, cs[Len(cs)]) + FrameSize(fr[l]) > ChunkSize
    THEN Append(cs, <<l>>)
    ELSE [cs EXCEPT ![Len(cs)] = Append(@, l)]

(* reserve_appends: several frames, in order.                              *)
Reserve(fr, ls) ==
    LET cs[i \in 0..Len(ls)] ==
            IF i = 0 THEN chunks ELSE Place(fr, cs[i - 1], ls[i])
    IN  cs[Len(ls)]

Elems(seq) == {seq[i] : i \in DOMAIN seq}

ChunkOf(l) == CHOOSE c \in DOMAIN chunks : l \in Elems(chunks[c])

(* A watermark that is moved to the highest reported LSN.                  *)
ReadyHighest(ls) ==
    \E n \in next_wait_lsn..next_lsn :
        /\ n = next_wait_lsn \/ n - 1 \in ls
        /\ \A l \in ls : l < n
        /\ next_wait_lsn' = n
        /\ ready_lsns' = {}

(* A watermark that forgets the LSNs reported ahead of it.                 *)
ReadyDropsGaps(ls) ==
    \E n \in next_wait_lsn..next_lsn :
        /\ n \notin ls
        /\ \A m \in next_wait_lsn..(n - 1) : m \in ls
        /\ next_wait_lsn' = n
        /\ ready_lsns' = {}

(* WaitLsn::ready: move the watermark over the LSNs that are contiguous.   *)
Ready(ls) ==
    LET all == ready_lsns \union ls
    IN  \E n \in next_wait_lsn..next_lsn :
            /\ n \notin all
            /\ \A m \in next_wait_lsn..(n - 1) : m \in all
            /\ next_wait_lsn' = n
            /\ ready_lsns' = {l \in all : l > n}

Push(q, ls) == Append(q, ls)
-----------------------------------------------------------------------------
(* enqueue_group_commit, after serialize_entry: no await lies between, so  *)
(* queue order is LSN order.  The request then waits for the last LSN      *)
(* allocated so far.                                                       *)
EnqueueGroupCommit(e) ==
    /\ up
    /\ e \notin Direct
    /\ pc[e] = "new"
    /\ frame' = Frames(e)
    /\ status' = Mark(LsnsOf(e), "alloc")
    /\ next_lsn' = next_lsn + Parts[e]
    /\ log_queue' = Push(log_queue, [i \in 1..Parts[e] |-> next_lsn + i - 1])
    /\ pc' = [pc EXCEPT ![e] = "wait"]
    /\ target' = [target EXCEPT ![e] = next_lsn + Parts[e] - 1]
    /\ UNCHANGED <<chunks, round, waitlsn, fsyncvars, up, crashes>>

(* A wait that returns when the watermark reaches the LSN.                 *)
CommitAckedEarly(e) ==
    /\ up
    /\ pc[e] = "wait"
    /\ next_wait_lsn >= target[e]
    /\ pc' = [pc EXCEPT ![e] = "acked"]
    /\ UNCHANGED <<next_lsn, frame, status, log_queue, chunks, round, waitlsn,
                   fsyncvars, target, up, crashes>>

(* wait_advanced returns: the commit is acknowledged.                      *)
CommitAcked(e) ==
    /\ up
    /\ pc[e] = "wait"
    /\ next_wait_lsn > target[e]
    /\ pc' = [pc EXCEPT ![e] = "acked"]
    /\ UNCHANGED <<next_lsn, frame, status, log_queue, chunks, round, waitlsn,
                   fsyncvars, target, up, crashes>>

(* append_frames_async and append_raw: the frames are reserved one by one, *)
(* each before its own write.                                              *)
DirectAppend(e) ==
    /\ up
    /\ e \in Direct
    /\ pc[e] = "new"
    /\ frame' = Frames(e)
    /\ status' = [Mark(LsnsOf(e), "alloc") EXCEPT ![next_lsn] = "reserved"]
    /\ next_lsn' = next_lsn + Parts[e]
    /\ chunks' = Place(Frames(e), chunks, next_lsn)
    /\ pc' = [pc EXCEPT ![e] = "write"]
    /\ UNCHANGED <<log_queue, round, waitlsn, fsyncvars, target, up, crashes>>

InFlight(e, l) ==
    /\ up
    /\ pc[e] = "write"
    /\ l \in DOMAIN frame
    /\ frame[l].e = e
    /\ status[l] = "reserved"

(* The write of a frame of e that is not the last one: the next part is    *)
(* reserved.                                                               *)
DirectWritten(e, l) ==
    /\ InFlight(e, l)
    /\ \E k \in DOMAIN frame :
           /\ frame[k] = [e |-> e, left |-> frame[l].left - 1]
           /\ status[k] = "alloc"
           /\ status' = [status EXCEPT ![l] = "written", ![k] = "reserved"]
           /\ chunks' = Place(frame, chunks, k)
    /\ UNCHANGED <<next_lsn, frame, log_queue, round, waitlsn, fsyncvars, pc,
                   target, up, crashes>>

(* The last write: its LSNs are reported, and the request returns without  *)
(* a flush.                                                                *)
DirectDone(e, l) ==
    /\ InFlight(e, l)
    /\ frame[l].left = 0
    /\ status' = [status EXCEPT ![l] = "written"]
    /\ Ready({k \in DOMAIN frame : frame[k].e = e})
    /\ pc' = [pc EXCEPT ![e] = "acked"]
    /\ UNCHANGED <<next_lsn, frame, log_queue, chunks, round, fsyncvars, target,
                   up, crashes>>

(* A write fails: the reserved offset is never written, the LSNs of the    *)
(* entry are reported all the same.                                        *)
DirectFails(e, l) ==
    /\ IoFails
    /\ InFlight(e, l)
    /\ status' = [k \in DOMAIN status |->
                     IF frame[k].e = e /\ status[k] \in {"alloc", "reserved"}
                     THEN "hole" ELSE status[k]]
    /\ Ready({k \in DOMAIN frame : frame[k].e = e})
    /\ pc' = [pc EXCEPT ![e] = "failed"]
    /\ UNCHANGED <<next_lsn, frame, log_queue, chunks, round, fsyncvars, target,
                   up, crashes>>
-----------------------------------------------------------------------------
Concat(seqs) ==
    LET cat[i \in 0..Len(seqs)] == IF i = 0 THEN <<>> ELSE cat[i - 1] \o seqs[i]
    IN  cat[Len(seqs)]

(* drain_pending_batches and prepare_flush_batch: a free slot takes a      *)
(* prefix of the queue and reserves its offsets.                           *)
StartRound(s) ==
    LET n == IF Len(log_queue) < MaxBatch THEN Len(log_queue) ELSE MaxBatch
        ls == UNION {Elems(log_queue[i]) : i \in 1..n}
    IN  /\ up
        /\ round[s] = Idle
        /\ log_queue # <<>>
        /\ log_queue' = SubSeq(log_queue, n + 1, Len(log_queue))
        /\ chunks' = Reserve(frame, Concat(SubSeq(log_queue, 1, n)))
        /\ status' = Mark(ls, "reserved")
        /\ round' = [round EXCEPT ![s] = [phase |-> "write", lsns |-> ls,
                                          cover |-> {}]]
        /\ UNCHANGED <<next_lsn, frame, waitlsn, fsyncvars, pc, target, up, crashes>>

Written == {l \in DOMAIN status : status[l] = "written"}

(* What an fsync of chunk set cs, submitted now, makes durable.            *)
Covered(cs) == {l \in Written : \E c \in cs : l \in Elems(chunks[c])}

ChunksOf(ls) == {ChunkOf(l) : l \in ls}

(* execute_flush_batch in Commit mode: the writes are done, an fsync of    *)
(* every touched chunk is submitted ...                                    *)
RoundWritten(s) ==
    LET ls == round[s].lsns
    IN  /\ up
        /\ ~Periodic
        /\ round[s].phase = "write"
        /\ status' = Mark(ls, "written")
        /\ round' = [round EXCEPT ![s] = [phase |-> "sync", lsns |-> ls,
                                          cover |-> Covered(ChunksOf(ls)) \union ls]]
        /\ UNCHANGED <<next_lsn, frame, log_queue, chunks, waitlsn, fsyncvars, pc,
                       target, up, crashes>>

(* ... and when it completes the LSNs are reported.                        *)
RoundSynced(s) ==
    /\ up
    /\ round[s].phase = "sync"
    /\ status' = Mark(round[s].cover, "synced")
    /\ Ready(round[s].lsns)
    /\ round' = [round EXCEPT ![s] = Idle]
    /\ UNCHANGED <<next_lsn, frame, log_queue, chunks, fsyncvars, pc, target,
                   up, crashes>>

(* execute_flush_batch in Periodic mode: reported as soon as written, the  *)
(* chunks are left to the fsync task.                                      *)
RoundWrittenOnly(s) ==
    LET ls == round[s].lsns
    IN  /\ up
        /\ Periodic
        /\ round[s].phase = "write"
        /\ status' = Mark(ls, "written")
        /\ Ready(ls)
        /\ unsynced' = unsynced \union ChunksOf(ls)
        /\ round' = [round EXCEPT ![s] = Idle]
        /\ UNCHANGED <<next_lsn, frame, log_queue, chunks, syncing, fsync, pc,
                       target, up, crashes>>

(* What may have landed of frames ls when one of their writes fails: each  *)
(* chunk has one write, cut short anywhere; the writes of other chunks     *)
(* were done before (tokio) or are in flight with it (io_uring).           *)
Landed(ls) ==
    {done \in SUBSET ls :
        /\ done # ls
        /\ \A l \in done, k \in ls : k < l /\ ChunkOf(k) = ChunkOf(l) => k \in done}

(* A write or an fsync of the round fails: its LSNs are never reported and *)
(* its chunks not tracked, whatever landed of it.  The request that drove  *)
(* the round, if one did, returns the error.                               *)
RoundFails(s) ==
    LET ls == round[s].lsns
    IN  /\ IoFails
        /\ up
        /\ \/ /\ round[s].phase = "write"
              /\ \E done \in Landed(ls) :
                     status' = [l \in DOMAIN status |-> IF l \in done THEN "written"
                                                       ELSE IF l \in ls THEN "hole"
                                                       ELSE status[l]]
           \/ round[s].phase = "sync" /\ UNCHANGED status
        /\ round' = [round EXCEPT ![s] = Idle]
        /\ \/ pc' = pc
           \/ \E e \in Entry : /\ pc[e] = "wait"
                               /\ pc' = [pc EXCEPT ![e] = "failed"]
        /\ UNCHANGED <<next_lsn, frame, log_queue, chunks, waitlsn, fsyncvars,
                       target, up, crashes>>
-----------------------------------------------------------------------------
(* fsync_unsynced_paths: the dirty chunks are taken ...                    *)
FsyncTake ==
    /\ up
    /\ unsynced # {}
    /\ syncing = {}
    /\ syncing' = unsynced
    /\ unsynced' = {}
    /\ UNCHANGED <<next_lsn, frame, status, log_queue, chunks, round, waitlsn,
                   fsync, pc, target, up, crashes>>

(* ... and one fsync after the other is submitted ...                      *)
FsyncSubmit(c) ==
    /\ up
    /\ c \in syncing
    /\ fsync = NoFsync
    /\ fsync' = [path |-> c, cover |-> Covered({c})]
    /\ UNCHANGED <<next_lsn, frame, status, log_queue, chunks, round, waitlsn,
                   unsynced, syncing, pc, target, up, crashes>>

(* ... and awaited, while rounds go on writing to the same chunk ...       *)
FsyncDone ==
    /\ up
    /\ fsync # NoFsync
    /\ status' = Mark(fsync.cover \intersect Written, "synced")
    /\ syncing' = syncing \ {fsync.path}
    /\ fsync' = NoFsync
    /\ UNCHANGED <<next_lsn, frame, log_queue, chunks, round, waitlsn,
                   unsynced, pc, target, up, crashes>>

(* An error path that forgets the chunks it has not synced.                *)
FsyncForgets ==
    /\ IoFails
    /\ up
    /\ syncing # {}
    /\ syncing' = {}
    /\ fsync' = NoFsync
    /\ UNCHANGED <<next_lsn, frame, status, log_queue, chunks, round, waitlsn,
                   unsynced, pc, target, up, crashes>>

(* ... until one fails, at its open or in its wait: that one and the rest  *)
(* are tracked again.                                                      *)
FsyncFails ==
    /\ IoFails
    /\ up
    /\ syncing # {}
    /\ unsynced' = unsynced \union syncing
    /\ syncing' = {}
    /\ fsync' = NoFsync
    /\ UNCHANGED <<next_lsn, frame, status, log_queue, chunks, round, waitlsn,
                   pc, target, up, crashes>>
-----------------------------------------------------------------------------
(* What a crash may take away: every frame whose write is in flight and,   *)
(* when the page cache goes with it, every frame that is not synced.       *)
AtRisk ==
    {l \in UNION {Elems(chunks[c]) : c \in DOMAIN chunks} :
        status[l] = "reserved" \/ (PowerLoss /\ status[l] = "written")}

AfterCrash(l, gone) ==
    IF l \in gone \/ status[l] \in {"alloc", "hole"} THEN "lost"
    ELSE IF PowerLoss \/ status[l] = "synced" THEN "synced"
    ELSE "written"

Crash ==
    /\ up
    /\ crashes < MaxCrashes
    /\ crashes' = crashes + 1
    /\ up' = FALSE
    /\ \E gone \in SUBSET AtRisk :
           status' = [l \in DOMAIN status |-> AfterCrash(l, gone)]
    /\ log_queue' = <<>>
    /\ round' = [s \in Slot |-> Idle]
    /\ ready_lsns' = {}
    /\ unsynced' = {}
    /\ syncing' = {}
    /\ fsync' = NoFsync
    /\ pc' = [e \in Entry |-> IF pc[e] \in {"wait", "write"} THEN "failed"
                              ELSE pc[e]]
    /\ UNCHANGED <<next_lsn, frame, chunks, next_wait_lsn, target>>

(* scan_valid_frame_prefix: a chunk counts up to its first invalid frame.  *)
ValidUpTo(chunk, i) == \A j \in 1..i : status[chunk[j]] # "lost"

ValidPrefix(chunk) ==
    SubSeq(chunk, 1, Cardinality({i \in DOMAIN chunk : ValidUpTo(chunk, i)}))

Valid == [c \in DOMAIN chunks |-> ValidPrefix(chunks[c])]

Kept ==
    {l \in DOMAIN status :
        \E c \in DOMAIN chunks : \E i \in 1..Len(chunks[c]) :
            chunks[c][i] = l /\ ValidUpTo(chunks[c], i)}

(* The frames that recovery decodes, in file order.                        *)
Decoded == Concat(Valid)

(* decode_entries_with_pending: a frame with no part after it ends an      *)
(* entry made of all frames since the last end; those must be its parts.   *)
Decodes(i) ==
    LET f == frame[Decoded[i]]
        starts == i + 1 - Parts[f.e]
    IN  /\ starts >= 1
        /\ \A j \in starts..i : frame[Decoded[j]] = [e |-> f.e, left |-> i - j]
        /\ starts > 1 => frame[Decoded[starts - 1]].left = 0

Ends == {i \in DOMAIN Decoded : frame[Decoded[i]].left = 0}

Replayed == {frame[Decoded[i]].e : i \in {j \in Ends : Decodes(j)}}

(* scan_tail_async truncates every chunk to its valid prefix and resumes   *)
(* after the highest LSN found; recovery then replays, or fails.           *)
Restart ==
    /\ ~up
    /\ \A i \in Ends : Decodes(i)
    /\ up' = TRUE
    /\ chunks' = Valid
    /\ frame' = [l \in Kept |-> frame[l]]
    /\ status' = [l \in Kept |-> status[l]]
    /\ \E next \in 0..next_lsn :
           /\ next = 0 \/ next - 1 \in Kept
           /\ \A l \in Kept : l < next
           /\ next_lsn' = next
           /\ next_wait_lsn' = next
    /\ UNCHANGED <<log_queue, round, ready_lsns, fsyncvars, pc, target, crashes>>
-----------------------------------------------------------------------------
Next ==
    \/ \E e \in Entry :
           \/ EnqueueGroupCommit(e)
           \/ CommitAcked(e)
           \/ DirectAppend(e)
           \/ \E l \in DOMAIN frame :
                  \/ DirectWritten(e, l)
                  \/ DirectDone(e, l)
                  \/ DirectFails(e, l)
    \/ \E s \in Slot :
           \/ StartRound(s)
           \/ RoundWritten(s)
           \/ RoundSynced(s)
           \/ RoundWrittenOnly(s)
           \/ RoundFails(s)
    \/ FsyncTake
    \/ \E c \in syncing : FsyncSubmit(c)
    \/ FsyncDone
    \/ FsyncFails
    \/ Crash
    \/ Restart

Spec == Init /\ [][Next]_vars

(* The driver starts a round when one is due, I/O completes, and a request *)
(* whose LSN is passed is polled.                                          *)
Fairness ==
    /\ WF_vars(\E s \in Slot : StartRound(s))
    /\ \A s \in Slot : WF_vars(RoundWritten(s) \/ RoundSynced(s) \/ RoundWrittenOnly(s))
    /\ \A e \in Entry : /\ WF_vars(CommitAcked(e))
                         /\ WF_vars(\E l \in DOMAIN frame :
                                       DirectWritten(e, l) \/ DirectDone(e, l))

FairSpec == Spec /\ Fairness
-----------------------------------------------------------------------------
(* Every variable keeps its type: LSNs are below next_lsn, the queue and   *)
(* the rounds hold allocated LSNs, the watermark never passes next_lsn.    *)
TypeOK ==
    /\ next_lsn \in Nat
    /\ DOMAIN frame \subseteq 0..(next_lsn - 1)
    /\ DOMAIN status = DOMAIN frame
    /\ \A l \in DOMAIN frame : /\ frame[l] \in [e : Entry, left : 0..1]
                               /\ status[l] \in Status
    /\ \A i \in DOMAIN log_queue : Elems(log_queue[i]) \subseteq DOMAIN frame
    /\ \A c \in DOMAIN chunks : Elems(chunks[c]) \subseteq DOMAIN frame
    /\ \A s \in Slot : /\ round[s].phase \in {"idle", "write", "sync"}
                       /\ round[s].lsns \union round[s].cover \subseteq DOMAIN frame
    /\ ready_lsns \subseteq next_wait_lsn..next_lsn
    /\ next_wait_lsn \in 0..next_lsn
    /\ unsynced \union syncing \subseteq DOMAIN chunks
    /\ fsync # NoFsync => fsync.path \in syncing /\ fsync.cover \subseteq DOMAIN frame
    /\ pc \in [Entry -> Progress]
    /\ up \in BOOLEAN
    /\ crashes \in 0..MaxCrashes

(* WalSyncPolicy::Commit: "a committed transaction survives any power      *)
(* loss".  Whatever a crash leaves of the chunk files, the replay of a     *)
(* restart finds every acknowledged group commit.                          *)
CommittedSurvives ==
    ~up => \A e \in Entry \ Direct : pc[e] = "acked" => e \in Replayed

(* What the sync policy promises of an acknowledged frame.                 *)
Durable(l) ==
    status[l] = "synced" \/ ((Periodic \/ ~PowerLoss) /\ status[l] = "written")

(* WaitLsn merges the out-of-order completions of concurrent rounds: below *)
(* the watermark every frame of a group commit has reached the disk, or in *)
(* Periodic mode the page cache.                                           *)
WatermarkDurable ==
    up => \A l \in DOMAIN frame :
              l < next_wait_lsn /\ frame[l].e \notin Direct => Durable(l)

(* Concurrent rounds "write disjoint, in-order regions": file order, which *)
(* is the order of replay, is LSN order.                                   *)
FileOrderIsLsnOrder ==
    LET all == Concat(chunks)
    IN  \A i, j \in DOMAIN all : i < j => all[i] < all[j]

(* Recovery drops an unterminated entry and never fails on what a crash    *)
(* has left.                                                               *)
RecoverySucceeds == ~up => \A i \in Ends : Decodes(i)

Reported(l) == l < next_wait_lsn \/ l \in ready_lsns

(* Periodic mode, fsync_unsynced_paths: "a clean stop never leaves         *)
(* acknowledged commits un-fsynced".  The chunk of a group commit's frame  *)
(* that was reported to the watermark and is not synced is tracked for the *)
(* next fsync or is being synced, whatever failed and whatever was written *)
(* to it while an fsync was under way.  Frames a failed round has written  *)
(* are reported to nobody and need not be tracked.                         *)
UnsyncedTracked ==
    up /\ Periodic /\ (PowerLoss \/ crashes = 0) =>
        \A l \in Written :
            frame[l].e \notin Direct /\ Reported(l)
            => ChunkOf(l) \in unsynced \union syncing

(* Every commit that entered the queue is answered, unless the worker      *)
(* crashes: no waiter parks for ever.                                      *)
CommitReturns == \A e \in Entry : (pc[e] = "wait") ~> (pc[e] # "wait")
==============================================================================
