--------------------------- MODULE TimeSeriesFile ---------------------------
(***************************************************************************)
(* One relation file of mudu_kernel (storage/time_series/time_series_file):*)
(* a chain of pages, newest timestamps first, that holds records keyed by  *)
(* (timestamp, tuple id).                                                  *)
(*                                                                         *)
(* A write is planned page by page, logged as record-level page deltas in  *)
(* the file's own physical log, and published to the page cache in one     *)
(* step.  Log frames wait in a queue until somebody flushes it; dirty      *)
(* pages reach the data file in flush rounds that run beside the writers;  *)
(* readers walk the chain without any latch.  After a crash the file is    *)
(* rebuilt by replaying the log over whatever pages the data file holds.   *)
(*                                                                         *)
(* Pages are numbered from 1 (the code numbers them from 0) and hold Cap   *)
(* records of one size.  A writer holds the write latch over its awaits    *)
(* and only writers change published pages, so a whole write is one step.  *)
(***************************************************************************)
EXTENDS Naturals, FiniteSets, Sequences, FiniteSetsExt, SequencesExt

CONSTANTS
    Ts,          \* timestamps, a finite set of naturals
    TupleId,     \* tuple ids, a finite set of naturals
    Payload,     \* record contents
    Cap,         \* records that fit in one page
    MaxWrites,   \* bound: writes and deletes
    MaxRounds,   \* bound: rounds of the dirty-page flush
    MaxCrashes,  \* bound: process crashes
    Reads,       \* bound: get and scan_range calls
    LogFirst,    \* assumption: no flush round starts while log frames are queued
    IoFails,     \* whether a page write may fail
    InOrder      \* page writes of a round complete in page order (tokio), or in any (io_uring)

ASSUME TsAssumption == Ts \subseteq Nat /\ TupleId \subseteq Nat /\ Cap \in Nat \ {0}

VARIABLES
    pages,    \* published page images, by page id
    head,     \* head_page_id, None when the file is empty
    tail,     \* tail_page_id
    dirty,    \* dirty_pages
    round,    \* the flush round in flight: images snapshotted, pages still to write, pages written
    queue,    \* log batches in the group-commit queue
    log,      \* log batches in the log file
    nextLsn,  \* next LSN of the log
    disk,     \* page images of the data file
    state,    \* "open", "down" after a crash, "refused" when the file could not be opened
    reader,   \* the get or scan_range call in flight
    written,  \* history: the records the writes so far leave in the file
    used      \* bounded counters: writes, rounds, crashes, reads

fileVars == <<pages, head, tail, dirty>>
logVars == <<queue, log, nextLsn>>
vars == <<fileVars, logVars, round, disk, state, reader, written, used>>

None == 0
Torn == [torn |-> TRUE]
Idle == [kind |-> "idle"]
NoRound == [images |-> <<>>, left |-> {}, done |-> {}]
Key == Ts \X TupleId
NoRecords == <<>>

-----------------------------------------------------------------------------
(* Records and pages.                                                      *)

\* f with k mapped to v.
Put(f, k, v) == [x \in DOMAIN f \cup {k} |-> IF x = k THEN v ELSE f[x]]

\* f without the keys in S.
Drop(f, S) == [x \in DOMAIN f \ S |-> f[x]]

Times(image) == {k[1] : k \in DOMAIN image.recs}
Empty(image) == image.recs = NoRecords
MinTs(image) == Min(Times(image))
MaxTs(image) == Max(Times(image))
KeyBefore(j, k) == j[1] < k[1] \/ (j[1] = k[1] /\ j[2] < k[2])

\* Page ids from the head along the next links (at most as many as there are pages).
Chain(ps, first) ==
    LET along[n \in Nat] ==
          IF n <= 1 THEN <<first>>
          ELSE LET sofar == along[n - 1]
                   next == ps[Last(sofar)].next
               IN  IF next \in 1..Len(ps) THEN Append(sofar, next) ELSE sofar
    IN  IF first = None THEN <<>> ELSE along[Len(ps)]

\* The page the latch-free walks of get and delete stop at with the record in hand; None when
\* they leave the chain, or meet a page all of whose records are older.
FindPage(ps, first, k) ==
    LET c == Chain(ps, first)
        stops == {i \in 1..Len(c) : /\ ~Empty(ps[c[i]])
                                    /\ k[1] > MaxTs(ps[c[i]]) \/ k \in DOMAIN ps[c[i]].recs}
    IN  IF stops = {} \/ k \notin DOMAIN ps[c[Min(stops)]].recs THEN None ELSE c[Min(stops)]

-----------------------------------------------------------------------------
(* Write planning.  An overlay is the file as the batch has changed it so  *)
(* far: pages, head, tail, and the pages the batch has rewritten.          *)

Overlay == [pages |-> pages, head |-> head, tail |-> tail, touched |-> {}]

NewImage(prev, next, recs) == [prev |-> prev, next |-> next, recs |-> recs, lsn |-> 0]

WritePage(o, p, image) ==
    [o EXCEPT !.pages = IF p > Len(@) THEN Append(@, image) ELSE [@ EXCEPT ![p] = image],
              !.touched = @ \cup {p}]

SetPrev(o, p, prev) == WritePage(o, p, [o.pages[p] EXCEPT !.prev = prev])
SetNext(o, p, next) == WritePage(o, p, [o.pages[p] EXCEPT !.next = next])

\* Where a record of this timestamp goes: the first page of the chain that is not older than it.
FindInsertLocation(o, ts) ==
    LET c == Chain(o.pages, o.head)
        full == {i \in 1..Len(c) : ~Empty(o.pages[c[i]])}
        hits == {i \in full : ts >= MinTs(o.pages[c[i]])}
        i == Min(hits)
    IN  CASE o.head = None -> [kind |-> "EmptyFile", page |-> None]
          [] o.head # None /\ hits = {} ->
               [kind |-> "After", page |-> IF full = {} THEN Last(c) ELSE c[Max(full)]]
          [] hits # {} /\ ts <= MaxTs(o.pages[c[i]]) -> [kind |-> "Existing", page |-> c[i]]
          [] hits # {} /\ ts > MaxTs(o.pages[c[i]]) ->
               [kind |-> IF i = 1 THEN "HeadLatest" ELSE "Before", page |-> c[i]]

\* A fresh page that holds just this record, linked before page next.
InsertBefore(o, next, recs) ==
    LET p == Len(o.pages) + 1
        prev == o.pages[next].prev
        o1 == SetPrev(WritePage(o, p, NewImage(prev, next, recs)), next, p)
    IN  IF prev # None THEN SetNext(o1, prev, p) ELSE [o1 EXCEPT !.head = p]

\* A fresh page that holds just this record, linked after page prev.
InsertAfter(o, prev, recs) ==
    LET p == Len(o.pages) + 1
        next == o.pages[prev].next
        o1 == SetNext(WritePage(o, p, NewImage(prev, next, recs)), prev, p)
    IN  IF next # None THEN SetPrev(o1, next, p) ELSE [o1 EXCEPT !.tail = p]

\* Mutant: the record that moves to the fresh page stays in the old one too.
SplitInsertKeeping(o, p, k, v) ==
    LET image == o.pages[p]
        recs == Put(image.recs, k, v)
        least == CHOOSE j \in DOMAIN recs : \A i \in DOMAIN recs \ {j} : KeyBefore(j, i)
        q == Len(o.pages) + 1
        o1 == WritePage(o, p, [image EXCEPT !.next = q])
        o2 == WritePage(o1, q, NewImage(p, image.next, [x \in {least, k} |-> recs[x]]))
    IN  IF image.next # None THEN SetPrev(o2, image.next, q) ELSE [o2 EXCEPT !.tail = q]

\* Mutant: the page behind the split keeps its old back link.
SplitInsertNoBackLink(o, p, k, v) ==
    LET image == o.pages[p]
        recs == Put(image.recs, k, v)
        least == CHOOSE j \in DOMAIN recs : \A i \in DOMAIN recs \ {j} : KeyBefore(j, i)
        q == Len(o.pages) + 1
        o1 == WritePage(o, p, NewImage(image.prev, q, Drop(recs, {least})))
        o2 == WritePage(o1, q, NewImage(p, image.next, [x \in {least} |-> recs[least]]))
    IN  IF image.next # None THEN o2 ELSE [o2 EXCEPT !.tail = q]

\* Mutant: the newer records move to a fresh page in front and the oldest stays.
SplitInsertInFront(o, p, k, v) ==
    LET image == o.pages[p]
        recs == Put(image.recs, k, v)
        least == CHOOSE j \in DOMAIN recs : \A i \in DOMAIN recs \ {j} : KeyBefore(j, i)
        o1 == WritePage(o, p, [image EXCEPT !.recs = [x \in {least} |-> recs[least]]])
    IN  InsertBefore(o1, p, Drop(recs, {least}))

\* A full page and one more record: find_split_index takes the first split of which both parts
\* fit, so the oldest record moves to a fresh page behind and the others stay.
SplitInsert(o, p, k, v) ==
    LET image == o.pages[p]
        recs == Put(image.recs, k, v)
        least == CHOOSE j \in DOMAIN recs : \A i \in DOMAIN recs \ {j} : KeyBefore(j, i)
        q == Len(o.pages) + 1
        o1 == WritePage(o, p, NewImage(image.prev, q, Drop(recs, {least})))
        o2 == WritePage(o1, q, NewImage(p, image.next, [x \in {least} |-> recs[least]]))
    IN  IF image.next # None THEN SetPrev(o2, image.next, q) ELSE [o2 EXCEPT !.tail = q]

PlanRowInsert(o, k, v) ==
    LET loc == FindInsertLocation(o, k[1])
        p == loc.page
        recs == [x \in {k} |-> v]
        inPlace == loc.kind \in {"Existing", "HeadLatest"}
    IN  CASE loc.kind = "EmptyFile" ->
               [WritePage(o, 1, NewImage(None, None, recs)) EXCEPT !.head = 1, !.tail = 1]
          [] inPlace /\ (k \in DOMAIN o.pages[p].recs \/ Cardinality(DOMAIN o.pages[p].recs) < Cap) ->
               WritePage(o, p, [o.pages[p] EXCEPT !.recs = Put(@, k, v)])
          [] loc.kind = "Existing" /\ k \notin DOMAIN o.pages[p].recs
               /\ Cardinality(DOMAIN o.pages[p].recs) = Cap -> SplitInsert(o, p, k, v)
          [] loc.kind = "Before" \/ (loc.kind = "HeadLatest"
               /\ Cardinality(DOMAIN o.pages[p].recs) = Cap) -> InsertBefore(o, p, recs)
          [] loc.kind = "After" -> InsertAfter(o, p, recs)

PlanRows(rows) == FoldLeft(LAMBDA o, r : PlanRowInsert(o, r.key, r.val), Overlay, rows)

-----------------------------------------------------------------------------
(* The physical log.                                                       *)

\* What build_pl_batch logs of page p: an init with every record for a page allocated by this
\* batch, otherwise the changed links, the records gone and the records new or changed.
Delta(p, new) ==
    IF p > Len(pages)
    THEN [page |-> p, init |-> TRUE, links |-> <<new.prev, new.next>>,
          removes |-> {}, upserts |-> new.recs]
    ELSE LET old == pages[p]
             kept == {k \in DOMAIN new.recs : k \in DOMAIN old.recs /\ old.recs[k] = new.recs[k]}
         IN  [page |-> p, init |-> FALSE,
              links |-> IF <<old.prev, old.next>> = <<new.prev, new.next>> THEN <<>>
                        ELSE <<new.prev, new.next>>,
              removes |-> DOMAIN old.recs \ DOMAIN new.recs, upserts |-> Drop(new.recs, kept)]

Changes(d) == d.init \/ d.links # <<>> \/ d.removes # {} \/ d.upserts # NoRecords

\* persist_plan and apply_plan: log the batch, stamp its LSN on every page it rewrote, publish.
Persist(o, result) ==
    LET touched == SetToSortSeq(o.touched, <)
        deltas == SelectSeq([i \in 1..Len(touched) |-> Delta(touched[i], o.pages[touched[i]])], Changes)
    IN  /\ IF deltas = <<>>
           THEN pages' = o.pages /\ UNCHANGED <<queue, nextLsn>>
           ELSE /\ queue' = Append(queue, [lsn |-> nextLsn, deltas |-> deltas, after |-> result])
                /\ nextLsn' = nextLsn + 1
                /\ pages' = [p \in 1..Len(o.pages) |->
                               IF p \in o.touched THEN [o.pages[p] EXCEPT !.lsn = nextLsn]
                               ELSE o.pages[p]]
        /\ head' = o.head
        /\ tail' = o.tail
        /\ dirty' = dirty \cup o.touched
        /\ written' = result

\* The data file with page p written: pages skipped on the way are holes of zero bytes, which
\* fail the layout check like a torn page.
WriteAt(f, p, image) ==
    [i \in 1..Max({p, Len(f)}) |-> IF i = p THEN image ELSE IF i <= Len(f) THEN f[i] ELSE Torn]

\* apply_recovered_page_delta; r.ok becomes FALSE where the code returns an error.
ReplayDelta(r, e) ==
    LET d == e.delta
        present == d.page <= Len(r.file)
        old == r.file[d.page]
        base == IF d.init THEN NewImage(d.links[1], d.links[2], NoRecords)
                ELSE [old EXCEPT !.prev = IF d.links = <<>> THEN @ ELSE d.links[1],
                                 !.next = IF d.links = <<>> THEN @ ELSE d.links[2],
                                 !.recs = Drop(@, d.removes)]
        recs == [k \in DOMAIN base.recs \cup DOMAIN d.upserts |->
                   IF k \in DOMAIN d.upserts THEN d.upserts[k] ELSE base.recs[k]]
        fails == \/ present /\ old = Torn
                 \/ ~d.init /\ ~(present /\ d.removes \subseteq DOMAIN old.recs)
                 \/ Cardinality(DOMAIN recs) > Cap
    IN  IF ~r.ok THEN r
        ELSE IF present /\ old # Torn /\ old.lsn >= e.lsn THEN r
        ELSE IF fails THEN [r EXCEPT !.ok = FALSE]
        ELSE [r EXCEPT !.file = WriteAt(@, d.page, [base EXCEPT !.recs = recs, !.lsn = e.lsn])]

\* Every delta of some batches with the LSN of its batch, in log order.
Entries(batches) ==
    FlattenSeq([i \in 1..Len(batches) |->
                  [j \in 1..Len(batches[i].deltas) |->
                     [delta |-> batches[i].deltas[j], lsn |-> batches[i].lsn]]])

Replay(entries) == FoldLeft(ReplayDelta, [ok |-> TRUE, file |-> disk], entries)

Heads(f) == {p \in 1..Len(f) : f[p].prev = None}
Tails(f) == {p \in 1..Len(f) : f[p].next = None}

\* load_chain_metadata accepts the file: sound pages, one head, one tail, links that agree, no
\* page newer than an earlier one, every page on the chain.
Openable(f) ==
    /\ \A p \in 1..Len(f) : f[p] # Torn
    /\ f # <<>> =>
         /\ Cardinality(Heads(f)) = 1
         /\ Cardinality(Tails(f)) = 1
         /\ \A p \in 1..Len(f) : f[p].next # None =>
              f[p].next <= Len(f) /\ f[f[p].next].prev = p
         /\ LET c == Chain(f, CHOOSE p \in Heads(f) : TRUE)
            IN  /\ ToSet(c) = 1..Len(f)
                /\ \A i, j \in 1..Len(c) :
                     i < j /\ ~Empty(f[c[i]]) /\ ~Empty(f[c[j]]) => MaxTs(f[c[j]]) <= MinTs(f[c[i]])

\* History: the records as of the last batch of the log.
Durable == IF log = <<>> THEN NoRecords ELSE Last(log).after

-----------------------------------------------------------------------------
Init ==
    /\ pages = <<>> /\ head = None /\ tail = None /\ dirty = {}
    /\ round = NoRound
    /\ queue = <<>> /\ log = <<>> /\ nextLsn = 1
    /\ disk = <<>>
    /\ state = "open"
    /\ reader = Idle
    /\ written = NoRecords
    /\ used = [writes |-> 0, rounds |-> 0, crashes |-> 0, reads |-> 0]

\* The records of f with a key in S, as pairs.
Pairs(f, S) == {<<k, f[k]>> : k \in DOMAIN f \cap S}

\* A call in flight while the records become result: what it may return grows, what it must
\* return shrinks to the records there all along.
Observe(result) ==
    reader' = IF reader = Idle THEN Idle
              ELSE [reader EXCEPT !.must = @ \cap DOMAIN result,
                                  !.may = @ \cup Pairs(result, reader.keys)]

Rows(ts, ids, v) == [i \in 1..Len(ids) |-> [key |-> <<ts, ids[i]>>, val |-> v]]

\* insert_batch of one commit's rows: one timestamp, distinct tuple ids.  A record is rewritten
\* only when it is alone at its timestamp: where one timestamp spans pages the location search
\* stops at the first of them, and the code appends a second record (tests.rs:932-937).
InsertBatch(ts, ids, v) ==
    LET rows == Rows(ts, ids, v)
        keys == {r.key : r \in ToSet(rows)}
        there == {k \in DOMAIN written : k[1] = ts}
        result == [k \in DOMAIN written \cup keys |-> IF k \in keys THEN v ELSE written[k]]
    IN  /\ state = "open"
        /\ used.writes < MaxWrites
        /\ keys \cap there = {} \/ (keys = there /\ Cardinality(there) = 1)
        /\ Persist(PlanRows(rows), result)
        /\ Observe(result)
        /\ used' = [used EXCEPT !.writes = @ + 1]
        /\ UNCHANGED <<round, log, disk, state>>

\* delete(timestamp, tuple_id) of a record that is there; an absent one changes nothing.
Delete(k) ==
    LET p == FindPage(pages, head, k)
        result == Drop(written, {k})
    IN  /\ state = "open"
        /\ used.writes < MaxWrites
        /\ p # None
        /\ Persist(WritePage(Overlay, p, [pages[p] EXCEPT !.recs = Drop(@, {k})]), result)
        /\ Observe(result)
        /\ used' = [used EXCEPT !.writes = @ + 1]
        /\ UNCHANGED <<round, log, disk, state>>

\* flush_wal_async, one queued batch at a time: a crash may fall between two of them.
FlushWal ==
    /\ state = "open"
    /\ queue # <<>>
    /\ log' = Append(log, Head(queue))
    /\ queue' = Tail(queue)
    /\ UNCHANGED <<fileVars, nextLsn, round, disk, state, reader, written, used>>

\* flush_dirty_pages takes the latch and snapshots the dirty images.
FlushStart ==
    /\ state = "open"
    /\ round = NoRound
    /\ dirty # {}
    /\ LogFirst => queue = <<>>
    /\ used.rounds < MaxRounds
    /\ round' = [images |-> pages, left |-> dirty, done |-> {}]
    /\ used' = [used EXCEPT !.rounds = @ + 1]
    /\ UNCHANGED <<fileVars, logVars, disk, state, reader, written>>

\* The write of one snapshotted page completes (flush_dirty_batch).
FlushWrite(p) ==
    /\ p \in round.left
    /\ InOrder => p = Min(round.left)
    /\ disk' = WriteAt(disk, p, round.images[p])
    /\ round' = [round EXCEPT !.left = @ \ {p}, !.done = @ \cup {p}]
    /\ UNCHANGED <<fileVars, logVars, state, reader, written, used>>

\* The write of one snapshotted page fails: its mark stays for the next round.
FlushWriteFails(p) ==
    /\ IoFails
    /\ p \in round.left
    /\ InOrder => p = Min(round.left)
    /\ round' = [round EXCEPT !.left = @ \ {p}]
    /\ UNCHANGED <<fileVars, logVars, disk, state, reader, written, used>>

\* Mutant: the mark goes whether or not a newer image is there.
CleanPagesAll == round.done

\* clear_dirty_mark for every page written, unless a newer image was published meanwhile.
CleanPages == {p \in round.done : pages[p] = round.images[p]}

FlushEnd ==
    /\ round # NoRound
    /\ round.left = {}
    /\ dirty' = dirty \ CleanPages
    /\ round' = NoRound
    /\ UNCHANGED <<pages, head, tail, logVars, disk, state, reader, written, used>>

\* What is in memory only is gone.
Forget ==
    /\ state' = "down"
    /\ pages' = <<>> /\ head' = None /\ tail' = None /\ dirty' = {}
    /\ queue' = <<>>
    /\ round' = NoRound
    /\ reader' = Idle

\* close: drain the log queue, flush the dirty pages, close the handle.
Close ==
    /\ state = "open"
    /\ round = NoRound
    /\ reader = Idle
    /\ used.crashes < MaxCrashes
    /\ log' = log \o queue
    /\ disk' = FoldLeft(LAMBDA f, p : WriteAt(f, p, pages[p]), disk, SetToSortSeq(dirty, <))
    /\ Forget
    /\ used' = [used EXCEPT !.crashes = @ + 1]
    /\ UNCHANGED <<nextLsn, written>>

\* The process dies: the cache, the queue and a round in flight are gone.
Crash ==
    /\ state = "open"
    /\ used.crashes < MaxCrashes
    /\ Forget
    /\ used' = [used EXCEPT !.crashes = @ + 1]
    /\ UNCHANGED <<log, nextLsn, disk, written>>

\* The process dies again while it replays: the deltas replayed so far are in the data file.
CrashInReplay ==
    /\ state = "down"
    /\ used.crashes < MaxCrashes
    /\ \E n \in 1..Len(Entries(log)) : disk' = Replay(SubSeq(Entries(log), 1, n)).file
    /\ used' = [used EXCEPT !.crashes = @ + 1]
    /\ UNCHANGED <<fileVars, logVars, round, state, reader, written>>

\* open_relation_file: scan the log's tail, replay it over the data file, check the chain.
Open ==
    LET r == Replay(Entries(log))
        ok == r.ok /\ Openable(r.file)
    IN  /\ state = "down"
        /\ state' = IF ok THEN "open" ELSE "refused"
        /\ disk' = r.file
        /\ pages' = r.file
        /\ head' = IF ok /\ r.file # <<>> THEN CHOOSE p \in Heads(r.file) : TRUE ELSE None
        /\ tail' = IF ok /\ r.file # <<>> THEN CHOOSE p \in Tails(r.file) : TRUE ELSE None
        /\ dirty' = {}
        /\ nextLsn' = IF log = <<>> THEN 1 ELSE Last(log).lsn + 1
        /\ written' = Durable
        /\ UNCHANGED <<queue, log, round, reader, used>>

\* A latch-free call starts at the head it sees.
StartRead(kind, keys) ==
    /\ state = "open"
    /\ reader = Idle
    /\ used.reads < Reads
    /\ reader' = [kind |-> kind, keys |-> keys, at |-> head, rows |-> <<>>,
                  must |-> DOMAIN written \cap keys,
                  may |-> Pairs(written, keys)]
    /\ used' = [used EXCEPT !.reads = @ + 1]
    /\ UNCHANGED <<fileVars, logVars, round, disk, state, written>>

Get(k) == StartRead("get", {k})
ScanRange(lo, hi) == lo <= hi /\ StartRead("scan", {k \in Key : k[1] \in lo..hi})

\* The call reads its next page: it takes the records it wants and stops where the page is older
\* than all it wants; get also stops at its record.
ReadPage ==
    LET image == pages[reader.at]
        wanted == {k[1] : k \in reader.keys}
        hit == DOMAIN image.recs \cap reader.keys
        stop == \/ ~Empty(image) /\ Min(wanted) > MaxTs(image)
                \/ reader.kind = "get" /\ hit # {}
    IN  /\ reader # Idle
        /\ reader.at # None
        /\ reader' = [reader EXCEPT !.at = IF stop THEN None ELSE image.next,
                                    !.rows = @ \o SetToSeq({<<k, image.recs[k]>> : k \in hit})]
        /\ UNCHANGED <<fileVars, logVars, round, disk, state, written, used>>

EndRead ==
    /\ reader # Idle
    /\ reader.at = None
    /\ reader' = Idle
    /\ UNCHANGED <<fileVars, logVars, round, disk, state, written, used>>

IdSeqs == {s \in UNION {[1..n -> TupleId] : n \in 1..Cardinality(TupleId)} : IsInjective(s)}

Next ==
    \/ \E ts \in Ts, ids \in IdSeqs, v \in Payload : InsertBatch(ts, ids, v)
    \/ \E k \in Key : Delete(k)
    \/ FlushWal
    \/ FlushStart
    \/ \E p \in round.left : FlushWrite(p) \/ FlushWriteFails(p)
    \/ FlushEnd
    \/ Close
    \/ Crash
    \/ CrashInReplay
    \/ Open
    \/ \E k \in Key : Get(k)
    \/ \E lo, hi \in Ts : ScanRange(lo, hi)
    \/ ReadPage
    \/ EndRead

Spec == Init /\ [][Next]_vars

-----------------------------------------------------------------------------
Images == [prev : Nat, next : Nat, lsn : Nat, recs : UNION {[S -> Payload] : S \in SUBSET Key}]

\* Types of the file's state; a page is never over-full.
TypeOK ==
    /\ \A p \in 1..Len(pages) : pages[p] \in Images \cup {Torn}
    /\ \A p \in 1..Len(pages) : state = "open" => Cardinality(DOMAIN pages[p].recs) <= Cap
    /\ {head, tail} \subseteq 0..Len(pages)
    /\ dirty \subseteq 1..Len(pages)
    /\ round.left \cup round.done \subseteq 1..Len(pages)
    /\ \A p \in 1..Len(disk) : disk[p] \in Images \cup {Torn}
    /\ state \in {"open", "down", "refused"}

\* The pages hold every record the writes left, with its newest contents, each in exactly one
\* page, and a file that was closed or lost its process at any point opens again with the
\* records of its log: no split, prepend, append, delete or replay loses, revives or doubles one.
FileHoldsWritten ==
    state # "down" =>
      /\ state = "open"
      /\ \A p \in 1..Len(pages) : \A k \in DOMAIN pages[p].recs :
           k \in DOMAIN written /\ pages[p].recs[k] = written[k]
      /\ \A k \in DOMAIN written :
           Cardinality({p \in 1..Len(pages) : k \in DOMAIN pages[p].recs}) = 1

\* The chain published to readers is one that open would accept, from the published head to the
\* published tail.
ChainSound ==
    state = "open" =>
      /\ Openable(pages)
      /\ Heads(pages) = {head} \ {None}
      /\ Tails(pages) = {tail} \ {None}

\* A page without a dirty mark is in the data file as published, though writers publish newer
\* images while a round is writing older ones (clear_dirty_mark).
CleanIsOnDisk ==
    state = "open" =>
      \A p \in 1..Len(pages) \ dirty : p <= Len(disk) /\ disk[p] = pages[p]

\* Every dirty page is covered by the log: the data file, in whatever mixture of old and new
\* pages the rounds have left it, replays to exactly the published pages.
LogCoversPages ==
    state = "open" => Replay(Entries(log \o queue)) = [ok |-> TRUE, file |-> pages]

\* After a crash the file opens: recovery "never depends on a dirty page being flushed to the
\* data file" (time_series_file.rs:66-68).
NeverRefused == state # "refused"

\* A get or scan_range that ran beside writers returns every record of its range that was there
\* from its start to its end, nothing that was never there meanwhile, and no record twice.
ReadsRight ==
    reader # Idle /\ reader.at = None =>
      /\ reader.must \subseteq {r[1] : r \in ToSet(reader.rows)}
      /\ ToSet(reader.rows) \subseteq reader.may
      /\ \A i, j \in 1..Len(reader.rows) : reader.rows[i][1] = reader.rows[j][1] => i = j

=============================================================================
