----------------------------- MODULE RangeRead -----------------------------
(***************************************************************************)
(* A transaction's writes and scans of one table: insert, update, delete,  *)
(* deferred deltas, range reads and prefix reads of WorkerXContract        *)
(* (server/x_contract/ops.rs) with the overlay of staged rows              *)
(* (worker_storage.rs range_on_partition, x_contract/utils.rs              *)
(* staged_overlay_in_bounds, worker_tx_manager.rs).                        *)
(*                                                                         *)
(* A scan goes through the partitions its bounds are routed to one after   *)
(* the other; other transactions commit in between.  Rows the transaction  *)
(* has staged are laid over what each partition returns.  CREATE TABLE     *)
(* makes the table known before it binds it to its rule, so rows may be    *)
(* written before the bind.  The committing of cross-partition             *)
(* transactions is CrossPartition's subject and one step here.             *)
(***************************************************************************)
EXTENDS PartitionRouter, FiniteSets, Functions

CONSTANTS
    Tables,      \* tables a behaviour may be about: [cols, datum, ref, rule, remote,
                 \* bound]; datum holds the values of a key column: integers; bound
                 \* is FALSE while the CREATE TABLE statement is under way
    Width,       \* 2^Width values fit a key column
    Value,       \* values the transaction writes: positive
    OtherValue,  \* values other transactions write: positive
    MaxWrites,   \* bound: writes of the transaction
    MaxDeltas,   \* bound: deferred deltas among them
    MaxOthers,   \* bound: commits of other transactions
    MaxReads     \* bound: scans

\* a rule's bounds and the route tuples of the table's keys are tuples of one kind
ASSUME TablesAssumption ==
    /\ Value \subseteq Nat /\ OtherValue \subseteq Nat
    /\ \A t \in Tables :
        /\ t.rule \in Seq(Partitions) /\ t.bound \in BOOLEAN
        /\ \A k \in [1 .. t.cols -> t.datum] : [n \in DOMAIN t.ref |-> k[t.ref[n]]] \in Tuple

VARIABLES
    table,    \* the table
    bound,    \* is the table bound to its rule?
    rows,     \* rows[i][k]: the latest committed value in partition i, Gone for none
    staged,   \* staged_relation_ops: <<i, k>> to a value or Gone, a staged delete
    deltas,   \* deferred deltas staged for <<i, k>>
    scan,     \* the scan in progress
    used      \* bounded counters

vars == <<table, bound, rows, staged, deltas, scan, used>>

Gone == 0
Keys == [1 .. table.cols -> table.datum]
Parts == {DefaultPartition} \cup DOMAIN table.rule
Unbounded == [kind |-> "unbounded", at |-> <<>>]
NoScan == [pc |-> "idle", start |-> Unbounded, end |-> Unbounded, prefix |-> <<>>,
           bound |-> TRUE, left |-> {}, got |-> {}, held |-> <<>>]

\* Types of the rows, of what is staged and of the scan: a scan never returns a row that is
\* gone (range_on_partition).
TypeOK ==
    /\ table \in Tables /\ bound \in BOOLEAN
    /\ rows \in [Parts -> [Keys -> Nat]]
    /\ DOMAIN staged \subseteq Parts \X Keys /\ Range(staged) \subseteq Nat
    /\ DOMAIN deltas \subseteq Parts \X Keys /\ Range(deltas) \subseteq Nat
    /\ scan.pc \in {"idle", "reading", "done"}
    /\ scan.got \subseteq Keys \X (Nat \ {Gone})

\* build_route_tuple: the key columns the binding refers to
RouteTuple(k) == [n \in DOMAIN table.ref |-> k[table.ref[n]]]
Route(b, k) == route_exact_partition(b, table.rule, RouteTuple(k))
Exact(k) == Route(bound, k)

\* build_tuple on integers, big endian: negative ones are the large ones
Bytes(k) == [n \in DOMAIN k |-> k[n] % 2 ^ Width]
BytesLess(k, l) == Less(Bytes(k), Bytes(l))

Init ==
    /\ table \in Tables /\ bound = table.bound
    /\ rows = [i \in Parts |-> [k \in Keys |-> Gone]]
    /\ staged = <<>> /\ deltas = <<>>
    /\ scan = NoScan
    /\ used = [writes |-> 0, deltas |-> 0, others |-> 0, reads |-> 0]

(***************************************************************************)
(* The transaction's writes.                                               *)
(***************************************************************************)
\* get_on_partition: the staged row, else the committed one with the staged deltas
Current(i, k) ==
    CASE <<i, k>> \in DOMAIN staged -> staged[<<i, k>>]
      [] <<i, k>> \in DOMAIN deltas /\ rows[i][k] # Gone -> rows[i][k] + deltas[<<i, k>>]
      [] OTHER -> rows[i][k]

Put(f, x, v) == [y \in DOMAIN f \cup {x} |-> IF y = x THEN v ELSE f[y]]

MayWrite == scan.pc # "reading" /\ used.writes < MaxWrites
Stage(i, k, v) ==
    /\ staged' = Put(staged, <<i, k>>, v)
    /\ used' = [used EXCEPT !.writes = @ + 1]
    /\ scan' = NoScan
    /\ UNCHANGED <<table, bound, rows>>

\* _insert: an existing key is an error
Insert ==
    /\ MayWrite
    /\ \E k \in Keys : \E i \in Exact(k), v \in Value :
        /\ Current(i, k) = Gone
        /\ Stage(i, k, v)
    /\ UNCHANGED deltas

\* _update with absolute values: no row, no effect; staged deltas stay as they are
Update ==
    /\ MayWrite
    /\ \E k \in Keys : \E i \in Exact(k), v \in Value :
        /\ Current(i, k) # Gone
        /\ Stage(i, k, v)
    /\ UNCHANGED deltas

\* _delete
Delete ==
    /\ MayWrite
    /\ \E k \in Keys : \E i \in Exact(k) :
        /\ Current(i, k) # Gone
        /\ Stage(i, k, Gone)
    /\ UNCHANGED deltas

\* _update with a deferred delta: for rows of this worker, without a lock
DeferDelta ==
    /\ MayWrite /\ used.deltas < MaxDeltas
    /\ \E k \in Keys : \E i \in Exact(k) :
        /\ ~table.remote[i]
        /\ Current(i, k) # Gone
        /\ deltas' = Put(deltas, <<i, k>>, 1 + IF <<i, k>> \in DOMAIN deltas THEN deltas[<<i, k>>] ELSE 0)
    /\ used' = [used EXCEPT !.writes = @ + 1, !.deltas = @ + 1]
    /\ scan' = NoScan
    /\ UNCHANGED <<table, bound, rows, staged>>

\* a commit applies the staged rows and then the deltas, which need a row
AtCommit(i, k, v) ==
    LET w == IF <<i, k>> \in DOMAIN staged THEN staged[<<i, k>>] ELSE v
    IN  IF <<i, k>> \in DOMAIN deltas /\ w # Gone THEN w + deltas[<<i, k>>] ELSE w

\* the transaction commits or is rolled back
EndTx ==
    /\ scan.pc # "reading"
    /\ staged # <<>> \/ deltas # <<>>
    /\ \E commit \in BOOLEAN :
        rows' = IF commit THEN [i \in Parts |-> [k \in Keys |-> AtCommit(i, k, rows[i][k])]] ELSE rows
    /\ staged' = <<>> /\ deltas' = <<>> /\ scan' = NoScan
    /\ UNCHANGED <<table, bound, used>>

\* Another transaction commits a row.  The statement lock keeps it from staged keys.
OtherCommits ==
    /\ used.others < MaxOthers
    /\ \E k \in Keys : \E i \in Exact(k), v \in OtherValue \cup {Gone} :
        /\ <<i, k>> \notin DOMAIN staged
        /\ rows[i][k] # v
        /\ rows' = [rows EXCEPT ![i][k] = v]
        /\ scan' = IF scan.pc = "reading" /\ i \in Route(scan.bound, k)
                   THEN [scan EXCEPT !.held[k] = @ \cup {v}] ELSE scan
    /\ used' = [used EXCEPT !.others = @ + 1]
    /\ UNCHANGED <<table, bound, staged, deltas>>

\* The second half of CREATE TABLE: bind_table_partition.
Bind ==
    /\ ~bound
    /\ bound' = TRUE
    /\ UNCHANGED <<table, rows, staged, deltas, scan, used>>

(***************************************************************************)
(* Scans.                                                                  *)
(***************************************************************************)
BeginScan(start, end, prefix, parts) ==
    /\ scan.pc # "reading" /\ used.reads < MaxReads
    /\ scan' = [pc |-> IF parts = {} THEN "done" ELSE "reading", start |-> start, end |-> end,
                prefix |-> prefix, bound |-> bound, left |-> parts, got |-> {},
                held |-> [k \in Keys |-> {rows[i][k] : i \in Exact(k)}]]
    /\ used' = [used EXCEPT !.reads = @ + 1]
    /\ UNCHANGED <<table, bound, rows, staged, deltas>>

ScanBounds == {Unbounded} \cup [kind : {"included", "excluded"}, at : Keys]
RouteBound(b) == IF b.kind = "unbounded" THEN b ELSE [b EXCEPT !.at = RouteTuple(b.at)]

\* _read_range: a bound has one column, so build_bound_key refuses longer keys
ReadRange ==
    /\ table.cols = 1
    /\ \E start, end \in ScanBounds :
        BeginScan(start, end, <<>>,
                  route_range_partitions(bound, table.rule, RouteBound(start), RouteBound(end)))

\* every column of the partition key is among the first n columns
prefix_covers_partition_key(ref, n) == \A m \in DOMAIN ref : ref[m] <= n

\* the route tuple of a prefix: columns outside the partition key are not looked at
PrefixParts(d) ==
    IF prefix_covers_partition_key(table.ref, 1)
    THEN route_exact_partition(bound, table.rule, [n \in DOMAIN table.ref |-> d])
    ELSE route_range_partitions(bound, table.rule, Unbounded, Unbounded)

\* _read_range with Predicate::KeyPrefixEq on the first column; a prefix that no partition
\* contains is an error
ReadPrefix ==
    /\ table.cols > 1
    /\ \E d \in table.datum :
        /\ PrefixParts(d) # {}
        /\ BeginScan(Unbounded, Unbounded, <<d>>, PrefixParts(d))

InScan(k) == Within(k, scan.start, scan.end)
HasPrefix(k) == \A n \in DOMAIN scan.prefix : k[n] = scan.prefix[n]

\* visible_range of one partition
Base(i) == {k \in Keys : InScan(k) /\ rows[i][k] # Gone}

\* staged_relation_items_in_range(start, end): start <= key < end, on bytes; no bytes for
\* an unbounded end
StagedItems(i) ==
    {k \in Keys : /\ <<i, k>> \in DOMAIN staged
                  /\ scan.start.kind = "unbounded" \/ ~BytesLess(k, scan.start.at)
                  /\ scan.end.kind = "unbounded" \/ BytesLess(k, scan.end.at)}

\* the overlay of a remote partition: without an excluded start, with an included end
staged_overlay_in_bounds(i) ==
    (StagedItems(i) \ (IF scan.start.kind = "excluded" THEN {scan.start.at} ELSE {}))
    \cup (IF scan.end.kind = "included" /\ <<i, scan.end.at>> \in DOMAIN staged
          THEN {scan.end.at} ELSE {})

\* committed rows, replaced by the staged ones of the overlay
Merged(i, overlay) ==
    {<<k, rows[i][k]>> : k \in Base(i) \ overlay}
    \cup {<<k, staged[<<i, k>>]>> : k \in {l \in overlay : staged[<<i, l>>] # Gone}}

\* the staged rows laid over what partition i returns
Overlay(i) == IF table.remote[i] THEN staged_overlay_in_bounds(i) ELSE StagedItems(i)

\* the next partition of the scan, in the order of the rule: range_on_partition here, or
\* an RPC to its owner
ReadPartition ==
    /\ scan.pc = "reading"
    /\ \E i \in scan.left :
        /\ \A j \in scan.left : i <= j
        /\ LET more == {row \in Merged(i, Overlay(i)) : HasPrefix(row[1])}
           IN  scan' = [scan EXCEPT !.left = @ \ {i}, !.got = @ \cup more,
                                    !.pc = IF scan.left = {i} THEN "done" ELSE "reading"]
    /\ UNCHANGED <<table, bound, rows, staged, deltas, used>>

Next ==
    \/ Insert \/ Update \/ Delete \/ DeferDelta \/ EndTx \/ OtherCommits \/ Bind
    \/ ReadRange \/ ReadPrefix \/ ReadPartition

Spec == Init /\ [][Next]_vars

(***************************************************************************)
(* Properties.                                                             *)
(***************************************************************************)
\* the partition of k when the scan began
ScanPart(k) == Route(scan.bound, k)

\* what a scan may return for k: what a commit would make of the row as it was at
\* some time of the scan
Wanted(k) ==
    UNION {{AtCommit(i, k, v) : v \in scan.held[k]} : i \in ScanPart(k)}
Got(k) == {row[2] : row \in {r \in scan.got : r[1] = k}}
Asked(k) == InScan(k) /\ HasPrefix(k)
RightFor(k) == IF Asked(k) /\ ScanPart(k) # {}
               THEN \E v \in Wanted(k) : Got(k) = IF v = Gone THEN {} ELSE {v}
               ELSE Got(k) = {}

\* A finished scan has, for every key within its bounds, the row as the transaction sees it
\* (its own writes, else a committed value of the time of the scan, in the partition the
\* key had when the scan began), and no other rows.
\* partition.md: "The router finds all partitions whose ranges overlap the requested key
\* range"; ops.rs and worker_storage.rs: "read-your-writes".
ScanRight == scan.pc = "done" => \A k \in Keys : RightFor(k)

\* the keys for which _read_range does not keep that promise: an included end, a staged
\* row on an excluded start, staged deltas, and staged rows whose bytes are not ordered as
\* their values are
AtEdge(k) ==
    \/ scan.end.kind = "included" /\ k = scan.end.at
    \/ \E i \in ScanPart(k) : <<i, k>> \in DOMAIN deltas
    \/ /\ \E i \in ScanPart(k) : <<i, k>> \in DOMAIN staged
       /\ \/ scan.start.kind = "excluded" /\ k = scan.start.at
          \/ scan.start.kind # "unbounded" /\ Less(k, scan.start.at) # BytesLess(k, scan.start.at)
          \/ scan.end.kind # "unbounded" /\ Less(k, scan.end.at) # BytesLess(k, scan.end.at)

\* The same for all other keys: no interleaving of commits with the partitions of a scan,
\* no rule with gaps or overlapping partitions and no staged row loses, doubles or
\* invents a row inside the bounds.
InnerRowsRight == scan.pc = "done" => \A k \in Keys : AtEdge(k) \/ RightFor(k)

\* On partitions of other workers the boundary keys of staged rows are right too
\* (staged_overlay_in_bounds: "the inclusive/exclusive boundary keys are adjusted here").
RemoteEdgesRight ==
    scan.pc = "done" =>
        \A k \in Keys :
            /\ \A i \in ScanPart(k) : table.remote[i] /\ <<i, k>> \in DOMAIN staged
                                     /\ i \in route_range_partitions(scan.bound, table.rule,
                                                RouteBound(scan.start), RouteBound(scan.end))
            /\ ScanPart(k) # {}
            /\ \A n \in DOMAIN k : k[n] >= 0
            /\ \A b \in {scan.start, scan.end} : \A n \in DOMAIN b.at : b.at[n] >= 0
            => RightFor(k)

\* A scan returns at most one row for a key, also when partitions of the rule overlap and
\* other transactions write the key, in this partition or after the bind in another one,
\* while the scan goes from partition to partition (ops.rs _read_range appends what each
\* partition returns).
OneRowPerKey == \A r, q \in scan.got : r[1] = q[1] => r = q

\* Every row is in the partition its key is routed to, so that statements find it.  It
\* fails for rows written before the table is bound.
RowsReachable == \A i \in Parts, k \in Keys : rows[i][k] # Gone => Exact(k) = {i}
=============================================================================
