-------------------------- MODULE RangeReadProofs --------------------------
(***************************************************************************)
(* Proof that a scan returns at most one row for a key, for every set of   *)
(* tables, rules with gaps and overlaps included, and any number of writes *)
(* between the partitions of a scan and of a bind.                         *)
(***************************************************************************)
EXTENDS RangeRead, PartitionRouterProofs

\* The partition k has in the table's rule.
RuleRoute(k) == route_rule_exact_partition(table.rule, RouteTuple(k))

\* A row of k can be in partition i: before the bind all rows are in the default partition.
MayHold(i, k) == i = DefaultPartition \/ RuleRoute(k) = {i}

\* Committed and staged rows are where a row of their key can be.
PlacedInv ==
    /\ table \in Tables
    /\ rows \in [Parts -> [Keys -> Nat]]
    /\ \A i \in Parts, k \in Keys : rows[i][k] # Gone => MayHold(i, k)
    /\ \A x \in DOMAIN staged :
        staged[x] \in Nat /\ \E i \in Parts, k \in Keys : x = <<i, k>> /\ MayHold(i, k)
    /\ \A x \in DOMAIN deltas : deltas[x] \in Nat

\* A scan reads the default partition or partitions of the rule, and the keys it has got are
\* in none of those it has still to read.
ScanInv ==
    /\ {"left", "got"} \subseteq DOMAIN scan
    /\ scan.left \subseteq Parts
    /\ DefaultPartition \in scan.left => scan.left = {DefaultPartition} /\ scan.got = {}
    /\ \A r \in scan.got, i \in scan.left : RuleRoute(r[1]) # {i}
    /\ OneRowPerKey

\* A key is routed to at most one partition, in which a row of it can be
\* (route_exact_partition).
LEMMA RoutePlaces ==
    ASSUME table \in Tables, NEW k \in Keys, NEW b \in BOOLEAN, NEW i \in Route(b, k)
    PROVE  i \in Parts /\ MayHold(i, k)
<1>1. CASE b
  <2>1. table.rule \in Seq(Partitions) /\ i \in RuleRoute(k)
    BY <1>1, TablesAssumption DEF Route, route_exact_partition, RuleRoute
  <2>2. \A j \in RuleRoute(k) : j = i
    BY <2>1, RouterUnique DEF RuleRoute
  <2>3. i \in Parts
    BY <2>1 DEF RuleRoute, route_rule_exact_partition, Parts
  <2> QED BY <2>1, <2>2, <2>3 DEF MayHold
<1>2. CASE ~b
  BY <1>2 DEF Route, route_exact_partition, Parts, MayHold
<1> QED BY <1>1, <1>2

\* The table never changes, so neither do its partitions, keys and rule.
LEMMA TableFixed ==
    ASSUME table' = table
    PROVE  /\ Parts' = Parts /\ Keys' = Keys
           /\ \A k : RuleRoute(k)' = RuleRoute(k)
           /\ \A i, k : MayHold(i, k)' <=> MayHold(i, k)
  BY DEF Parts, Keys, RuleRoute, RouteTuple, MayHold

\* What the transaction begins with, or a write leaves: no scan.
LEMMA NoScanInv ==
    ASSUME scan' = NoScan
    PROVE  ScanInv'
<1>1. scan'.left = {} /\ scan'.got = {} /\ {"left", "got"} \subseteq DOMAIN scan'
  BY DEF NoScan
<1> QED BY <1>1 DEF ScanInv, OneRowPerKey

\* A step that leaves the table and what the scan has read and has to read.
LEMMA SameScan ==
    ASSUME ScanInv, table' = table, {"left", "got"} \subseteq DOMAIN scan',
           scan'.left = scan.left, scan'.got = scan.got
    PROVE  ScanInv'
<1>1. Parts' = Parts /\ \A k : RuleRoute(k)' = RuleRoute(k)
  BY TableFixed
<1> QED BY <1>1 DEF ScanInv, OneRowPerKey

\* Staging a row at its key's partition (Insert, Update, Delete).
LEMMA StagePlaced ==
    ASSUME PlacedInv, bound \in BOOLEAN, NEW k \in Keys, NEW i \in Exact(k), NEW v \in Nat,
           Stage(i, k, v), UNCHANGED deltas
    PROVE  PlacedInv'
<1>1. table' = table /\ rows' = rows /\ deltas' = deltas /\ staged' = Put(staged, <<i, k>>, v)
  BY DEF Stage
<1>2. /\ Parts' = Parts /\ Keys' = Keys
      /\ \A j, l : MayHold(j, l)' <=> MayHold(j, l)
  BY <1>1, TableFixed
<1>3. i \in Parts /\ MayHold(i, k)
  BY RoutePlaces DEF PlacedInv, Exact
<1>4. ASSUME NEW x \in DOMAIN staged'
      PROVE  staged'[x] \in Nat /\ \E j \in Parts, l \in Keys : x = <<j, l>> /\ MayHold(j, l)
  <2>1. CASE x = <<i, k>>
    BY <1>1, <1>3, <2>1 DEF Put
  <2>2. CASE x # <<i, k>>
    <3>1. x \in DOMAIN staged /\ staged'[x] = staged[x]
      BY <1>1, <1>4, <2>2 DEF Put
    <3> QED BY <3>1 DEF PlacedInv
  <2> QED BY <2>1, <2>2
<1> QED BY <1>1, <1>2, <1>4 DEF PlacedInv

\* A commit writes each row to the partition it was staged for (EndTx).
LEMMA CommitPlaced ==
    ASSUME PlacedInv, EndTx
    PROVE  PlacedInv'
<1>1. table' = table /\ staged' = <<>> /\ deltas' = <<>>
  BY DEF EndTx
<1>2. /\ Parts' = Parts /\ Keys' = Keys
      /\ \A j, l : MayHold(j, l)' <=> MayHold(j, l)
  BY <1>1, TableFixed
<1>3. \/ rows' = rows
      \/ rows' = [i \in Parts |-> [k \in Keys |-> AtCommit(i, k, rows[i][k])]]
  BY DEF EndTx
<1>4. ASSUME NEW i \in Parts, NEW k \in Keys
      PROVE  /\ AtCommit(i, k, rows[i][k]) \in Nat
             /\ AtCommit(i, k, rows[i][k]) # Gone => MayHold(i, k)
  <2>1. rows[i][k] \in Nat /\ (rows[i][k] # Gone => MayHold(i, k))
    BY DEF PlacedInv
  <2>2. CASE <<i, k>> \in DOMAIN staged
    <3>1. staged[<<i, k>>] \in Nat /\ MayHold(i, k)
      BY <2>2 DEF PlacedInv
    <3> QED BY <2>2, <3>1 DEF AtCommit, PlacedInv
  <2>3. CASE <<i, k>> \notin DOMAIN staged
    BY <2>1, <2>3 DEF AtCommit, PlacedInv
  <2> QED BY <2>2, <2>3
<1>5. rows' \in [Parts -> [Keys -> Nat]]
  BY <1>3, <1>4 DEF PlacedInv
<1>6. \A i \in Parts, k \in Keys : rows'[i][k] # Gone => MayHold(i, k)
  BY <1>3, <1>4 DEF PlacedInv
<1>7. \A x : x \notin DOMAIN staged' /\ x \notin DOMAIN deltas'
  BY <1>1
<1> QED BY <1>1, <1>2, <1>5, <1>6, <1>7 DEF PlacedInv

\* Another transaction writes to its key's partition (OtherCommits).
LEMMA OtherPlaced ==
    ASSUME PlacedInv, bound \in BOOLEAN, OtherCommits
    PROVE  PlacedInv'
<1>1. table' = table /\ staged' = staged /\ deltas' = deltas
  BY DEF OtherCommits
<1>2. /\ Parts' = Parts /\ Keys' = Keys
      /\ \A j, l : MayHold(j, l)' <=> MayHold(j, l)
  BY <1>1, TableFixed
<1>3. PICK k \in Keys : \E i \in Exact(k), v \in OtherValue \cup {Gone} :
                            rows' = [rows EXCEPT ![i][k] = v]
  BY DEF OtherCommits
<1>4. PICK i \in Exact(k), v \in OtherValue \cup {Gone} : rows' = [rows EXCEPT ![i][k] = v]
  BY <1>3
<1>5. i \in Parts /\ MayHold(i, k)
  BY RoutePlaces DEF PlacedInv, Exact
<1>6. v \in Nat
  BY TablesAssumption DEF Gone
<1>7. rows' \in [Parts -> [Keys -> Nat]]
  BY <1>4, <1>5, <1>6 DEF PlacedInv
<1>8. ASSUME NEW j \in Parts, NEW l \in Keys, rows'[j][l] # Gone
      PROVE  MayHold(j, l)
  <2>1. CASE j = i /\ l = k
    BY <2>1, <1>5
  <2>2. CASE ~(j = i /\ l = k)
    BY <1>4, <1>5, <1>8, <2>2 DEF PlacedInv
  <2> QED BY <2>1, <2>2
<1> QED BY <1>1, <1>2, <1>7, <1>8 DEF PlacedInv

\* What a partition returns, with the staged rows laid over it, are rows of keys that can be
\* there, one for each key (range_on_partition, staged_overlay_in_bounds).
LEMMA MergedRows ==
    ASSUME PlacedInv, NEW i \in Parts,
           NEW r \in Merged(i, Overlay(i)), NEW q \in Merged(i, Overlay(i))
    PROVE  MayHold(i, r[1]) /\ (r[1] = q[1] => r = q)
<1> DEFINE O == Overlay(i)
<1>1. \A k \in O : <<i, k>> \in DOMAIN staged
  BY DEF Overlay, staged_overlay_in_bounds, StagedItems
<1>2. \A k \in O : k \in Keys /\ MayHold(i, k)
  BY <1>1 DEF PlacedInv
<1>3. \A k \in Base(i) : k \in Keys /\ MayHold(i, k)
  BY DEF Base, PlacedInv
<1>4. ASSUME NEW s \in Merged(i, O)
      PROVE  \/ s[1] \in Base(i) \ O /\ s = <<s[1], rows[i][s[1]]>>
             \/ s[1] \in O /\ s = <<s[1], staged[<<i, s[1]>>]>>
  <2>1. CASE s \in {<<k, rows[i][k]>> : k \in Base(i) \ O}
    <3>1. PICK k \in Base(i) \ O : s = <<k, rows[i][k]>>
      BY <2>1
    <3>2. s[1] = k
      BY <3>1
    <3> QED BY <3>1, <3>2
  <2>2. CASE s \in {<<k, staged[<<i, k>>]>> : k \in {l \in O : staged[<<i, l>>] # Gone}}
    <3>1. PICK k \in O : s = <<k, staged[<<i, k>>]>>
      BY <2>2
    <3>2. s[1] = k
      BY <3>1
    <3> QED BY <3>1, <3>2
  <2> QED BY <2>1, <2>2 DEF Merged
<1>5. MayHold(i, r[1])
  BY <1>2, <1>3, <1>4
<1>6. ASSUME r[1] = q[1] PROVE r = q
  <2>1. CASE r[1] \in O
    <3>1. r = <<r[1], staged[<<i, r[1]>>]>> /\ q = <<q[1], staged[<<i, q[1]>>]>>
      BY <1>4, <1>6, <2>1
    <3> QED BY <1>6, <3>1
  <2>2. CASE r[1] \notin O
    <3>1. r = <<r[1], rows[i][r[1]]>> /\ q = <<q[1], rows[i][q[1]]>>
      BY <1>4, <1>6, <2>2
    <3> QED BY <1>6, <3>1
  <2> QED BY <2>1, <2>2
<1> QED BY <1>5, <1>6

\* Reading one more partition (ReadPartition).
LEMMA ReadOne ==
    ASSUME PlacedInv, ScanInv, ReadPartition
    PROVE  ScanInv'
<1>1. table' = table
  BY DEF ReadPartition
<1>2. Parts' = Parts /\ \A k : RuleRoute(k)' = RuleRoute(k)
  BY <1>1, TableFixed
<1>3. PICK i \in scan.left :
        LET more == {row \in Merged(i, Overlay(i)) : HasPrefix(row[1])}
        IN  scan' = [scan EXCEPT !.left = @ \ {i}, !.got = @ \cup more,
                                 !.pc = IF scan.left = {i} THEN "done" ELSE "reading"]
  BY DEF ReadPartition
<1> DEFINE more == {row \in Merged(i, Overlay(i)) : HasPrefix(row[1])}
<1>4. /\ {"left", "got"} \subseteq DOMAIN scan'
      /\ scan'.left = scan.left \ {i} /\ scan'.got = scan.got \cup more
  BY <1>3 DEF ScanInv
<1>5. i \in Parts
  BY DEF ScanInv
<1>6. \A r, q \in more : MayHold(i, r[1]) /\ (r[1] = q[1] => r = q)
  BY <1>5, MergedRows
<1> HIDE DEF more
<1>7. CASE i = DefaultPartition
  <2>1. scan'.left = {} /\ scan'.got = more
    BY <1>4, <1>7 DEF ScanInv
  <2> QED BY <1>4, <1>6, <2>1 DEF ScanInv, OneRowPerKey
<1>8. CASE i # DefaultPartition
  <2>1. \A r \in more : RuleRoute(r[1]) = {i}
    BY <1>6, <1>8 DEF MayHold
  <2>2. DefaultPartition \notin scan.left
    BY <1>8 DEF ScanInv
  <2>3. \A r \in scan.got, q \in more : r[1] # q[1]
    BY <2>1 DEF ScanInv
  <2>4. OneRowPerKey'
    BY <1>4, <1>6, <2>3 DEF ScanInv, OneRowPerKey
  <2>5. \A r \in scan'.got, j \in scan'.left : RuleRoute(r[1]) # {j}
    BY <1>4, <2>1 DEF ScanInv
  <2> QED BY <1>2, <1>4, <2>2, <2>4, <2>5 DEF ScanInv
<1> QED BY <1>7, <1>8

\* A scan that begins reads the default partition or partitions of the rule.
LEMMA BeginOne ==
    ASSUME PlacedInv, bound \in BOOLEAN, NEW start, NEW end, NEW prefix, NEW parts,
           BeginScan(start, end, prefix, parts),
           parts \subseteq DOMAIN table.rule \/ parts = {DefaultPartition}
    PROVE  ScanInv'
<1>1. table' = table
  BY DEF BeginScan
<1>2. Parts' = Parts
  BY <1>1, TableFixed
<1>3. scan'.left = parts /\ scan'.got = {} /\ {"left", "got"} \subseteq DOMAIN scan'
  BY DEF BeginScan
<1>4. DefaultPartition \notin DOMAIN table.rule
  BY TablesAssumption DEF PlacedInv, DefaultPartition
<1> QED BY <1>2, <1>3, <1>4 DEF ScanInv, OneRowPerKey, Parts

\* The inductive invariant.
Inv == PlacedInv /\ bound \in BOOLEAN /\ ScanInv

\* A scan returns at most one row for a key, whatever the rule, the writes of this and of
\* other transactions and a bind between its partitions (_read_range, route_exact_partition).
THEOREM ScanOneRow == Spec => []OneRowPerKey
<1>1. Init => Inv
  <2>1. SUFFICES ASSUME Init PROVE Inv
    OBVIOUS
  <2>2. \A x : x \notin DOMAIN staged /\ x \notin DOMAIN deltas
    BY <2>1 DEF Init
  <2>3. PlacedInv
    BY <2>1, <2>2 DEF Init, Gone, PlacedInv
  <2>4. scan.left = {} /\ scan.got = {} /\ {"left", "got"} \subseteq DOMAIN scan
    BY <2>1 DEF Init, NoScan
  <2>5. bound \in BOOLEAN
    BY <2>1, TablesAssumption DEF Init
  <2> QED BY <2>3, <2>4, <2>5 DEF Inv, ScanInv, OneRowPerKey
<1>2. Inv /\ [Next]_vars => Inv'
  <2>1. SUFFICES ASSUME Inv, [Next]_vars PROVE Inv'
    OBVIOUS
  <2> USE DEF Inv
  <2>2. CASE Insert \/ Update
    <3>1. PICK k \in Keys : \E i \in Exact(k), v \in Value : Stage(i, k, v)
      BY <2>2 DEF Insert, Update
    <3>2. PICK i \in Exact(k), v \in Value : Stage(i, k, v)
      BY <3>1
    <3>3. v \in Nat /\ UNCHANGED deltas
      BY <2>2, TablesAssumption DEF Insert, Update
    <3>4. PlacedInv'
      BY <2>1, <3>2, <3>3, StagePlaced
    <3> QED BY <2>1, <3>2, <3>4, NoScanInv DEF Stage
  <2>3. CASE Delete
    <3>1. PICK k \in Keys : \E i \in Exact(k) : Stage(i, k, Gone)
      BY <2>3 DEF Delete
    <3>2. PICK i \in Exact(k) : Stage(i, k, Gone)
      BY <3>1
    <3>3. Gone \in Nat /\ UNCHANGED deltas
      BY <2>3 DEF Delete, Gone
    <3>4. PlacedInv'
      BY <2>1, <3>2, <3>3, StagePlaced
    <3> QED BY <2>1, <3>2, <3>4, NoScanInv DEF Stage
  <2>4. CASE DeferDelta
    <3>1. /\ table' = table /\ rows' = rows /\ staged' = staged /\ bound' = bound
          /\ scan' = NoScan
      BY <2>4 DEF DeferDelta
    <3>2. /\ Parts' = Parts /\ Keys' = Keys
          /\ \A j, l : MayHold(j, l)' <=> MayHold(j, l)
      BY <3>1, TableFixed
    <3>3. \A x \in DOMAIN deltas' : deltas'[x] \in Nat
      BY <2>1, <2>4 DEF DeferDelta, Put, PlacedInv
    <3>4. PlacedInv'
      BY <2>1, <3>1, <3>2, <3>3 DEF PlacedInv
    <3> QED BY <2>1, <3>1, <3>4, NoScanInv
  <2>5. CASE EndTx
    <3>1. scan' = NoScan /\ bound' = bound
      BY <2>5 DEF EndTx
    <3> QED BY <2>1, <2>5, <3>1, CommitPlaced, NoScanInv
  <2>6. CASE OtherCommits
    <3>1. bound' = bound /\ table' = table
      BY <2>6 DEF OtherCommits
    <3>2. /\ {"left", "got"} \subseteq DOMAIN scan'
          /\ scan'.left = scan.left /\ scan'.got = scan.got
      BY <2>1, <2>6 DEF OtherCommits, ScanInv
    <3> QED BY <2>1, <2>6, <3>1, <3>2, OtherPlaced, SameScan
  <2>7. CASE Bind \/ UNCHANGED vars
    <3>1. /\ table' = table /\ rows' = rows /\ staged' = staged /\ deltas' = deltas
          /\ scan' = scan /\ bound' \in BOOLEAN
      BY <2>1, <2>7 DEF Bind, vars
    <3>2. /\ Parts' = Parts /\ Keys' = Keys
          /\ \A j, l : MayHold(j, l)' <=> MayHold(j, l)
      BY <3>1, TableFixed
    <3>3. PlacedInv'
      BY <2>1, <3>1, <3>2 DEF PlacedInv
    <3>4. {"left", "got"} \subseteq DOMAIN scan'
      BY <2>1, <3>1 DEF ScanInv
    <3> QED BY <2>1, <3>1, <3>3, <3>4, SameScan
  <2>8. CASE ReadRange \/ ReadPrefix \/ ReadPartition
    <3>1. /\ table' = table /\ rows' = rows /\ staged' = staged /\ deltas' = deltas
          /\ bound' = bound
      BY <2>8 DEF ReadRange, ReadPrefix, ReadPartition, BeginScan
    <3>2. /\ Parts' = Parts /\ Keys' = Keys
          /\ \A j, l : MayHold(j, l)' <=> MayHold(j, l)
      BY <3>1, TableFixed
    <3>3. PlacedInv'
      BY <2>1, <3>1, <3>2 DEF PlacedInv
    <3>4. ASSUME NEW start, NEW end
          PROVE  LET parts == route_range_partitions(bound, table.rule, start, end)
                 IN  parts \subseteq DOMAIN table.rule \/ parts = {DefaultPartition}
      BY DEF route_range_partitions, route_rule_range_partitions
    <3>5. ASSUME NEW t
          PROVE  LET parts == route_exact_partition(bound, table.rule, t)
                 IN  parts \subseteq DOMAIN table.rule \/ parts = {DefaultPartition}
      BY DEF route_exact_partition, route_rule_exact_partition
    <3>6. CASE ReadRange
      <4>1. PICK start, end \in ScanBounds :
              BeginScan(start, end, <<>>, route_range_partitions(bound, table.rule,
                                            RouteBound(start), RouteBound(end)))
        BY <3>6 DEF ReadRange
      <4> QED BY <2>1, <3>1, <3>3, <3>4, <4>1, BeginOne
    <3>7. CASE ReadPrefix
      <4>1. PICK d \in table.datum : BeginScan(Unbounded, Unbounded, <<d>>, PrefixParts(d))
        BY <3>7 DEF ReadPrefix
      <4>2. \/ PrefixParts(d) \subseteq DOMAIN table.rule
            \/ PrefixParts(d) = {DefaultPartition}
        BY <3>4, <3>5 DEF PrefixParts
      <4> QED BY <2>1, <3>1, <3>3, <4>1, <4>2, BeginOne
    <3>8. CASE ReadPartition
      BY <2>1, <3>1, <3>3, <3>8, ReadOne
    <3> QED BY <2>8, <3>6, <3>7, <3>8
  <2> QED BY <2>1, <2>2, <2>3, <2>4, <2>5, <2>6, <2>7, <2>8 DEF Next
<1>3. Inv => OneRowPerKey
  BY DEF Inv, ScanInv
<1> QED BY <1>1, <1>2, <1>3, PTL DEF Spec
=============================================================================
