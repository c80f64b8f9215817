----------------------- MODULE PartitionRouterProofs -----------------------
(***************************************************************************)
(* Proofs about PartitionRouter, for every total order of route tuples,    *)
(* every rule and every range.                                             *)
(***************************************************************************)
EXTENDS PartitionRouter, TLAPS

\* A partition that contains a tuple of the range overlaps the range, unless the tuple is
\* the one its included end names (partition_overlaps).
LEMMA ContainedOverlaps ==
    ASSUME NEW p \in Partitions, NEW t \in Tuple,
           NEW start \in RangeBounds, NEW end \in RangeBounds,
           InPartition(p, t), Within(t, start, end), ~IncludedEnd(t, end)
    PROVE  partition_overlaps(p, start, end)
<1> USE OrderAssumption
<1>1. /\ p.start.at \in Tuple /\ p.end.at \in Tuple
      /\ start.at \in Tuple /\ end.at \in Tuple
  BY DEF Partitions, RangeBounds, Bound
<1>2. end.kind = "unbounded" \/ p.start.kind = "unbounded" \/ Less(p.start.at, end.at)
  <2>1. SUFFICES ASSUME end.kind # "unbounded", p.start.kind # "unbounded"
                 PROVE  Less(p.start.at, end.at)
    OBVIOUS
  <2>2. ~Less(t, p.start.at)
    BY <2>1 DEF InPartition
  <2>3. Less(t, end.at)
    <3>1. CASE end.kind = "included"
      <4>1. ~Less(end.at, t) /\ t # end.at
        BY <3>1 DEF Within, IncludedEnd
      <4> QED BY <4>1, <1>1
    <3>2. CASE end.kind = "excluded"
      BY <3>2 DEF Within
    <3> QED BY <3>1, <3>2, <2>1 DEF RangeBounds, Bound
  <2> QED BY <1>1, <2>2, <2>3
<1>3. start.kind = "unbounded" \/ p.end.kind = "unbounded" \/ Less(start.at, p.end.at)
  <2>1. SUFFICES ASSUME start.kind # "unbounded", p.end.kind # "unbounded"
                 PROVE  Less(start.at, p.end.at)
    OBVIOUS
  <2>2. Less(t, p.end.at)
    BY <2>1 DEF InPartition
  <2>3. t = start.at \/ Less(start.at, t)
    <3>1. CASE start.kind = "included"
      BY <3>1, <1>1 DEF Within
    <3>2. CASE start.kind = "excluded"
      BY <3>2 DEF Within
    <3> QED BY <3>1, <3>2, <2>1 DEF RangeBounds, Bound
  <2> QED BY <1>1, <2>2, <2>3
<1> QED BY <1>2, <1>3 DEF partition_overlaps

\* Pruning a range to the partitions of route_rule_range_partitions loses no tuple that
\* route_rule_exact_partition has put into a partition, except the one an included end
\* names.
THEOREM RouterPruning ==
    ASSUME NEW rule \in Seq(Partitions)
    PROVE  PruningLosesOnlyEnd(rule)
<1>1. SUFFICES ASSUME NEW t \in Tuple, NEW start \in RangeBounds, NEW end \in RangeBounds,
                      Within(t, start, end), ~IncludedEnd(t, end),
                      NEW i \in route_rule_exact_partition(rule, t)
               PROVE  i \in route_rule_range_partitions(rule, start, end)
  BY DEF PruningLosesOnlyEnd
<1>2. i \in DOMAIN rule /\ InPartition(rule[i], t)
  BY DEF route_rule_exact_partition
<1>3. rule[i] \in Partitions
  BY <1>2
<1>4. partition_overlaps(rule[i], start, end)
  BY <1>1, <1>2, <1>3, ContainedOverlaps
<1> QED BY <1>2, <1>4 DEF route_rule_range_partitions

\* route_rule_exact_partition gives at most one partition, though a rule's partitions may
\* overlap: the first one wins.
LEMMA RouterUnique ==
    ASSUME NEW rule \in Seq(Partitions), NEW t,
           NEW i \in route_rule_exact_partition(rule, t),
           NEW j \in route_rule_exact_partition(rule, t)
    PROVE  i = j
<1>1. /\ i \in 1 .. Len(rule) /\ j \in 1 .. Len(rule)
      /\ InPartition(rule[i], t) /\ InPartition(rule[j], t)
  BY DEF route_rule_exact_partition
<1>2. /\ \A k \in 1 .. (i - 1) : ~InPartition(rule[k], t)
      /\ \A k \in 1 .. (j - 1) : ~InPartition(rule[k], t)
  BY DEF route_rule_exact_partition
<1> QED BY <1>1, <1>2
=============================================================================
