-------------------------- MODULE PartitionRouter --------------------------
(***************************************************************************)
(* server/partition_router.rs: from a route tuple, or the bounds of a      *)
(* range, to partitions of a rule.  A rule is the sequence of partitions   *)
(* of its PartitionRuleDesc, in the order of the CREATE PARTITION RULE     *)
(* statement; the binder checks neither that they are in order nor that    *)
(* they are disjoint or without gaps.  A table that is not bound to a rule *)
(* has one partition of its own.  The operators are parameterised by the   *)
(* order of tuple_compare, external here (mudu_contract).                  *)
(***************************************************************************)
EXTENDS Integers, Sequences

CONSTANTS
    Tuple,        \* route tuples
    Less(_, _)    \* tuple_compare(..).is_lt()

\* tuple_compare is a total order
ASSUME OrderAssumption ==
    /\ \A a, b \in Tuple : Less(a, b) \in BOOLEAN
    /\ \A a \in Tuple : ~Less(a, a)
    /\ \A a, b, c \in Tuple : Less(a, b) /\ Less(b, c) => Less(a, c)
    /\ \A a, b \in Tuple : a = b \/ Less(a, b) \/ Less(b, a)

\* PartitionBound, and Bound of a range read
Bound(kinds) == [kind : kinds \cup {"unbounded"}, at : Tuple]
Partitions == [start : Bound({"value"}), end : Bound({"value"})]
RangeBounds == Bound({"included", "excluded"})

\* the start of a partition is in it, its end is not
InPartition(p, t) ==
    /\ p.start.kind = "unbounded" \/ ~Less(t, p.start.at)
    /\ p.end.kind = "unbounded" \/ Less(t, p.end.at)

\* mutant: every partition that matches, not the first one
route_rule_partition_all(rule, t) == {i \in DOMAIN rule : InPartition(rule[i], t)}

\* the first partition that contains the tuple; none is the error "no partition matched"
route_rule_exact_partition(rule, t) ==
    {i \in DOMAIN rule : InPartition(rule[i], t) /\ \A j \in 1 .. (i - 1) : ~InPartition(rule[j], t)}

\* the partition of a table without a binding
DefaultPartition == 0

route_exact_partition(bound, rule, t) ==
    IF bound THEN route_rule_exact_partition(rule, t) ELSE {DefaultPartition}

\* mutant: a partition that begins before the range does not overlap it
partition_overlaps_starts(p, start, end) ==
    /\ end.kind = "unbounded" \/ p.start.kind = "unbounded" \/ Less(p.start.at, end.at)
    /\ start.kind = "unbounded" \/ (p.start.kind # "unbounded" /\ ~Less(p.start.at, start.at))

\* the end of the range lies behind the partition's start, its start before the
\* partition's end; whether a bound of the range is included plays no role
partition_overlaps(p, start, end) ==
    /\ end.kind = "unbounded" \/ p.start.kind = "unbounded" \/ Less(p.start.at, end.at)
    /\ start.kind = "unbounded" \/ p.end.kind = "unbounded" \/ Less(start.at, p.end.at)

route_rule_range_partitions(rule, start, end) ==
    {i \in DOMAIN rule : partition_overlaps(rule[i], start, end)}

route_range_partitions(bound, rule, start, end) ==
    IF bound THEN route_rule_range_partitions(rule, start, end) ELSE {DefaultPartition}

\* is a tuple within the bounds of a range
Within(t, start, end) ==
    /\ CASE start.kind = "unbounded" -> TRUE
         [] start.kind = "included" -> ~Less(t, start.at)
         [] OTHER -> Less(start.at, t)
    /\ CASE end.kind = "unbounded" -> TRUE
         [] end.kind = "included" -> ~Less(end.at, t)
         [] OTHER -> Less(t, end.at)

\* the key a range's included end names
IncludedEnd(t, end) == end.kind = "included" /\ t = end.at

\* Every tuple within the bounds of a range is in a partition the range is routed to, when
\* the rule has a partition for it at all: partition pruning loses nothing but the tuple
\* an included end names.
PruningLosesOnlyEnd(rule) ==
    \A t \in Tuple, start, end \in RangeBounds :
        Within(t, start, end) /\ ~IncludedEnd(t, end) =>
            route_rule_exact_partition(rule, t) \subseteq route_rule_range_partitions(rule, start, end)
=============================================================================
