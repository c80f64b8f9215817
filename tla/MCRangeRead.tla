---------------------------- MODULE MCRangeRead ----------------------------
(***************************************************************************)
(* Instances of RangeRead for TLC.                                         *)
(***************************************************************************)
EXTENDS RangeRead

\* lexicographic, on tuples of at most two columns
MCLess(s, t) ==
    IF s = <<>> \/ t = <<>> THEN s = <<>> /\ t # <<>>
    ELSE \/ s[1] < t[1]
         \/ s[1] = t[1] /\ Len(s) = 2 /\ Len(t) = 2 /\ s[2] < t[2]
         \/ s[1] = t[1] /\ Len(s) < Len(t)

MCTuple == LET d == -1 .. 1 IN {<<>>} \cup {<<a>> : a \in d} \cup (d \X d)

At(t) == [kind |-> "value", at |-> t]
Part(s, e) == [start |-> s, end |-> e]

\* one column: split in two, with a gap, with an overlap
Split == [cols |-> 1, datum |-> -1 .. 1, ref |-> <<1>>, bound |-> TRUE,
          remote |-> [i \in 0 .. 2 |-> i = 2],
          rule |-> <<Part(Unbounded, At(<<1>>)), Part(At(<<1>>), Unbounded)>>]
Gapped == [Split EXCEPT !.rule = <<Part(At(<<1>>), Unbounded), Part(Unbounded, At(<<0>>))>>]
Lapped == [Split EXCEPT !.datum = -1 .. 0, !.rule = <<Part(At(<<0>>), Unbounded), Part(Unbounded, At(<<1>>))>>]
\* two columns, partitioned by the first, by the second, by both
ByFirst == [Split EXCEPT !.cols = 2, !.datum = 0 .. 1]
BySecond == [ByFirst EXCEPT !.ref = <<2>>]
ByBoth == [ByFirst EXCEPT !.ref = <<1, 2>>,
           !.rule = <<Part(Unbounded, At(<<0, 1>>)), Part(At(<<0, 1>>), Unbounded)>>]
\* created, and not bound yet; its key will be in a partition of another worker
Created == [Split EXCEPT !.bound = FALSE, !.datum = {1}]

MCTables == {Split, Gapped, Lapped, ByFirst, BySecond, ByBoth, Created}
MCCreated == {Created}
MCSplit == {Split}
=============================================================================
