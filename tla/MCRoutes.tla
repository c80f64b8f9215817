------------------------------ MODULE MCRoutes -------------------------------
(* Instances of CrossPartition for TLC on the same variables; mode says    *)
(* which one the behaviour belongs to.                                     *)
(*                                                                         *)
(* "apart": the sessions are on different workers with a row each, and a   *)
(* call, a write or a flush round may fail.  "handoff": likewise, and the  *)
(* first session may write both of two rows of the other worker.  "calls": *)
(* both make calls, and nothing fails.  "together": both are on the first  *)
(* worker and write rows of the second, so that their commit locks meet.   *)
EXTENDS MCCrossPartition

VARIABLE mode

H == INSTANCE CrossPartition WITH
         Row <- 1..3, PartitionOf <- <<1, 2, 3>>, MaxCalls <- <<2, 0>>
C == INSTANCE CrossPartition WITH
         Row <- 1..3, PartitionOf <- <<1, 2, 3>>, MaxCalls <- <<2, 1>>, MaxFaults <- 0
T == INSTANCE CrossPartition WITH
         Row <- 1..3, PartitionOf <- <<1, 2, 3>>,
         Home <- <<1, 1>>, WorkerOf <- <<1, 1, 2>>, MaxCalls <- <<2, 0>>,
         MaxFaults <- 0

InMode(a, h, c, t) ==
    CASE mode = "apart" -> a
      [] mode = "handoff" -> h
      [] mode = "calls" -> c
      [] mode = "together" -> t

MCInit ==
    /\ mode \in {"apart", "handoff", "calls", "together"}
    /\ InMode(Init, H!Init, C!Init, T!Init)

MCNext ==
    /\ InMode(Next, H!Next, C!Next, T!Next)
    /\ UNCHANGED mode

MCSpec == MCInit /\ [][MCNext]_<<vars, mode>>

------------------------------------------------------------------------------
(* No update of a row that was acknowledged is lost to another one that    *)
(* was acknowledged, by the routes that lock; one whose client was told of *)
(* an error may still overwrite it (rpc.rs:742-757).                       *)
NoUpdateLost == InMode(AckedNoLostUpdate, H!AckedNoLostUpdate, C!AckedNoLostUpdate, T!AckedNoLostUpdate)

(* A transaction is applied to a row at most once, retries included.       *)
AppliedOnce == InMode(AppliedAtMostOnce, H!AppliedAtMostOnce, C!AppliedAtMostOnce, T!AppliedAtMostOnce)

(* A commit that returned Ok has its versions, unless the guard of the     *)
(* mixed route took another worker's transaction for it.                   *)
AckedIsApplied == InMode(AckedAppliedUnlessGuarded, H!AckedAppliedUnlessGuarded, C!AckedAppliedUnlessGuarded, T!AckedAppliedUnlessGuarded)

(* A lock held on another worker belongs to a transaction that will        *)
(* release it, or was given up in one of the ways the code has.            *)
LocksTracked == InMode(RemoteLockTracked, H!RemoteLockTracked, C!RemoteLockTracked, T!RemoteLockTracked)

(* A call takes only its own answer, late answers of others around.        *)
TakesOwnAnswer == InMode(AnswerIsOwn, H!AnswerIsOwn, C!AnswerIsOwn, T!AnswerIsOwn)

(* No answer is left in an inbox nobody reads, though calls time out.      *)
NoAnswerLeft == InMode(AnswersAwaited, H!AnswersAwaited, C!AnswersAwaited, T!AnswersAwaited)
==============================================================================
