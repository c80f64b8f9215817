----------------------------- MODULE MCReturns -------------------------------
(* Every request returns, on three instances that share the variables both *)
(* modules have.  mode says which one the behaviour belongs to; the        *)
(* variables the other module has alone stay as they are.                  *)
(*                                                                         *)
(* "xp": CrossPartition with both sessions on the first worker, which make *)
(* two statement calls to the second one, and nothing fails.  "fault": the *)
(* same with one statement call, and one call, write or flush round may    *)
(* fail.  "tx": WorkerTx with autocommit puts, failing I/O and locks that  *)
(* outlive the TTL.                                                        *)
EXTENDS CrossPartition, TLC

CONSTANTS k1, BlindBase

VARIABLES mode, tx, seen, locked, queue, wal, lost, awaits

F == INSTANCE CrossPartition WITH
         Row <- {2, 3}, PartitionOf <- (2 :> 2 @@ 3 :> 3),
         MaxCalls <- <<1, 0>>, MaxFaults <- 1
T == INSTANCE WorkerTx WITH
         Row <- {}, Kv <- {k1}, MaxTs <- 3, Blind <- BlindBase,
         TtlFires <- TRUE, Autocommit <- TRUE, IoFails <- TRUE, Dead <- {FALSE}

xponly == <<begun, faults, xid, remote, call, next_msg, mailbox, inbox, waiters,
            answer, tasks, applied, flushvars, acked, loose>>
txonly == <<tx, seen, locked, queue, wal, lost, awaits>>
mcvars == <<vars, txonly, mode>>

MCHome == <<1, 1>>
MCWorkerOf == <<1, 1, 2>>
MCPartitionOf == <<1, 2, 3>>
MCMaxTx == <<1, 1>>
MCMaxCalls == <<2, 0>>

MCInit ==
    \/ /\ \/ mode = "xp" /\ Init
          \/ mode = "fault" /\ F!Init
       /\ tx = 0 /\ seen = 0 /\ locked = 0 /\ queue = 0 /\ wal = 0 /\ lost = 0 /\ awaits = 0
    \/ /\ mode = "tx" /\ T!Init
       /\ begun = 0 /\ faults = 0 /\ xid = 0 /\ remote = 0 /\ call = 0
       /\ next_msg = 0 /\ mailbox = 0 /\ inbox = 0 /\ waiters = 0 /\ answer = 0
       /\ tasks = 0 /\ applied = 0 /\ acked = 0 /\ loose = 0 /\ stopped = 0 /\ behind = 0

Xp(A, B) == ((mode = "xp" /\ A) \/ (mode = "fault" /\ B)) /\ UNCHANGED <<mode, txonly>>
Tx(A) == mode = "tx" /\ A /\ UNCHANGED <<mode, xponly>>

MCNext == Xp(Next, F!Next) \/ Tx(T!Next)

(* The fairness of the two modules.                                        *)
MCSpec ==
    /\ MCInit /\ [][MCNext]_mcvars
    /\ \A s \in Session :
           /\ WF_mcvars(Xp(Progress(s), F!Progress(s)) \/ Tx(T!RequestStep(s)))
           /\ WF_mcvars(Xp(FALSE, Unanswered(s) /\ F!RpcTimeout(s)))
    /\ \A w \in Worker : WF_mcvars(Xp(Deliver(w), F!Deliver(w)))
    /\ WF_mcvars(Xp(\E t \in tasks : Handle(t), \E t \in tasks : F!Handle(t)))
    /\ WF_mcvars(Tx(T!FlushQueue))

(* Every request returns, but for a commit that waits for the durability   *)
(* watermark to pass a flush round that failed (kv.rs:287-301).            *)
EveryRequestReturns ==
    \A s \in Session : pc[s] # "idle" ~>
        (pc[s] = "idle" \/ (mode = "tx" /\ T!Parked(s)) \/ (mode # "tx" /\ Parked(s)))
==============================================================================
