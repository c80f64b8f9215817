-------------------------- MODULE MCCrossPartition ---------------------------
(* Two workers and partitions of one row each.                             *)
EXTENDS CrossPartition

(* One session on each worker; partitions 2 and 3 on the second worker.    *)
MCHome == <<1, 2>>
MCWorkerOf == <<1, 2, 2>>
MCMaxTx == <<1, 1>>
MCMaxCalls == <<1, 1>>

(* One row on each worker.                                                 *)
MCPartitionOfTwo == <<1, 2>>
==============================================================================
