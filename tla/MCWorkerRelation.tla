-------------------------- MODULE MCWorkerRelation --------------------------
(***************************************************************************)
(* Instances of WorkerRelation for TLC.                                    *)
(***************************************************************************)
EXTENDS WorkerRelation

Op(k, op) == [key |-> k, op |-> op]

\* three commits: 1 creates rows, 2 and 3 overlap on them; 3 may also come from another
\* worker and race with the others for a new key
MCBatch ==
    [x \in 1..3 |->
        CASE x = 1 -> {<<Op(2, "put"), Op(1, "put")>>}
          [] x = 2 -> {<<Op(1, "put")>>, <<Op(2, "delta"), Op(1, "delta")>>}
          [] OTHER -> {<<Op(1, "delta"), Op(2, "delta")>>, <<Op(2, "put"), Op(1, "delta")>>,
                       <<Op(1, "delete")>>}]
MCForeign == <<{}, {}, {<<Op(2, "put")>>}>>
MCStripeOf == <<2, 1>>
MCAmount == <<1, 1, -1>>
=============================================================================
