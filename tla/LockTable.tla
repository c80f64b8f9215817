------------------------------ MODULE LockTable ------------------------------
(***************************************************************************)
(* What the lock manager promises its callers, without queues, latches or  *)
(* calls in progress: keys have at most one owner, a set of keys changes   *)
(* hands in one step, and a key leaves its owner only because the owner    *)
(* releases it or because the owner outlived STATEMENT_LOCK_TTL.           *)
(* XLockMgr implements this table; WorkerTx is built on it.                *)
(***************************************************************************)
CONSTANTS Oid, Key, NoOwner

VARIABLES
    owner,   \* owner[k]: the holder of k, or NoOwner
    stale    \* keys held for longer than STATEMENT_LOCK_TTL

Init ==
    /\ owner = [k \in Key |-> NoOwner]
    /\ stale = {}

(* k can be given to o: it is free, o's already, or its holder expired.    *)
Available(o, k) == owner[k] \in {NoOwner, o} \/ k \in stale

(* All of ks or nothing; a key o holds already keeps its time.             *)
Acquire(o, ks) ==
    /\ \A k \in ks : Available(o, k)
    /\ owner' = [k \in Key |-> IF k \in ks THEN o ELSE owner[k]]
    /\ stale' = stale \ {k \in ks : owner[k] # o}

(* An acquisition that fails has still cleared the expired owners it met.  *)
Reclaim(ks) ==
    /\ ks \subseteq stale
    /\ owner' = [k \in Key |-> IF k \in ks THEN NoOwner ELSE owner[k]]
    /\ stale' = stale \ ks

Release(o, ks) ==
    LET mine == {k \in ks : owner[k] = o}
    IN  /\ owner' = [k \in Key |-> IF k \in mine THEN NoOwner ELSE owner[k]]
        /\ stale' = stale \ mine

Expire(k) ==
    /\ owner[k] # NoOwner
    /\ stale' = stale \union {k}
    /\ UNCHANGED owner

Next ==
    \/ \E o \in Oid, ks \in SUBSET Key : Acquire(o, ks) \/ Release(o, ks)
    \/ \E ks \in SUBSET Key : Reclaim(ks)
    \/ \E k \in Key : Expire(k)

Spec == Init /\ [][Next]_<<owner, stale>>
==============================================================================
