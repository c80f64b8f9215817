--------------------------- MODULE XLockMgrProofs ---------------------------
(***************************************************************************)
(* Proofs about XLockMgr for every set of transactions, keys and requests. *)
(* TypeOK, QueuesSound and NoLostWakeup together are inductive:            *)
(* NoLostWakeup of a waiter whose queue is shortened needs that a waiter   *)
(* occurs once in a queue and never owns the key, which is QueuesSound.    *)
(***************************************************************************)
EXTENDS XLockMgr, SequenceTheorems, TLAPS

NoDup(q) == \A i, j \in DOMAIN q : q[i] = q[j] => i = j

(* retain on a duplicate-free queue (x_lock_mgr.rs:283, :331) drops exactly *)
(* the waiter, keeps the others once each and keeps a head that stays.      *)
LEMMA WithoutProps ==
    ASSUME NEW S, NEW q \in Seq(S), NEW t, NoDup(q)
    PROVE  /\ Without(q, t) \in Seq(S)
           /\ KeysOf(Without(q, t)) = KeysOf(q) \ {t}
           /\ NoDup(Without(q, t))
           /\ (q # <<>> /\ Head(q) # t)
              => (Without(q, t) # <<>> /\ Head(Without(q, t)) = Head(q))
<1>1. CASE ~ \E i \in DOMAIN q : q[i] = t
  BY <1>1 DEF Without, KeysOf, NoDup
<1>2. CASE \E i \in DOMAIN q : q[i] = t
  <2> DEFINE i == CHOOSE i \in DOMAIN q : q[i] = t
             w == [j \in 1..(Len(q) - 1) |-> IF j < i THEN q[j] ELSE q[j + 1]]
  <2>1. i \in DOMAIN q /\ q[i] = t
    BY <1>2
  <2>2. Without(q, t) = w
    BY <1>2 DEF Without
  <2> HIDE DEF i
  <2>3. DOMAIN q = 1..Len(q) /\ Len(q) \in Nat /\ \A j \in 1..Len(q) : q[j] \in S
    OBVIOUS
  <2>4. i \in 1..Len(q) /\ Len(q) >= 1
    BY <2>1, <2>3
  <2>5. w \in Seq(S) /\ Len(w) = Len(q) - 1 /\ DOMAIN w = 1..(Len(q) - 1)
    <3>1. \A j \in 1..(Len(q) - 1) : (IF j < i THEN q[j] ELSE q[j + 1]) \in S
      BY <2>3, <2>4
    <3>2. Len(q) - 1 \in Nat
      BY <2>3, <2>4
    <3>3. w \in [1..(Len(q) - 1) -> S]
      BY <3>1
    <3> QED
      BY <3>2, <3>3
  <2>6. \A j \in DOMAIN w : w[j] = (IF j < i THEN q[j] ELSE q[j + 1])
    BY <2>5
  <2> HIDE DEF w
  <2>7. \A j \in DOMAIN w : w[j] # t /\ w[j] \in KeysOf(q)
    <3> TAKE j \in DOMAIN w
    <3> DEFINE m == IF j < i THEN j ELSE j + 1
    <3>1. m \in DOMAIN q /\ m # i /\ w[j] = q[m]
      <4>1. CASE j < i
        BY <4>1, <2>3, <2>4, <2>5, <2>6
      <4>2. CASE ~(j < i)
        BY <4>2, <2>3, <2>4, <2>5, <2>6
      <4> QED BY <4>1, <4>2
    <3> HIDE DEF m
    <3>2. q[m] # t
      BY <3>1, <2>1 DEF NoDup
    <3> QED BY <3>1, <3>2 DEF KeysOf
  <2>8. \A x \in KeysOf(q) \ {t} : x \in KeysOf(w)
    <3> TAKE x \in KeysOf(q) \ {t}
    <3>1. PICK m \in DOMAIN q : q[m] = x
      BY DEF KeysOf
    <3>2. CASE m < i
      <4>1. m \in DOMAIN w /\ w[m] = x
        BY <3>1, <3>2, <2>3, <2>4, <2>5, <2>6
      <4> QED BY <4>1 DEF KeysOf
    <3>3. CASE m > i
      <4>1. m - 1 \in DOMAIN w /\ w[m - 1] = x
        BY <3>1, <3>3, <2>3, <2>4, <2>5, <2>6
      <4> QED BY <4>1 DEF KeysOf
    <3>4. m # i
      BY <3>1, <2>1
    <3> QED BY <3>2, <3>3, <3>4, <2>3, <2>4
  <2>9. KeysOf(w) = KeysOf(q) \ {t}
    BY <2>7, <2>8 DEF KeysOf
  <2>10. NoDup(w)
    <3> SUFFICES ASSUME NEW a \in DOMAIN w, NEW b \in DOMAIN w, w[a] = w[b]
                 PROVE  a = b
      BY DEF NoDup
    <3> DEFINE pos(j) == IF j < i THEN j ELSE j + 1
    <3>1. pos(a) \in DOMAIN q /\ pos(b) \in DOMAIN q
      BY <2>3, <2>4, <2>5
    <3>2. w[a] = q[pos(a)] /\ w[b] = q[pos(b)]
      BY <2>6
    <3>3. pos(a) = pos(b)
      BY <3>1, <3>2 DEF NoDup
    <3> QED BY <3>3, <2>4, <2>5
  <2>11. (q # <<>> /\ Head(q) # t) => (w # <<>> /\ Head(w) = Head(q))
    <3> SUFFICES ASSUME q # <<>>, Head(q) # t
                 PROVE  w # <<>> /\ Head(w) = Head(q)
      OBVIOUS
    <3>1. Head(q) = q[1]
      OBVIOUS
    <3>2. i > 1
      BY <3>1, <2>1, <2>4
    <3>3. 1 \in DOMAIN w /\ w[1] = q[1]
      BY <3>2, <2>3, <2>4, <2>5, <2>6
    <3>4. w # <<>>
      BY <3>3
    <3> QED BY <3>1, <3>3, <3>4, <2>5
  <2> QED BY <2>2, <2>5, <2>9, <2>10, <2>11
<1> QED BY <1>1, <1>2

(* push_back in enqueue_locked (x_lock_mgr.rs:309) adds one waiter and     *)
(* leaves the head of a non-empty queue alone.                             *)
LEMMA AppendKeys ==
    ASSUME NEW S, NEW q \in Seq(S), NEW t \in S
    PROVE  /\ KeysOf(Append(q, t)) = KeysOf(q) \union {t}
           /\ q # <<>> => Head(Append(q, t)) = Head(q)
<1> DEFINE a == Append(q, t)
<1>1. /\ a \in Seq(S) /\ Len(a) = Len(q) + 1 /\ Len(q) \in Nat
      /\ \A i \in 1..Len(q) : a[i] = q[i]
      /\ a[Len(q) + 1] = t
  BY AppendProperties
<1>2. DOMAIN a = 1..(Len(q) + 1) /\ DOMAIN q = 1..Len(q)
  BY <1>1
<1> HIDE DEF a
<1>3. ASSUME NEW x \in KeysOf(a) PROVE x \in KeysOf(q) \union {t}
  <2>1. PICK i \in DOMAIN a : a[i] = x
    BY DEF KeysOf
  <2>2. i = Len(q) + 1 \/ i \in 1..Len(q)
    BY <2>1, <1>1, <1>2
  <2> QED BY <2>1, <2>2, <1>1, <1>2 DEF KeysOf
<1>4. ASSUME NEW x \in KeysOf(q) \union {t} PROVE x \in KeysOf(a)
  <2>1. CASE x = t
    <3>1. Len(q) + 1 \in DOMAIN a
      BY <1>1, <1>2
    <3> QED BY <3>1, <2>1, <1>1 DEF KeysOf
  <2>2. CASE x # t
    <3>1. PICK i \in DOMAIN q : q[i] = x
      BY <2>2 DEF KeysOf
    <3>2. i \in DOMAIN a /\ a[i] = x
      BY <3>1, <1>1, <1>2
    <3> QED BY <3>2 DEF KeysOf
  <2> QED BY <2>1, <2>2
<1>5. q # <<>> => Head(a) = Head(q)
  BY <1>1
<1> QED BY <1>3, <1>4, <1>5 DEF a

-----------------------------------------------------------------------------
IInv == TypeOK /\ QueuesSound /\ NoLostWakeup

(* What the tables look like after Take and Return leave the types intact. *)
LEMMA TypeStep == LockAssumption /\ TypeOK /\ QueuesSound /\ [Next]_vars => TypeOK'
<1> SUFFICES ASSUME LockAssumption, TypeOK, QueuesSound, [Next]_vars
             PROVE  TypeOK'
  OBVIOUS
<1> USE DEF TypeOK, PC
<1>0. \A k \in Key : queue[k] \in Seq(Oid) /\ NoDup(queue[k])
  BY DEF QueuesSound, NoDup
<1>w. \A k \in Key, t \in Oid : Without(queue[k], t) \in Seq(Oid)
  BY <1>0, WithoutProps
<1>h. \A ks : ks \subseteq Key => Heads(ks) \subseteq Oid
  BY HeadTailProperties DEF Heads
<1>r. \A t, ks, w : Reclaimed(t, ks, w) \subseteq Key
  BY DEF Reclaimed
<1>k. \A ks \in Seq(Key) : KeysOf(ks) \subseteq Key
  BY DEF KeysOf
<1>1. ASSUME NEW t \in Oid, NEW ks \in Seq(Key), NEW w \in BOOLEAN, Take(t, ks, w)
      PROVE  /\ owner' \in [Key -> Oid \union {NoOwner}]
             /\ stale' \subseteq Key
             /\ queue' \in [Key -> Seq(Oid)]
             /\ held' \in [Oid -> SUBSET Key]
  BY <1>1, <1>w, <1>k DEF Take
<1>2. ASSUME NEW t \in Oid, NEW ws, ws \subseteq Oid, Return(t, ws)
      PROVE  /\ pc' \in [Oid -> PC]
             /\ req' \in [Oid -> Seq(Key)]
             /\ signal' \subseteq Oid
             /\ late' \subseteq Oid
             /\ wakes' \in [Oid -> SUBSET Oid]
  <2>1. \A u \in Oid : wakes[u] \subseteq Oid
    OBVIOUS
  <2>2. \A u \in Oid : ((IF u = t THEN ws ELSE wakes[u]) \ {t}) \in SUBSET Oid
    BY <1>2, <2>1
  <2>3. wakes' \in [Oid -> SUBSET Oid]
    BY <1>2, <2>2 DEF Return
  <2> QED BY <1>2, <2>3 DEF Return
<1>3. ASSUME NEW t \in Oid, NEW ks \in Seq(Key), NEW w \in BOOLEAN, Reclaim(t, ks, w)
      PROVE  /\ owner' \in [Key -> Oid \union {NoOwner}]
             /\ stale' \subseteq Key
  BY <1>3 DEF Reclaim
<1>4. ASSUME NEW t \in Oid, NEW ws, ws \subseteq Oid, Collect(t, ws)
      PROVE  wakes' \in [Oid -> SUBSET Oid]
  BY <1>4 DEF Collect
<1>5. ASSUME NEW t \in Oid, NEW ks \in Requests, LockSomeFast(t, ks)
      PROVE  TypeOK'
  <2>1. ks \in Seq(Key) /\ Heads(Reclaimed(t, ks, FALSE)) \subseteq Oid
    BY <1>h, <1>r DEF LockAssumption
  <2>2. Take(t, ks, FALSE) /\ Return(t, Heads(Reclaimed(t, ks, FALSE)))
    BY <1>5 DEF LockSomeFast
  <2> QED BY <2>1, <2>2, <1>1, <1>2
<1>6. ASSUME NEW t \in Oid, NEW ks \in Requests, LockSomeSlow(t, ks)
      PROVE  TypeOK'
  <2>1. ks \in Seq(Key) /\ Heads(Reclaimed(t, ks, FALSE)) \subseteq Oid
    BY <1>h, <1>r DEF LockAssumption
  <2>2. Reclaim(t, ks, FALSE) /\ Collect(t, Heads(Reclaimed(t, ks, FALSE)))
    BY <1>6 DEF LockSomeSlow
  <2>3. pc' \in [Oid -> PC] /\ req' \in [Oid -> Seq(Key)]
    BY <1>6, <2>1 DEF LockSomeSlow
  <2> QED BY <2>1, <2>2, <2>3, <1>3, <1>4, <1>6 DEF LockSomeSlow
<1>7. ASSUME NEW t \in Oid, NEW ks \in SUBSET Key, ReleaseKeys(t, ks)
      PROVE  TypeOK'
  <2>1. Heads({k \in ks : owner[k] = t}) \subseteq Oid
    BY <1>h
  <2>2. wakes' \in [Oid -> SUBSET Oid]
    BY <2>1, <1>4, <1>7 DEF ReleaseKeys
  <2>3. held' \in [Oid -> SUBSET Key]
    BY <1>7 DEF ReleaseKeys
  <2> QED BY <2>2, <2>3, <1>7 DEF ReleaseKeys
<1>8. ASSUME NEW t \in Oid, AttemptGranted(t)
      PROVE  TypeOK'
  <2>1. req[t] \in Seq(Key) /\ Heads(Reclaimed(t, req[t], TRUE)) \subseteq Oid
    BY <1>h, <1>r
  <2>2. Take(t, req[t], TRUE) /\ Return(t, Heads(Reclaimed(t, req[t], TRUE)))
    BY <1>8 DEF AttemptGranted
  <2> QED BY <2>1, <2>2, <1>1, <1>2
<1>9. ASSUME NEW t \in Oid, AttemptFails(t)
      PROVE  TypeOK'
  <2>1. req[t] \in Seq(Key) /\ Heads(Reclaimed(t, req[t], TRUE)) \subseteq Oid
    BY <1>h, <1>r
  <2>2. Reclaim(t, req[t], TRUE) /\ Collect(t, Heads(Reclaimed(t, req[t], TRUE)))
    BY <1>9 DEF AttemptFails
  <2>3. queue' \in [Key -> Seq(Oid)]
    BY <1>9 DEF AttemptFails, Enqueue
  <2>4. pc' \in [Oid -> PC] /\ signal' \subseteq Oid
    BY <1>9 DEF AttemptFails
  <2> QED BY <2>1, <2>2, <2>3, <2>4, <1>3, <1>4, <1>9 DEF AttemptFails
<1>10. ASSUME NEW t \in Oid, LeaveOnTimeout(t)
       PROVE  TypeOK'
  <2> DEFINE q == [k \in Key |-> IF k \in KeysOf(req[t]) THEN Without(queue[k], t)
                                 ELSE queue[k]]
             led == {k \in KeysOf(req[t]) : /\ owner[k] = NoOwner
                              /\ queue[k] # <<>> /\ Head(queue[k]) = t}
             ws == {Head(q[k]) : k \in {x \in led : q[x] # <<>>}}
  <2>1. q \in [Key -> Seq(Oid)]
    BY <1>w
  <2>2. led \subseteq Key
    BY <1>k
  <2>3. ws \subseteq Oid
    <3> HIDE DEF q, led
    <3>1. \A k \in Key : q[k] # <<>> => Head(q[k]) \in Oid
      BY <2>1, HeadTailProperties
    <3> QED BY <2>2, <3>1
  <2>4. queue' = q /\ Return(t, ws) /\ UNCHANGED <<owner, stale, held>>
    BY <1>10 DEF LeaveOnTimeout
  <2> HIDE DEF q, ws
  <2> QED BY <2>1, <2>3, <2>4, <1>2
<1>11. ASSUME NEW t \in Oid, Park(t) \/ Wake(t)
       PROVE  TypeOK'
  BY <1>11 DEF Park, Wake
<1>12. ASSUME NEW t \in Oid, SendWake(t)
       PROVE  TypeOK'
  <2>1. PICK u \in wakes[t] : /\ wakes' = [wakes EXCEPT ![t] = @ \ {u}]
                              /\ signal' = signal \union {u}
                              /\ UNCHANGED <<owner, stale, queue, pc, req, late, held>>
    BY <1>12 DEF SendWake
  <2>2. wakes' \in [Oid -> SUBSET Oid] /\ u \in Oid
    BY <2>1
  <2> QED BY <2>1, <2>2
<1>13. ASSUME NEW k \in Key, LockExpires(k)
       PROVE  TypeOK'
  BY <1>13 DEF LockExpires
<1>14. ASSUME NEW t \in Oid, DeadlinePasses(t)
       PROVE  TypeOK'
  BY <1>14 DEF DeadlinePasses
<1>15. ASSUME NEW t \in Oid, NEW ks \in Requests, Release(t, ks)
       PROVE  TypeOK'
  BY <1>15, <1>7, <1>k DEF Release, LockAssumption
<1>16. ASSUME NEW t \in Oid, ReleaseAll(t)
       PROVE  TypeOK'
  BY <1>16, <1>7 DEF ReleaseAll
<1>17. CASE UNCHANGED vars
  BY <1>17 DEF vars
<1> QED
  BY <1>5, <1>6, <1>8, <1>9, <1>10, <1>11, <1>12, <1>13, <1>14, <1>15, <1>16, <1>17
  DEF Next

(* A waiter that waits for a reason still has one, or a wakeup is on its   *)
(* way, and no queue entry outlives its call.                              *)
LEMMA InvStep == LockAssumption /\ IInv /\ [Next]_vars => (QueuesSound /\ NoLostWakeup)'
<1> SUFFICES ASSUME LockAssumption, IInv, [Next]_vars
             PROVE  QueuesSound' /\ NoLostWakeup'
  OBVIOUS
<1> USE DEF IInv
<1>0. \A k \in Key : queue[k] \in Seq(Oid) /\ NoDup(queue[k])
  BY DEF QueuesSound, NoDup, TypeOK
<1>w. \A k \in Key, t \in Oid :
         LET w == Without(queue[k], t) IN
         /\ w \in Seq(Oid)
         /\ KeysOf(w) = KeysOf(queue[k]) \ {t}
         /\ NoDup(w)
         /\ (queue[k] # <<>> /\ Head(queue[k]) # t)
            => (w # <<>> /\ Head(w) = Head(queue[k]))
  BY <1>0, WithoutProps
<1>k. \A ks \in Seq(Key) : KeysOf(ks) \subseteq Key
  BY DEF KeysOf
<1>n. \A k \in Key : KeysOf(queue[k]) # {} => queue[k] # <<>>
  BY DEF KeysOf
<1>h. \A K, k : k \in K /\ queue[k] # <<>> => Head(queue[k]) \in Heads(K)
  BY DEF Heads
<1> DEFINE Waits(t) == pc[t] \in {"check", "parked"} /\ t \notin signal
                         /\ \A u \in Oid : t \notin wakes[u]
           Reason(t, k) == k \in KeysOf(req[t]) /\ Queued(k, t)
                             /\ (owner[k] # NoOwner \/ Head(queue[k]) # t)
<1>i. \A t \in Oid : Waits(t) => \E k \in Key : Reason(t, k)
  BY <1>k DEF NoLostWakeup, TypeOK
<1> DEFINE A == \A k \in Key : NoDup(queue[k])
           B == \A k \in Key : \A u \in KeysOf(queue[k]) :
                   pc[u] # "idle" /\ k \in KeysOf(req[u]) /\ owner[k] # u
           C == \A u \in Oid : Waits(u) => \E k \in Key : Reason(u, k)
<1>j. SUFFICES A' /\ B' /\ C'
  BY DEF QueuesSound, NoLostWakeup, NoDup, Queued
<1>q. \A k \in Key : KeysOf(queue[k]) \subseteq Oid
  BY <1>0 DEF KeysOf
<1>b. B
  BY DEF QueuesSound
<1>o. NoOwner \notin Oid
  BY DEF LockAssumption
<1>5. ASSUME NEW t \in Oid, NEW ks \in Requests, LockSomeFast(t, ks)
      PROVE  A' /\ B' /\ C'
  <2> USE DEF TypeOK
  <2>1. /\ queue' = queue
        /\ pc' = pc
        /\ req' = [req EXCEPT ![t] = <<>>]
        /\ signal' = signal \ {t}
        /\ \A u \in Oid \ {t} : \A v \in Oid : u \in wakes[v] => u \in wakes'[v]
    BY <1>5 DEF LockSomeFast, Take, Return, MayCall
  <2>2. \A k \in Key : owner'[k] = owner[k] \/ (owner'[k] = t /\ queue[k] = <<>>)
    BY <1>5 DEF LockSomeFast, Take, Acquirable, Blocked
  <2>3. pc[t] = "idle"
    BY <1>5 DEF LockSomeFast, MayCall
  <2>4. \A k \in Key : queue[k] = <<>> => KeysOf(queue[k]) = {}
    BY DEF KeysOf
  <2>a. A'
    BY <2>1, <1>0
  <2>b. B'
    BY <2>1, <2>2, <2>3, <2>4, <1>b, <1>q
  <2>5. \A u \in Oid : Waits(u)' => u # t /\ Waits(u)
    BY <2>1, <2>3
  <2>6. \A u \in Oid, k \in Key : u # t /\ Reason(u, k) => Reason(u, k)'
    BY <2>1, <2>2, <2>4 DEF Queued
  <2>c. C'
    BY <2>5, <2>6, <1>i
  <2> QED BY <2>a, <2>b, <2>c
<1>6. ASSUME NEW t \in Oid, NEW ks \in Requests, LockSomeSlow(t, ks)
      PROVE  A' /\ B' /\ C'
  <2> USE DEF TypeOK
  <2> DEFINE R == Reclaimed(t, ks, FALSE)
  <2>1. /\ queue' = queue /\ signal' = signal
        /\ pc[t] = "idle" /\ wakes[t] = {}
        /\ pc' = [pc EXCEPT ![t] = "attempt"]
        /\ req' = [req EXCEPT ![t] = ks]
        /\ wakes' = [wakes EXCEPT ![t] = Heads(R)]
        /\ owner' = [k \in Key |-> IF k \in R THEN NoOwner ELSE owner[k]]
    BY <1>6 DEF LockSomeSlow, MayCall, Reclaim, Collect
  <2> HIDE DEF R
  <2>a. A'
    BY <2>1, <1>0
  <2>b. B'
    BY <2>1, <1>b, <1>q, <1>o
  <2>5. \A u \in Oid : Waits(u)' => u # t /\ Waits(u) /\ u \notin Heads(R)
    BY <2>1
  <2>6. \A u \in Oid, k \in Key :
           u # t /\ Reason(u, k) /\ u \notin Heads(R) => Reason(u, k)'
    BY <2>1, <1>h, <1>n DEF Queued
  <2>c. C'
    BY <2>5, <2>6, <1>i
  <2> QED BY <2>a, <2>b, <2>c
<1>7. ASSUME NEW t \in Oid, NEW ks, ReleaseKeys(t, ks)
      PROVE  A' /\ B' /\ C'
  <2> USE DEF TypeOK
  <2> DEFINE R == {k \in ks : owner[k] = t}
  <2>1. /\ queue' = queue /\ signal' = signal /\ pc' = pc /\ req' = req
        /\ wakes[t] = {}
        /\ wakes' = [wakes EXCEPT ![t] = Heads(R)]
        /\ owner' = [k \in Key |-> IF k \in R THEN NoOwner ELSE owner[k]]
    BY <1>7 DEF ReleaseKeys, Collect
  <2> HIDE DEF R
  <2>a. A'
    BY <2>1, <1>0
  <2>b. B'
    BY <2>1, <1>b, <1>q, <1>o
  <2>5. \A u \in Oid : Waits(u)' => Waits(u) /\ u \notin Heads(R)
    BY <2>1
  <2>6. \A u \in Oid, k \in Key :
           Reason(u, k) /\ u \notin Heads(R) => Reason(u, k)'
    BY <2>1, <1>h, <1>n DEF Queued
  <2>c. C'
    BY <2>5, <2>6, <1>i
  <2> QED BY <2>a, <2>b, <2>c
<1>8. ASSUME NEW t \in Oid, AttemptGranted(t)
      PROVE  A' /\ B' /\ C'
  <2> USE DEF TypeOK
  <2> DEFINE K == KeysOf(req[t])
  <2>1. /\ owner' = [k \in Key |-> IF k \in K THEN t ELSE owner[k]]
        /\ queue' = [k \in Key |-> IF k \in K THEN Without(queue[k], t) ELSE queue[k]]
        /\ pc' = [pc EXCEPT ![t] = "idle"]
        /\ req' = [req EXCEPT ![t] = <<>>]
        /\ signal' = signal \ {t}
        /\ \A u \in Oid \ {t} : \A v \in Oid \ {t} : u \in wakes[v] => u \in wakes'[v]
        /\ wakes[t] = {}
    BY <1>8 DEF AttemptGranted, Take, Return
  <2> HIDE DEF K
  <2>2. \A k \in Key : KeysOf(queue'[k]) = KeysOf(queue[k]) \ {t}
    <3>1. \A k \in Key : k \notin K => t \notin KeysOf(queue[k])
      BY <1>b DEF K
    <3>2. \A k \in Key : KeysOf(Without(queue[k], t)) = KeysOf(queue[k]) \ {t}
      BY <1>w
    <3> QED BY <2>1, <3>1, <3>2
  <2>a. A'
    BY <2>1, <1>0, <1>w
  <2>b. B'
    <3>1. ASSUME NEW k \in Key, NEW u \in KeysOf(queue'[k])
          PROVE  pc'[u] # "idle" /\ k \in KeysOf(req'[u]) /\ owner'[k] # u
      <4>1. u \in KeysOf(queue[k]) /\ u # t /\ u \in Oid
        BY <3>1, <2>2, <1>q
      <4>2. pc'[u] = pc[u] /\ req'[u] = req[u] /\ (owner'[k] = owner[k] \/ owner'[k] = t)
        BY <4>1, <2>1
      <4> QED BY <4>1, <4>2, <1>b
    <3> QED BY <3>1
  <2>5. \A u \in Oid : Waits(u)' => u # t /\ Waits(u)
    BY <2>1
  <2>6. \A u \in Oid, k \in Key : u # t /\ Reason(u, k) => Reason(u, k)'
    BY <2>1, <2>2, <1>o DEF Queued
  <2>c. C'
    BY <2>5, <2>6, <1>i
  <2> QED BY <2>a, <2>b, <2>c
<1>9. ASSUME NEW t \in Oid, AttemptFails(t)
      PROVE  A' /\ B' /\ C'
  <2> USE DEF TypeOK
  <2> DEFINE R == Reclaimed(t, req[t], TRUE)
             K == KeysOf(req[t])
             J(k) == k \in K /\ owner'[k] # t /\ ~Queued(k, t)
  <2>1. /\ signal' = signal \ {t} /\ req' = req
        /\ pc[t] = "attempt" /\ wakes[t] = {}
        /\ pc' = [pc EXCEPT ![t] = "check"]
        /\ wakes' = [wakes EXCEPT ![t] = Heads(R)]
        /\ owner' = [k \in Key |-> IF k \in R THEN NoOwner ELSE owner[k]]
        /\ queue' = [k \in Key |-> IF J(k) THEN Append(queue[k], t) ELSE queue[k]]
    BY <1>9 DEF AttemptFails, Reclaim, Collect, Enqueue
  <2>2. PICK kb \in K : Blocked(t, kb, TRUE)
    BY <1>9 DEF AttemptFails, Acquirable
  <2>3. kb \in Key
    BY <1>k
  <2>4. \A k \in R : Foreign(t, k) /\ k \in stale
    BY DEF Reclaimed
  <2> HIDE DEF R, K
  <2>5. \A k \in Key : /\ KeysOf(Append(queue[k], t)) = KeysOf(queue[k]) \union {t}
                       /\ queue[k] # <<>> => Head(Append(queue[k], t)) = Head(queue[k])
    BY <1>0, AppendKeys
  <2>6. \A k \in Key : ~Queued(k, t) => NoDup(Append(queue[k], t))
    BY <1>0 DEF NoDup, Queued, KeysOf
  <2>7. \A k \in Key : /\ J(k) => KeysOf(queue'[k]) = KeysOf(queue[k]) \union {t}
                       /\ ~J(k) => queue'[k] = queue[k]
                       /\ queue[k] # <<>> => Head(queue'[k]) = Head(queue[k])
    <3> HIDE DEF J
    <3> QED BY <2>1, <2>5
  <2>a. A'
    BY <2>1, <2>6, <1>0
  <2>8. owner'[kb] # t
    BY <2>1, <2>2, <2>3, <1>o DEF Blocked, Foreign
  <2>b. B'
    <3>1. ASSUME NEW k \in Key, NEW u \in KeysOf(queue'[k])
          PROVE  pc'[u] # "idle" /\ k \in KeysOf(req'[u]) /\ owner'[k] # u
      <4>1. CASE u \in KeysOf(queue[k])
        BY <4>1, <2>1, <1>b, <1>q, <1>o
      <4>2. CASE u \notin KeysOf(queue[k])
        <5>1. J(k) /\ u = t
          BY <4>2, <3>1, <2>7
        <5> QED BY <5>1, <2>1 DEF K
      <4> QED BY <4>1, <4>2
    <3> QED BY <3>1
  <2>9. \A u \in Oid : Waits(u)' => (u # t => Waits(u)) /\ u \notin Heads(R)
    BY <2>1
  <2>10. \A u \in Oid, k \in Key :
            u # t /\ Reason(u, k) /\ u \notin Heads(R) => Reason(u, k)'
    BY <2>1, <2>7, <1>h, <1>n DEF Queued
  <2>11. t \in KeysOf(queue'[kb])
    BY <2>2, <2>3, <2>7, <2>8 DEF Queued
  <2>12. Reason(t, kb)'
    <3>1. kb \in KeysOf(req'[t])
      BY <2>1 DEF K
    <3>2. owner'[kb] # NoOwner \/ Head(queue'[kb]) # t
      <4>1. CASE Foreign(t, kb) /\ kb \notin stale
        BY <4>1, <2>1, <2>3, <2>4 DEF Foreign
      <4>2. CASE queue[kb] # <<>> /\ Head(queue[kb]) # t
        BY <4>2, <2>3, <2>7
      <4> QED BY <4>1, <4>2, <2>2 DEF Blocked
    <3> QED BY <3>1, <3>2, <2>11 DEF Queued
  <2>c. C'
    <3> SUFFICES ASSUME NEW u \in Oid, Waits(u)' PROVE \E k \in Key : Reason(u, k)'
      OBVIOUS
    <3>1. CASE u = t
      BY <2>3, <2>12, <3>1
    <3>2. CASE u # t
      <4>1. Waits(u) /\ u \notin Heads(R)
        BY <2>9, <3>2
      <4>2. PICK k \in Key : Reason(u, k)
        BY <1>i, <4>1
      <4> QED BY <2>10, <3>2, <4>1, <4>2
    <3> QED BY <3>1, <3>2
  <2> QED BY <2>a, <2>b, <2>c
<1>10. ASSUME NEW t \in Oid, LeaveOnTimeout(t)
       PROVE  A' /\ B' /\ C'
  <2> USE DEF TypeOK
  <2> DEFINE K == KeysOf(req[t])
             led == {k \in K : /\ owner[k] = NoOwner
                               /\ queue[k] # <<>> /\ Head(queue[k]) = t}
  <2>1. /\ owner' = owner
        /\ queue' = [k \in Key |-> IF k \in K THEN Without(queue[k], t) ELSE queue[k]]
        /\ pc' = [pc EXCEPT ![t] = "idle"]
        /\ req' = [req EXCEPT ![t] = <<>>]
        /\ signal' = signal \ {t}
        /\ wakes[t] = {}
        /\ wakes' = [u \in Oid |-> (IF u = t
                        THEN {Head(queue'[k]) : k \in {x \in led : queue'[x] # <<>>}}
                        ELSE wakes[u]) \ {t}]
    BY <1>10 DEF LeaveOnTimeout, Return
  <2> HIDE DEF K
  <2>2. \A k \in Key : KeysOf(queue'[k]) = KeysOf(queue[k]) \ {t}
    <3>1. \A k \in Key : k \notin K => t \notin KeysOf(queue[k])
      BY <1>b DEF K
    <3>2. \A k \in Key : KeysOf(Without(queue[k], t)) = KeysOf(queue[k]) \ {t}
      BY <1>w
    <3> QED BY <2>1, <3>1, <3>2
  <2>a. A'
    BY <2>1, <1>0, <1>w
  <2>b. B'
    <3>1. ASSUME NEW k \in Key, NEW u \in KeysOf(queue'[k])
          PROVE  pc'[u] # "idle" /\ k \in KeysOf(req'[u]) /\ owner'[k] # u
      <4>1. u \in KeysOf(queue[k]) /\ u # t /\ u \in Oid
        BY <3>1, <2>2, <1>q
      <4>2. pc'[u] = pc[u] /\ req'[u] = req[u] /\ (owner'[k] = owner[k] \/ owner'[k] = t)
        BY <4>1, <2>1
      <4> QED BY <4>1, <4>2, <1>b
    <3> QED BY <3>1
  <2>5. \A u \in Oid : Waits(u)' => u # t /\ Waits(u) /\ u \notin wakes'[t]
    BY <2>1
  <2>6. ASSUME NEW u \in Oid, NEW k \in Key, u # t, Reason(u, k), u \notin wakes'[t]
        PROVE  Reason(u, k)'
    <3>0. u \in KeysOf(queue[k]) /\ u \in KeysOf(queue'[k]) /\ req'[u] = req[u]
      BY <2>1, <2>2, <2>6 DEF Queued
    <3>1. Queued(k, u)' /\ k \in KeysOf(req'[u]) /\ queue'[k] # <<>> /\ queue[k] # <<>>
      BY <3>0, <2>6 DEF Queued, KeysOf
    <3>2. CASE owner[k] # NoOwner
      BY <3>1, <3>2, <2>1
    <3>3. CASE owner[k] = NoOwner /\ k \notin K
      BY <3>1, <3>3, <2>1, <2>6
    <3>4. CASE owner[k] = NoOwner /\ k \in K /\ Head(queue[k]) # t
      <4>1. Head(queue'[k]) = Head(queue[k])
        BY <3>1, <3>4, <2>1, <1>w
      <4> QED BY <3>1, <3>4, <4>1, <2>1, <2>6
    <3>5. CASE owner[k] = NoOwner /\ k \in K /\ Head(queue[k]) = t
      <4>1. k \in led
        BY <3>1, <3>5
      <4>2. Head(queue'[k]) = t \/ Head(queue'[k]) \in wakes'[t]
        BY <3>1, <4>1, <2>1
      <4> QED BY <3>1, <4>2, <2>6
    <3> QED BY <3>2, <3>3, <3>4, <3>5
  <2>c. C'
    BY <2>5, <2>6, <1>i
  <2> QED BY <2>a, <2>b, <2>c
<1>11. ASSUME NEW t \in Oid, Park(t) \/ Wake(t)
       PROVE  A' /\ B' /\ C'
  <2> USE DEF TypeOK
  <2>1. /\ queue' = queue /\ owner' = owner /\ req' = req
        /\ signal' = signal /\ wakes' = wakes
        /\ \/ pc[t] = "check" /\ pc' = [pc EXCEPT ![t] = "parked"]
           \/ pc[t] = "parked" /\ pc' = [pc EXCEPT ![t] = "attempt"]
    BY <1>11 DEF Park, Wake
  <2>a. A' BY <2>1, <1>0
  <2>b. B' BY <2>1, <1>b, <1>q
  <2>5. \A u \in Oid : Waits(u)' => Waits(u)
    BY <2>1
  <2>6. \A u \in Oid, k \in Key : Reason(u, k) => Reason(u, k)'
    BY <2>1 DEF Queued
  <2>c. C' BY <2>5, <2>6, <1>i
  <2> QED BY <2>a, <2>b, <2>c
<1>12. ASSUME NEW t \in Oid, SendWake(t)
       PROVE  A' /\ B' /\ C'
  <2> USE DEF TypeOK
  <2>1. PICK w \in wakes[t] : /\ wakes' = [wakes EXCEPT ![t] = @ \ {w}]
                              /\ signal' = signal \union {w}
                              /\ UNCHANGED <<owner, stale, queue, pc, req, late, held>>
    BY <1>12 DEF SendWake
  <2>a. A' BY <2>1, <1>0
  <2>b. B' BY <2>1, <1>b, <1>q
  <2>5. \A u \in Oid : Waits(u)' => Waits(u)
    BY <2>1
  <2>6. \A u \in Oid, k \in Key : Reason(u, k) => Reason(u, k)'
    BY <2>1 DEF Queued
  <2>c. C' BY <2>5, <2>6, <1>i
  <2> QED BY <2>a, <2>b, <2>c
<1>13. ASSUME UNCHANGED <<owner, queue, pc, req, signal, wakes>>
       PROVE  A' /\ B' /\ C'
  BY <1>13, <1>0, <1>b, <1>i DEF Queued
<1>14. ASSUME NEW k \in Key, LockExpires(k)
       PROVE  A' /\ B' /\ C'
  BY <1>13, <1>14 DEF LockExpires
<1>15. ASSUME NEW t \in Oid, DeadlinePasses(t)
       PROVE  A' /\ B' /\ C'
  BY <1>13, <1>15 DEF DeadlinePasses
<1>16. CASE UNCHANGED vars
  BY <1>13, <1>16 DEF vars
<1>17. ASSUME NEW t \in Oid, NEW ks \in Requests, Release(t, ks)
       PROVE  A' /\ B' /\ C'
  BY <1>17, <1>7 DEF Release
<1>18. ASSUME NEW t \in Oid, ReleaseAll(t)
       PROVE  A' /\ B' /\ C'
  BY <1>18, <1>7 DEF ReleaseAll
<1> HIDE DEF A, B, C
<1> QED
  BY <1>5, <1>6, <1>8, <1>9, <1>10, <1>11, <1>12, <1>14, <1>15, <1>16, <1>17, <1>18
  DEF Next

(* The lock table's types, the soundness of its queues and the absence of  *)
(* lost wakeups hold in every reachable state, whatever the number of      *)
(* transactions, keys and requests, with nesting, expiry and timeouts.     *)
THEOREM LockSafety == Spec => [](TypeOK /\ QueuesSound /\ NoLostWakeup)
<1>1. Init => IInv
  BY LockAssumption DEF Init, IInv, TypeOK, PC, QueuesSound, NoLostWakeup, KeysOf
<1>2. IInv /\ [Next]_vars => IInv'
  BY LockAssumption, TypeStep, InvStep DEF IInv
<1> QED
  BY <1>1, <1>2, PTL DEF Spec, IInv

-----------------------------------------------------------------------------
(* When no lock outlives STATEMENT_LOCK_TTL, the owner column agrees with  *)
(* what callers were granted.  Inductive with: nothing is ever stale, so   *)
(* try_acquire_locked reclaims nothing and release only clears the         *)
(* caller's own keys.                                                      *)
HInv == IInv /\ stale = {} /\ HeldIsOwned

(* One step keeps the owner column in agreement with the grants.           *)
LEMMA HeldStep == ~TtlFires /\ LockAssumption /\ HInv /\ [Next]_vars
                  => stale' = {} /\ HeldIsOwned'
<1> SUFFICES ASSUME ~TtlFires, LockAssumption, HInv, [Next]_vars
             PROVE  stale' = {} /\ HeldIsOwned'
  OBVIOUS
<1> USE DEF HInv, IInv, TypeOK
<1>r. \A t, ks, w : Reclaimed(t, ks, w) = {}
  BY DEF Reclaimed
<1>1. ASSUME NEW t \in Oid, NEW ks \in Seq(Key), NEW w \in BOOLEAN,
             Acquirable(t, ks, w), Take(t, ks, w)
      PROVE  stale' = {} /\ HeldIsOwned'
  <2>1. \A k \in KeysOf(ks) : owner[k] \in {NoOwner, t}
    BY <1>1 DEF Acquirable, Blocked, Foreign
  <2>2. KeysOf(ks) \subseteq Key
    BY DEF KeysOf
  <2>3. \A u \in Oid : \A k \in held'[u] :
           (u = t /\ k \in KeysOf(ks)) \/ k \in held[u]
    BY <1>1 DEF Take
  <2>4. \A k \in Key : owner'[k] = (IF k \in KeysOf(ks) THEN t ELSE owner[k])
    BY <1>1 DEF Take
  <2>5. \A u \in Oid : u # NoOwner
    BY DEF LockAssumption
  <2>6. \A u \in Oid : \A k \in held[u] : k \in Key /\ owner[k] = u
    BY DEF HeldIsOwned
  <2>7. ASSUME NEW u \in Oid, NEW k \in held'[u] PROVE owner'[k] = u
    <3>1. CASE u = t /\ k \in KeysOf(ks)
      BY <3>1, <2>2, <2>4
    <3>2. CASE k \in held[u]
      BY <3>2, <2>1, <2>4, <2>5, <2>6
    <3> QED BY <3>1, <3>2, <2>3, <2>7
  <2>8. HeldIsOwned'
    BY <2>7 DEF HeldIsOwned
  <2> QED BY <2>8, <1>1 DEF Take
<1>2. ASSUME NEW t \in Oid, NEW ks \in Seq(Key), NEW w, Reclaim(t, ks, w), held' = held
      PROVE  stale' = {} /\ HeldIsOwned'
  BY <1>2, <1>r DEF Reclaim, HeldIsOwned
<1>3. ASSUME owner' = owner, stale' = stale, held' = held
      PROVE  stale' = {} /\ HeldIsOwned'
  BY <1>3 DEF HeldIsOwned
<1>4. ASSUME NEW t \in Oid, NEW ks \in SUBSET Key, ReleaseKeys(t, ks)
      PROVE  stale' = {} /\ HeldIsOwned'
  <2>1. \A k \in Key : owner'[k] = (IF k \in ks /\ owner[k] = t THEN NoOwner ELSE owner[k])
    BY <1>4 DEF ReleaseKeys
  <2>2. \A u \in Oid : \A k \in held'[u] : k \in held[u] /\ (u = t => k \notin ks)
    BY <1>4 DEF ReleaseKeys
  <2>3. HeldIsOwned'
    BY <2>1, <2>2 DEF HeldIsOwned
  <2> QED BY <2>3, <1>4 DEF ReleaseKeys
<1>5. ASSUME NEW t \in Oid, NEW ks \in Requests, LockSomeFast(t, ks)
      PROVE  stale' = {} /\ HeldIsOwned'
  BY <1>5, <1>1 DEF LockSomeFast, LockAssumption
<1>6. ASSUME NEW t \in Oid, NEW ks \in Requests, LockSomeSlow(t, ks)
      PROVE  stale' = {} /\ HeldIsOwned'
  BY <1>6, <1>2 DEF LockSomeSlow, LockAssumption
<1>7. ASSUME NEW t \in Oid, AttemptGranted(t)
      PROVE  stale' = {} /\ HeldIsOwned'
  BY <1>7, <1>1 DEF AttemptGranted
<1>8. ASSUME NEW t \in Oid, AttemptFails(t)
      PROVE  stale' = {} /\ HeldIsOwned'
  BY <1>8, <1>2 DEF AttemptFails
<1>9. ASSUME NEW t \in Oid, NEW ks \in Requests, Release(t, ks)
      PROVE  stale' = {} /\ HeldIsOwned'
  BY <1>9, <1>4, SMTT(60) DEF Release, LockAssumption, KeysOf
<1>10. ASSUME NEW t \in Oid, ReleaseAll(t)
       PROVE  stale' = {} /\ HeldIsOwned'
  BY <1>10, <1>4 DEF ReleaseAll
<1>11. ASSUME NEW t \in Oid,
              Park(t) \/ LeaveOnTimeout(t) \/ Wake(t) \/ SendWake(t) \/ DeadlinePasses(t)
       PROVE  stale' = {} /\ HeldIsOwned'
  BY <1>11, <1>3 DEF Park, LeaveOnTimeout, Wake, SendWake, DeadlinePasses
<1>12. ASSUME NEW k \in Key, LockExpires(k)
       PROVE  stale' = {} /\ HeldIsOwned'
  BY <1>12 DEF LockExpires
<1>13. CASE UNCHANGED vars
  BY <1>13, <1>3 DEF vars
<1> QED
  BY <1>5, <1>6, <1>7, <1>8, <1>9, <1>10, <1>11, <1>12, <1>13 DEF Next

(* Two transactions never both act as the holder of a key, provided no     *)
(* lock is held longer than the TTL.                                       *)
THEOREM LockExclusion == ~TtlFires => (Spec => []HeldIsOwned)
<1> SUFFICES ASSUME ~TtlFires PROVE Spec => []HeldIsOwned
  OBVIOUS
<1>1. Init => HInv
  BY LockAssumption
  DEF Init, HInv, IInv, TypeOK, PC, QueuesSound, NoLostWakeup, HeldIsOwned, KeysOf
<1>2. HInv /\ [Next]_vars => HInv'
  BY LockAssumption, HeldStep, TypeStep, InvStep DEF HInv, IInv
<1> QED BY <1>1, <1>2, PTL DEF Spec, HInv

-----------------------------------------------------------------------------
(* A step of the lock manager is a step of the lock table or leaves it.    *)
LEMMA TableStep == LockAssumption /\ TypeOK /\ [Next]_vars
                     => [Table!Next]_<<owner, stale>>
<1> SUFFICES ASSUME LockAssumption, TypeOK, [Next]_vars
             PROVE  [Table!Next]_<<owner, stale>>
  OBVIOUS
<1>k. \A ks \in Seq(Key) : KeysOf(ks) \in SUBSET Key
  BY DEF KeysOf
<1>1. ASSUME NEW t \in Oid, NEW ks \in Seq(Key), NEW w,
             Acquirable(t, ks, w), Take(t, ks, w)
      PROVE  Table!Next
  <2>1. \A k \in KeysOf(ks) : Table!Available(t, k)
    BY <1>1 DEF Acquirable, Blocked, Foreign, Table!Available
  <2>2. Table!Acquire(t, KeysOf(ks))
    BY <1>1, <2>1 DEF Take, Table!Acquire
  <2> QED BY <2>2, <1>k DEF Table!Next
<1>2. ASSUME NEW t \in Oid, NEW ks \in Seq(Key), NEW w, Reclaim(t, ks, w)
      PROVE  Table!Next
  <2>1. Reclaimed(t, ks, w) \in SUBSET Key /\ Reclaimed(t, ks, w) \subseteq stale
    BY DEF Reclaimed
  <2>2. Table!Reclaim(Reclaimed(t, ks, w))
    BY <1>2, <2>1 DEF Reclaim, Table!Reclaim
  <2> QED BY <2>1, <2>2 DEF Table!Next
<1>3. ASSUME NEW t \in Oid, NEW ks \in SUBSET Key, ReleaseKeys(t, ks)
      PROVE  Table!Next
  <2>1. Table!Release(t, ks)
    BY <1>3 DEF ReleaseKeys, Table!Release
  <2> QED BY <2>1 DEF Table!Next
<1>4. ASSUME NEW t \in Oid, NEW ks \in Requests, LockSomeFast(t, ks)
      PROVE  Table!Next
  BY <1>4, <1>1 DEF LockSomeFast, LockAssumption
<1>5. ASSUME NEW t \in Oid, NEW ks \in Requests, LockSomeSlow(t, ks)
      PROVE  Table!Next
  BY <1>5, <1>2 DEF LockSomeSlow, LockAssumption
<1>6. ASSUME NEW t \in Oid, AttemptGranted(t)
      PROVE  Table!Next
  BY <1>6, <1>1 DEF AttemptGranted, TypeOK
<1>7. ASSUME NEW t \in Oid, AttemptFails(t)
      PROVE  Table!Next
  BY <1>7, <1>2 DEF AttemptFails, TypeOK
<1>8. ASSUME NEW t \in Oid, NEW ks \in Requests, Release(t, ks)
      PROVE  Table!Next
  BY <1>8, <1>3, <1>k DEF Release, LockAssumption
<1>9. ASSUME NEW t \in Oid, ReleaseAll(t)
      PROVE  Table!Next
  BY <1>9, <1>3 DEF ReleaseAll
<1>10. ASSUME NEW k \in Key, LockExpires(k)
       PROVE  Table!Next
  <2>1. Table!Expire(k)
    BY <1>10 DEF LockExpires, Table!Expire
  <2> QED BY <2>1 DEF Table!Next
<1>11. ASSUME NEW t \in Oid,
              Park(t) \/ LeaveOnTimeout(t) \/ Wake(t) \/ SendWake(t) \/ DeadlinePasses(t)
       PROVE  UNCHANGED <<owner, stale>>
  BY <1>11 DEF Park, LeaveOnTimeout, Wake, SendWake, DeadlinePasses
<1>12. CASE UNCHANGED vars
  BY <1>12 DEF vars
<1> QED
  BY <1>4, <1>5, <1>6, <1>7, <1>8, <1>9, <1>10, <1>11, <1>12 DEF Next

(* The waiting queues, wakeups, deadlines and the TTL clock of lock_some   *)
(* and release implement the plain lock table: a key changes hands only    *)
(* when it is free, released by its owner, or expired, and a request takes *)
(* all of its keys or none.                                                *)
THEOREM LockRefinement == Spec => ImplementsLockTable
<1>1. Init => Table!Init
  BY DEF Init, Table!Init
<1>2. Spec => []TypeOK
  BY LockSafety, PTL
<1>3. TypeOK /\ [Next]_vars => [Table!Next]_<<owner, stale>>
  BY LockAssumption, TableStep
<1> QED BY <1>1, <1>2, <1>3, PTL DEF Spec, ImplementsLockTable, Table!Spec
=============================================================================
