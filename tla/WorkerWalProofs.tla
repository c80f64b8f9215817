--------------------------- MODULE WorkerWalProofs ---------------------------
(***************************************************************************)
(* Proof that the group-commit watermark of WorkerWal only ever passes     *)
(* frames that are as durable as the sync policy promises, for any number  *)
(* of entries, slots and crashes, with direct appends and failing I/O.     *)
(***************************************************************************)
EXTENDS WorkerWal, SequenceTheorems, TLAPS

(* The maps are functions on allocated LSNs, the queue is a sequence.      *)
Shape ==
    /\ next_lsn \in Nat
    /\ next_wait_lsn \in Nat
    /\ next_wait_lsn <= next_lsn
    /\ DOMAIN frame \subseteq 0..(next_lsn - 1)
    /\ frame \in [DOMAIN frame -> [e : Entry, left : Nat]]
    /\ status \in [DOMAIN frame -> Status]
    /\ ready_lsns \subseteq 0..(next_lsn - 1)
    /\ log_queue \in Seq(Seq(Nat))
    /\ pc \in [Entry -> Progress]
    /\ \A e \in Entry : pc[e] = "write" => e \in Direct

(* A queued frame has no offset yet, belongs to a group commit, and is     *)
(* queued once.                                                            *)
QueueInv ==
    /\ \A i \in DOMAIN log_queue : \A l \in Elems(log_queue[i]) :
           /\ l \in DOMAIN frame
           /\ status[l] = "alloc"
           /\ frame[l].e \notin Direct
    /\ \A i, j \in DOMAIN log_queue :
           i # j => Elems(log_queue[i]) \intersect Elems(log_queue[j]) = {}

(* A round that writes owns its frames; one that syncs covers them.        *)
RoundInv ==
    /\ round \in [Slot -> [phase : {"idle", "write", "sync"},
                           lsns : SUBSET DOMAIN frame, cover : SUBSET DOMAIN frame]]
    /\ \A s \in Slot : round[s].phase = "write" =>
           \A l \in round[s].lsns : status[l] = "reserved" /\ frame[l].e \notin Direct
    /\ \A s \in Slot : round[s].phase = "sync" =>
           /\ round[s].lsns \subseteq round[s].cover
           /\ \A l \in round[s].cover : status[l] \in {"written", "synced"}
    /\ \A s, t \in Slot :
           s # t /\ round[s].phase = "write" /\ round[t].phase = "write"
           => round[s].lsns \intersect round[t].lsns = {}

(* Every frame of a group commit that was reported is durable.             *)
ReportedDurable ==
    up => \A l \in DOMAIN frame :
              /\ frame[l].e \notin Direct
              /\ l < next_wait_lsn \/ l \in ready_lsns
              => Durable(l)

(* What is left while the worker is down.                                  *)
DownInv ==
    ~up => /\ ready_lsns = {}
           /\ log_queue = <<>>
           /\ \A s \in Slot : round[s] = Idle
           /\ \A l \in DOMAIN frame : status[l] # "lost" => Durable(l)

IInv == Shape /\ QueueInv /\ RoundInv /\ ReportedDurable /\ DownInv
-----------------------------------------------------------------------------
(* The empty log of Init satisfies the invariant.                          *)
LEMMA InitInv == Init => IInv
<1> SUFFICES ASSUME Init PROVE IInv
  OBVIOUS
<1>1. Shape
  <2>1. <<>> \in [{} -> [e : Entry, left : Nat]] /\ <<>> \in [{} -> Status]
    OBVIOUS
  <2>2. DOMAIN frame = {} /\ frame = <<>> /\ status = <<>>
    BY DEF Init
  <2>3. log_queue \in Seq(Seq(Nat))
    BY DEF Init
  <2>4. pc \in [Entry -> Progress] /\ \A e \in Entry : pc[e] # "write"
    BY DEF Init, Progress
  <2>5. next_lsn = 0 /\ next_wait_lsn = 0 /\ ready_lsns = {}
    BY DEF Init
  <2> QED
    BY <2>1, <2>2, <2>3, <2>4, <2>5 DEF Shape
<1>2. QueueInv
  BY DEF Init, QueueInv
<1>3. RoundInv
  BY DEF Init, RoundInv, Idle
<1>4. ReportedDurable /\ DownInv
  BY DEF Init, ReportedDurable, DownInv
<1> QED
  BY <1>1, <1>2, <1>3, <1>4 DEF IInv

(* WaitLsn::ready only passes or keeps LSNs that were reported.            *)
LEMMA ReadyReports ==
    ASSUME Shape, NEW ls, ls \subseteq 0..(next_lsn - 1), Ready(ls)
    PROVE  /\ next_wait_lsn' \in Nat
           /\ next_wait_lsn' <= next_lsn
           /\ ready_lsns' \subseteq 0..(next_lsn - 1)
           /\ \A l \in Nat : l < next_wait_lsn' \/ l \in ready_lsns'
                             => l < next_wait_lsn \/ l \in ready_lsns \/ l \in ls
<1> PICK n \in next_wait_lsn..next_lsn :
          /\ \A m \in next_wait_lsn..(n - 1) : m \in ready_lsns \union ls
          /\ next_wait_lsn' = n
          /\ ready_lsns' = {l \in ready_lsns \union ls : l > n}
  BY DEF Ready
<1>1. next_wait_lsn \in Nat /\ next_lsn \in Nat /\ n \in Nat /\ n <= next_lsn
  BY DEF Shape
<1>2. ready_lsns \union ls \subseteq 0..(next_lsn - 1)
  BY DEF Shape
<1>3. ASSUME NEW l \in Nat, l < n \/ l \in ready_lsns'
      PROVE  l < next_wait_lsn \/ l \in ready_lsns \/ l \in ls
  <2>1. CASE l < n /\ ~(l < next_wait_lsn)
    BY <1>1, <2>1
  <2> QED
    BY <1>3, <2>1
<1> QED
  BY <1>1, <1>2, <1>3

(* Marking frames keeps the status map a function on the same LSNs.        *)
LEMMA MarkShape ==
    ASSUME Shape, NEW ls, ls \subseteq DOMAIN frame, NEW st \in Status
    PROVE  /\ Mark(ls, st) \in [DOMAIN frame -> Status]
           /\ \A l \in DOMAIN frame :
                  Mark(ls, st)[l] = IF l \in ls THEN st ELSE status[l]
  BY DEF Mark, Shape

(* Nothing that a waiting request, a restart of the clock or an fsync task *)
(* touches matters to the invariant.                                       *)
LEMMA UnchangedInv ==
    ASSUME IInv,
           UNCHANGED <<next_lsn, frame, status, log_queue, round, waitlsn, up>>,
           pc' \in [Entry -> Progress],
           \A e \in Entry : pc'[e] = "write" => pc[e] = "write"
    PROVE  IInv'
<1>1. Shape'
  BY DEF IInv, Shape, waitlsn
<1>2. QueueInv'
  BY DEF IInv, QueueInv
<1>3. RoundInv'
  BY DEF IInv, RoundInv
<1>4. ReportedDurable' /\ DownInv'
  BY DEF IInv, ReportedDurable, DownInv, Durable, waitlsn
<1> QED
  BY <1>1, <1>2, <1>3, <1>4 DEF IInv
-----------------------------------------------------------------------------
(* A step of a direct append changes no frame of a group commit, takes no  *)
(* written frame back, and reports only its own LSNs.                      *)
LEMMA DirectStep ==
    ASSUME IInv, up,
           UNCHANGED <<next_lsn, frame, log_queue, round, up>>,
           status' \in [DOMAIN frame -> Status],
           \A l \in DOMAIN frame : frame[l].e \notin Direct => status'[l] = status[l],
           \A l \in DOMAIN frame : status[l] \in {"written", "synced"}
                                   => status'[l] \in {"written", "synced"},
           NEW ls, ls \subseteq {l \in DOMAIN frame : frame[l].e \in Direct},
           UNCHANGED waitlsn \/ Ready(ls),
           pc' \in [Entry -> Progress],
           \A e \in Entry : pc'[e] = "write" => pc[e] = "write"
    PROVE  IInv'
<1> USE DEF IInv
<1>1. ls \subseteq 0..(next_lsn - 1)
  BY DEF Shape
<1>2. /\ next_wait_lsn' \in Nat
      /\ next_wait_lsn' <= next_lsn
      /\ ready_lsns' \subseteq 0..(next_lsn - 1)
      /\ \A l \in Nat : l < next_wait_lsn' \/ l \in ready_lsns'
                        => l < next_wait_lsn \/ l \in ready_lsns \/ l \in ls
  <2>1. CASE Ready(ls)
    BY <1>1, <2>1, ReadyReports
  <2>2. CASE UNCHANGED waitlsn
    BY <2>2 DEF waitlsn, Shape
  <2> QED
    BY <2>1, <2>2
<1>3. Shape'
  BY <1>2 DEF Shape
<1>4. QueueInv'
  BY DEF QueueInv
<1>5. RoundInv'
  BY DEF RoundInv
<1>6. ReportedDurable'
  <2> SUFFICES ASSUME NEW l \in DOMAIN frame, frame[l].e \notin Direct,
                      l < next_wait_lsn' \/ l \in ready_lsns'
               PROVE  Durable(l)'
    BY DEF ReportedDurable
  <2>1. l \in Nat
    BY DEF Shape
  <2>2. l < next_wait_lsn \/ l \in ready_lsns
    BY <1>2, <2>1
  <2>3. Durable(l)
    BY <2>2 DEF ReportedDurable
  <2> QED
    BY <2>3 DEF Durable
<1>7. DownInv'
  BY DEF DownInv
<1> QED
  BY <1>3, <1>4, <1>5, <1>6, <1>7

(* DirectWritten, DirectDone and DirectFails are such steps.               *)
LEMMA DirectInv ==
    ASSUME IInv, NEW e \in Entry, NEW l \in DOMAIN frame,
           DirectWritten(e, l) \/ DirectDone(e, l) \/ DirectFails(e, l)
    PROVE  IInv'
<1>1. up /\ pc[e] = "write" /\ frame[l].e = e /\ status[l] = "reserved"
  BY DEF DirectWritten, DirectDone, DirectFails, InFlight
<1>2. e \in Direct
  BY <1>1 DEF IInv, Shape
<1>3. status \in [DOMAIN frame -> Status] /\ pc \in [Entry -> Progress]
  BY DEF IInv, Shape
<1> DEFINE ls == {k \in DOMAIN frame : frame[k].e = e}
<1>4. ls \subseteq {k \in DOMAIN frame : frame[k].e \in Direct}
  BY <1>2
<1>5. CASE DirectWritten(e, l)
  <2> PICK k \in DOMAIN frame :
           /\ frame[k] = [e |-> e, left |-> frame[l].left - 1]
           /\ status[k] = "alloc"
           /\ status' = [status EXCEPT ![l] = "written", ![k] = "reserved"]
    BY <1>5 DEF DirectWritten
  <2>1. frame[k].e = e
    OBVIOUS
  <2>2. status' \in [DOMAIN frame -> Status]
    BY <1>3 DEF Status
  <2>3. \A m \in DOMAIN frame : frame[m].e \notin Direct => status'[m] = status[m]
    BY <1>1, <1>2, <1>3, <2>1
  <2>4. \A m \in DOMAIN frame : status[m] \in {"written", "synced"}
                                => status'[m] \in {"written", "synced"}
    BY <1>1, <1>3
  <2>5. /\ UNCHANGED <<next_lsn, frame, log_queue, round, up>>
        /\ UNCHANGED waitlsn
        /\ pc' = pc
    BY <1>5 DEF DirectWritten
  <2> HIDE DEF ls
  <2> QED
    BY <1>1, <1>3, <1>4, <2>2, <2>3, <2>4, <2>5, DirectStep DEF ls
<1>6. CASE DirectDone(e, l)
  <2>1. status' = [status EXCEPT ![l] = "written"]
    BY <1>6 DEF DirectDone
  <2>2. status' \in [DOMAIN frame -> Status]
    BY <1>3, <2>1 DEF Status
  <2>3. \A m \in DOMAIN frame : frame[m].e \notin Direct => status'[m] = status[m]
    BY <1>1, <1>2, <1>3, <2>1
  <2>4. \A m \in DOMAIN frame : status[m] \in {"written", "synced"}
                                => status'[m] \in {"written", "synced"}
    BY <1>3, <2>1
  <2>5. /\ UNCHANGED <<next_lsn, frame, log_queue, round, up>>
        /\ Ready(ls)
        /\ pc' = [pc EXCEPT ![e] = "acked"]
    BY <1>6 DEF DirectDone
  <2>6. /\ pc' \in [Entry -> Progress]
        /\ \A f \in Entry : pc'[f] = "write" => pc[f] = "write"
    BY <1>3, <2>5 DEF Progress
  <2> HIDE DEF ls
  <2> QED
    BY <1>1, <1>4, <2>2, <2>3, <2>4, <2>5, <2>6, DirectStep
<1>7. CASE DirectFails(e, l)
  <2>1. status' = [k \in DOMAIN status |->
                     IF frame[k].e = e /\ status[k] \in {"alloc", "reserved"}
                     THEN "hole" ELSE status[k]]
    BY <1>7 DEF DirectFails
  <2>2. status' \in [DOMAIN frame -> Status]
    BY <1>3, <2>1 DEF Status
  <2>3. \A m \in DOMAIN frame : frame[m].e \notin Direct => status'[m] = status[m]
    BY <1>2, <1>3, <2>1
  <2>4. \A m \in DOMAIN frame : status[m] \in {"written", "synced"}
                                => status'[m] \in {"written", "synced"}
    BY <1>3, <2>1
  <2>5. /\ UNCHANGED <<next_lsn, frame, log_queue, round, up>>
        /\ Ready(ls)
        /\ pc' = [pc EXCEPT ![e] = "failed"]
    BY <1>7 DEF DirectFails
  <2>6. /\ pc' \in [Entry -> Progress]
        /\ \A f \in Entry : pc'[f] = "write" => pc[f] = "write"
    BY <1>3, <2>5 DEF Progress
  <2> HIDE DEF ls
  <2> QED
    BY <1>1, <1>4, <2>2, <2>3, <2>4, <2>5, <2>6, DirectStep
<1> QED
  BY <1>5, <1>6, <1>7
-----------------------------------------------------------------------------
(* New frames are above every reported LSN, so they are not yet promised.  *)
LEMMA AllocInv ==
    ASSUME IInv, NEW e \in Entry, up, up' = up,
           frame' = Frames(e),
           status' \in [DOMAIN frame' -> Status],
           \A l \in DOMAIN frame : status'[l] = status[l],
           next_lsn' = next_lsn + Parts[e],
           UNCHANGED <<round, waitlsn>>,
           pc' \in [Entry -> Progress],
           \A f \in Entry : pc'[f] = "write" => f \in Direct,
           log_queue' \in Seq(Seq(Nat)),
           QueueInv'
    PROVE  IInv'
<1> USE DEF IInv
<1>1. Parts[e] \in Nat /\ next_lsn \in Nat /\ next_wait_lsn \in Nat /\ next_wait_lsn <= next_lsn
  BY WalAssumption DEF Shape
<1>2. /\ DOMAIN frame' = DOMAIN frame \union LsnsOf(e)
      /\ \A l \in DOMAIN frame : l \notin LsnsOf(e) /\ frame'[l] = frame[l]
      /\ \A l \in LsnsOf(e) : frame'[l] = [e |-> e, left |-> next_lsn + Parts[e] - 1 - l]
  BY <1>1 DEF Frames, LsnsOf, Shape
<1>3. Shape'
  <2>1. DOMAIN frame' \subseteq 0..(next_lsn' - 1) /\ ready_lsns' \subseteq 0..(next_lsn' - 1)
    BY <1>1, <1>2, SMTT(60) DEF Shape, LsnsOf, waitlsn
  <2>2. \A l \in LsnsOf(e) : next_lsn + Parts[e] - 1 - l \in Nat
    BY <1>1 DEF LsnsOf
  <2>3. \A l \in DOMAIN frame' : frame'[l] \in [e : Entry, left : Nat]
    BY <1>2, <2>2 DEF Shape
  <2>4. frame' \in [DOMAIN frame' -> [e : Entry, left : Nat]]
    BY <2>3 DEF Frames
  <2> QED
    BY <1>1, <2>1, <2>4 DEF Shape, waitlsn
<1>4. RoundInv'
  <2>1. round \in [Slot -> [phase : {"idle", "write", "sync"},
                            lsns : SUBSET DOMAIN frame', cover : SUBSET DOMAIN frame']]
    BY <1>2 DEF RoundInv
  <2>2. \A s \in Slot : round[s].lsns \subseteq DOMAIN frame /\ round[s].cover \subseteq DOMAIN frame
    BY DEF RoundInv
  <2> QED
    BY <1>2, <2>1, <2>2 DEF RoundInv
<1>5. ReportedDurable'
  <2> SUFFICES ASSUME NEW l \in DOMAIN frame', frame'[l].e \notin Direct,
                      l < next_wait_lsn \/ l \in ready_lsns
               PROVE  Durable(l)'
    BY DEF ReportedDurable, waitlsn
  <2>1. l \notin LsnsOf(e)
    BY <1>1 DEF LsnsOf, Shape
  <2>2. l \in DOMAIN frame /\ frame'[l] = frame[l]
    BY <1>2, <2>1
  <2>3. Durable(l)
    BY <2>2 DEF ReportedDurable
  <2> QED
    BY <2>2, <2>3 DEF Durable
<1>6. DownInv'
  BY DEF DownInv
<1> QED
  BY <1>3, <1>4, <1>5, <1>6

(* enqueue_group_commit queues only its own fresh LSNs.                    *)
LEMMA EnqueueInv ==
    ASSUME IInv, NEW e \in Entry, EnqueueGroupCommit(e)
    PROVE  IInv'
<1> DEFINE ls == [i \in 1..Parts[e] |-> next_lsn + i - 1]
<1>1. Parts[e] \in 1..2 /\ next_lsn \in Nat /\ e \notin Direct /\ up
  BY WalAssumption DEF IInv, Shape, EnqueueGroupCommit
<1>2. ls \in Seq(Nat) /\ Elems(ls) \subseteq LsnsOf(e)
  BY <1>1 DEF Elems, LsnsOf
<1>3. log_queue \in Seq(Seq(Nat)) /\ log_queue' = Append(log_queue, ls)
  BY DEF IInv, Shape, EnqueueGroupCommit, Push
<1>4. log_queue' \in Seq(Seq(Nat))
  BY <1>2, <1>3
<1>5. /\ DOMAIN log_queue' = DOMAIN log_queue \union {Len(log_queue) + 1}
      /\ \A i \in DOMAIN log_queue : i # Len(log_queue) + 1 /\ log_queue'[i] = log_queue[i]
      /\ log_queue'[Len(log_queue) + 1] = ls
  BY <1>2, <1>3
<1>6. /\ DOMAIN frame' = DOMAIN frame \union LsnsOf(e)
      /\ \A l \in DOMAIN frame : l \notin LsnsOf(e) /\ frame'[l] = frame[l]
      /\ \A l \in LsnsOf(e) : frame'[l].e = e
  BY <1>1 DEF EnqueueGroupCommit, Frames, LsnsOf, IInv, Shape
<1>7. status' = [l \in DOMAIN frame \union LsnsOf(e) |->
                    IF l \in LsnsOf(e) THEN "alloc" ELSE status[l]]
  BY DEF EnqueueGroupCommit, Mark, IInv, Shape
<1>8. /\ status' \in [DOMAIN frame' -> Status]
      /\ \A l \in DOMAIN frame : status'[l] = status[l]
      /\ \A l \in LsnsOf(e) : status'[l] = "alloc"
  BY <1>6, <1>7 DEF IInv, Shape, Status
<1> HIDE DEF ls
<1>9. QueueInv'
  <2>1. ASSUME NEW i \in DOMAIN log_queue', NEW l \in Elems(log_queue'[i])
        PROVE  l \in DOMAIN frame' /\ status'[l] = "alloc" /\ frame'[l].e \notin Direct
    <3>1. CASE i = Len(log_queue) + 1
      BY <1>1, <1>2, <1>5, <1>6, <1>8, <2>1, <3>1
    <3>2. CASE i \in DOMAIN log_queue
      BY <1>5, <1>6, <1>8, <2>1, <3>2 DEF IInv, QueueInv
    <3> QED
      BY <1>5, <3>1, <3>2
  <2>2. ASSUME NEW i \in DOMAIN log_queue', NEW j \in DOMAIN log_queue', i # j
        PROVE  Elems(log_queue'[i]) \intersect Elems(log_queue'[j]) = {}
    <3>1. \A k \in DOMAIN log_queue : Elems(log_queue[k]) \intersect LsnsOf(e) = {}
      BY <1>6 DEF IInv, QueueInv
    <3> QED
      BY <1>2, <1>5, <2>2, <3>1 DEF IInv, QueueInv
  <2> QED
    BY <2>1, <2>2 DEF QueueInv
<1>10. /\ pc' \in [Entry -> Progress]
       /\ \A f \in Entry : pc'[f] = "write" => f \in Direct
  BY DEF EnqueueGroupCommit, IInv, Shape, Progress
<1> QED
  BY <1>1, <1>4, <1>8, <1>9, <1>10, AllocInv DEF EnqueueGroupCommit

(* append_frames_async leaves the queue alone.                             *)
LEMMA DirectAppendInv ==
    ASSUME IInv, NEW e \in Entry, DirectAppend(e)
    PROVE  IInv'
<1>1. Parts[e] \in 1..2 /\ next_lsn \in Nat /\ e \in Direct /\ up
  BY WalAssumption DEF IInv, Shape, DirectAppend
<1>2. /\ DOMAIN frame' = DOMAIN frame \union LsnsOf(e)
      /\ \A l \in DOMAIN frame : l \notin LsnsOf(e) /\ frame'[l] = frame[l]
      /\ next_lsn \in LsnsOf(e)
  BY <1>1 DEF DirectAppend, Frames, LsnsOf, IInv, Shape
<1>3. status' = [[l \in DOMAIN frame \union LsnsOf(e) |->
                    IF l \in LsnsOf(e) THEN "alloc" ELSE status[l]]
                 EXCEPT ![next_lsn] = "reserved"]
  BY DEF DirectAppend, Mark, IInv, Shape
<1>4. /\ status' \in [DOMAIN frame' -> Status]
      /\ \A l \in DOMAIN frame : status'[l] = status[l]
  BY <1>2, <1>3 DEF IInv, Shape, Status
<1>5. QueueInv' /\ log_queue' \in Seq(Seq(Nat))
  BY <1>2, <1>4 DEF IInv, QueueInv, DirectAppend, Shape
<1>6. /\ pc' \in [Entry -> Progress]
      /\ \A f \in Entry : pc'[f] = "write" => f \in Direct
  BY <1>1 DEF DirectAppend, IInv, Shape, Progress
<1> QED
  BY <1>1, <1>4, <1>5, <1>6, AllocInv DEF DirectAppend
-----------------------------------------------------------------------------
(* drain_pending_batches hands queued frames to exactly one round.         *)
LEMMA StartRoundInv ==
    ASSUME IInv, NEW s \in Slot, StartRound(s)
    PROVE  IInv'
<1> DEFINE n == IF Len(log_queue) < MaxBatch THEN Len(log_queue) ELSE MaxBatch
           ls == UNION {Elems(log_queue[i]) : i \in 1..n}
<1> USE DEF IInv
<1>1. /\ log_queue \in Seq(Seq(Nat))
      /\ log_queue' = SubSeq(log_queue, n + 1, Len(log_queue))
      /\ status' = Mark(ls, "reserved")
      /\ round' = [round EXCEPT ![s] = [phase |-> "write", lsns |-> ls, cover |-> {}]]
      /\ up /\ up' = up /\ pc' = pc
      /\ UNCHANGED <<next_lsn, frame, waitlsn>>
  BY DEF StartRound, Shape
<1>2. n \in Nat /\ n <= Len(log_queue) /\ 1..n \subseteq DOMAIN log_queue
  BY <1>1, WalAssumption
<1> HIDE DEF n
<1>3. /\ log_queue' \in Seq(Seq(Nat))
      /\ \A i \in DOMAIN log_queue' : /\ i + n \in DOMAIN log_queue
                                      /\ i + n \notin 1..n
                                      /\ log_queue'[i] = log_queue[i + n]
  BY <1>1, <1>2, SMTT(60)
<1>4. \A l \in ls : l \in DOMAIN frame /\ status[l] = "alloc" /\ frame[l].e \notin Direct
  BY <1>2 DEF QueueInv
<1>5. \A i \in DOMAIN log_queue' : Elems(log_queue'[i]) \intersect ls = {}
  <2> SUFFICES ASSUME NEW i \in DOMAIN log_queue', NEW j \in 1..n
               PROVE  Elems(log_queue'[i]) \intersect Elems(log_queue[j]) = {}
    OBVIOUS
  <2>1. i + n \in DOMAIN log_queue /\ i + n # j /\ j \in DOMAIN log_queue
    BY <1>2, <1>3
  <2> QED
    BY <1>3, <2>1 DEF QueueInv
<1> HIDE DEF ls
<1>6. /\ status' \in [DOMAIN frame -> Status]
      /\ \A l \in DOMAIN frame : status'[l] = IF l \in ls THEN "reserved" ELSE status[l]
  BY <1>1, <1>4, MarkShape DEF Status
<1>7. Shape'
  BY <1>1, <1>3, <1>6 DEF Shape, waitlsn
<1>8. QueueInv'
  <2>1. ASSUME NEW i \in DOMAIN log_queue', NEW l \in Elems(log_queue'[i])
        PROVE  l \in DOMAIN frame /\ status'[l] = "alloc" /\ frame[l].e \notin Direct
    BY <1>3, <1>5, <1>6, <2>1 DEF QueueInv
  <2>2. ASSUME NEW i \in DOMAIN log_queue', NEW j \in DOMAIN log_queue', i # j
        PROVE  Elems(log_queue'[i]) \intersect Elems(log_queue'[j]) = {}
    <3>1. i + n # j + n
      BY <1>1, <1>2, <1>3, <2>2
    <3> QED
      BY <1>3, <3>1 DEF QueueInv
  <2> QED
    BY <1>1, <2>1, <2>2 DEF QueueInv
<1>9. RoundInv'
  <2>1. round' \in [Slot -> [phase : {"idle", "write", "sync"},
                             lsns : SUBSET DOMAIN frame, cover : SUBSET DOMAIN frame]]
    BY <1>1, <1>4 DEF RoundInv
  <2>2. round'[s] = [phase |-> "write", lsns |-> ls, cover |-> {}]
    BY <1>1 DEF RoundInv
  <2>3. \A t \in Slot \ {s} : round'[t] = round[t]
    BY <1>1 DEF RoundInv
  <2>4. \A t \in Slot : round[t].phase = "write" => round[t].lsns \intersect ls = {}
    BY <1>4 DEF RoundInv
  <2>5. ASSUME NEW t \in Slot, round'[t].phase = "write", NEW l \in round'[t].lsns
        PROVE  status'[l] = "reserved" /\ frame[l].e \notin Direct
    BY <1>4, <1>6, <2>2, <2>3, <2>5 DEF RoundInv
  <2>6. ASSUME NEW t \in Slot, round'[t].phase = "sync"
        PROVE  /\ round'[t].lsns \subseteq round'[t].cover
               /\ \A l \in round'[t].cover : status'[l] \in {"written", "synced"}
    BY <1>4, <1>6, <2>2, <2>3, <2>6 DEF RoundInv
  <2>7. ASSUME NEW t \in Slot, NEW u \in Slot, t # u,
               round'[t].phase = "write", round'[u].phase = "write"
        PROVE  round'[t].lsns \intersect round'[u].lsns = {}
    BY <2>2, <2>3, <2>4, <2>7 DEF RoundInv
  <2> QED
    BY <1>1, <2>1, <2>5, <2>6, <2>7 DEF RoundInv
<1>10. ReportedDurable'
  BY <1>1, <1>4, <1>6 DEF ReportedDurable, Durable, waitlsn
<1>11. DownInv'
  BY <1>1 DEF DownInv
<1> QED
  BY <1>7, <1>8, <1>9, <1>10, <1>11

(* When a slot becomes idle and written frames only become more durable,   *)
(* reporting durable frames keeps the promise.                             *)
LEMMA RoundEnds ==
    ASSUME IInv, NEW s \in Slot, up, up' = up,
           UNCHANGED <<next_lsn, frame, log_queue>>,
           round' = [round EXCEPT ![s] = Idle],
           status' \in [DOMAIN frame -> Status],
           \A l \in DOMAIN frame :
               \/ status'[l] = status[l]
               \/ status[l] \in {"written", "synced"} /\ status'[l] = "synced"
               \/ l \in round[s].lsns /\ round[s].phase = "write" /\ status'[l] \in {"written", "hole"},
           NEW ls, ls \subseteq DOMAIN frame,
           \A l \in ls : Durable(l)',
           UNCHANGED waitlsn \/ Ready(ls),
           pc' \in [Entry -> Progress],
           \A e \in Entry : pc'[e] = "write" => pc[e] = "write"
    PROVE  IInv'
<1> USE DEF IInv
<1>1. ls \subseteq 0..(next_lsn - 1)
  BY DEF Shape
<1>2. /\ next_wait_lsn' \in Nat
      /\ next_wait_lsn' <= next_lsn
      /\ ready_lsns' \subseteq 0..(next_lsn - 1)
      /\ \A l \in Nat : l < next_wait_lsn' \/ l \in ready_lsns'
                        => l < next_wait_lsn \/ l \in ready_lsns \/ l \in ls
  <2>1. CASE Ready(ls)
    BY <1>1, <2>1, ReadyReports
  <2>2. CASE UNCHANGED waitlsn
    BY <2>2 DEF waitlsn, Shape
  <2> QED
    BY <2>1, <2>2
<1>3. Shape'
  BY <1>2 DEF Shape
<1>4. round'[s] = Idle /\ \A t \in Slot \ {s} : round'[t] = round[t]
  BY SMTT(60) DEF RoundInv
<1>5. \A l \in round[s].lsns : round[s].phase = "write" => status[l] = "reserved"
  BY DEF RoundInv
<1>6. QueueInv'
  <2>1. ASSUME NEW i \in DOMAIN log_queue, NEW l \in Elems(log_queue[i])
        PROVE  l \in DOMAIN frame /\ status'[l] = "alloc" /\ frame[l].e \notin Direct
    BY <1>5 DEF QueueInv
  <2> QED
    BY <2>1 DEF QueueInv
<1>7. RoundInv'
  <2>1. round' \in [Slot -> [phase : {"idle", "write", "sync"},
                             lsns : SUBSET DOMAIN frame, cover : SUBSET DOMAIN frame]]
    BY DEF RoundInv, Idle
  <2>2. ASSUME NEW t \in Slot, round'[t].phase = "write", NEW l \in round'[t].lsns
        PROVE  status'[l] = "reserved" /\ frame[l].e \notin Direct
    <3>1. t # s /\ round'[t] = round[t]
      BY <1>4, <2>2 DEF Idle
    <3>2. l \in DOMAIN frame /\ status[l] = "reserved" /\ frame[l].e \notin Direct
      BY <2>2, <3>1 DEF RoundInv
    <3>3. ~(l \in round[s].lsns /\ round[s].phase = "write")
      BY <2>2, <3>1 DEF RoundInv
    <3> QED
      BY <3>2, <3>3
  <2>3. ASSUME NEW t \in Slot, round'[t].phase = "sync"
        PROVE  /\ round'[t].lsns \subseteq round'[t].cover
               /\ \A l \in round'[t].cover : status'[l] \in {"written", "synced"}
    <3>1. t # s /\ round'[t] = round[t]
      BY <1>4, <2>3 DEF Idle
    <3>2. /\ round[t].lsns \subseteq round[t].cover
          /\ \A l \in round[t].cover : l \in DOMAIN frame /\ status[l] \in {"written", "synced"}
      BY <2>3, <3>1 DEF RoundInv
    <3> QED
      BY <1>5, <3>1, <3>2
  <2>4. ASSUME NEW t \in Slot, NEW u \in Slot, t # u,
               round'[t].phase = "write", round'[u].phase = "write"
        PROVE  round'[t].lsns \intersect round'[u].lsns = {}
    BY <1>4, <2>4 DEF RoundInv, Idle
  <2> QED
    <3> HIDE DEF IInv
    <3>1. frame' = frame
      OBVIOUS
    <3> QED
      BY <2>1, <2>2, <2>3, <2>4, <3>1 DEF RoundInv
<1>8. ReportedDurable'
  <2> SUFFICES ASSUME NEW l \in DOMAIN frame, frame[l].e \notin Direct,
                      l < next_wait_lsn' \/ l \in ready_lsns'
               PROVE  Durable(l)'
    BY DEF ReportedDurable
  <2>1. l \in Nat
    BY DEF Shape
  <2>2. CASE l \in ls
    BY <2>2
  <2>3. CASE l < next_wait_lsn \/ l \in ready_lsns
    <3>1. Durable(l)
      BY <2>3 DEF ReportedDurable
    <3> QED
      BY <1>5, <3>1 DEF Durable
  <2> QED
    BY <1>2, <2>1, <2>2, <2>3
<1>9. DownInv'
  BY DEF DownInv
<1> QED
  BY <1>3, <1>6, <1>7, <1>8, <1>9

(* RoundSynced reports what its fsync covered, RoundWrittenOnly what it    *)
(* wrote, RoundFails nothing.                                              *)
LEMMA RoundEndInv ==
    ASSUME IInv, NEW s \in Slot,
           RoundSynced(s) \/ RoundWrittenOnly(s) \/ RoundFails(s)
    PROVE  IInv'
<1>1. /\ pc \in [Entry -> Progress]
      /\ round[s].lsns \subseteq DOMAIN frame
      /\ round[s].cover \subseteq DOMAIN frame
      /\ status \in [DOMAIN frame -> Status]
      /\ Shape
  BY DEF IInv, Shape, RoundInv
<1>2. CASE RoundSynced(s)
  <2>1. /\ round[s].lsns \subseteq round[s].cover
        /\ \A l \in round[s].cover : status[l] \in {"written", "synced"}
    BY <1>2 DEF RoundSynced, IInv, RoundInv
  <2>2. /\ up /\ up' = up /\ pc' = pc
        /\ UNCHANGED <<next_lsn, frame, log_queue>>
        /\ round' = [round EXCEPT ![s] = Idle]
        /\ status' = Mark(round[s].cover, "synced")
        /\ Ready(round[s].lsns)
    BY <1>2 DEF RoundSynced
  <2>3. /\ status' \in [DOMAIN frame -> Status]
        /\ \A l \in DOMAIN frame :
               status'[l] = IF l \in round[s].cover THEN "synced" ELSE status[l]
    BY <1>1, <2>2, MarkShape DEF Status
  <2>4. \A l \in round[s].lsns : Durable(l)'
    BY <1>1, <2>1, <2>3 DEF Durable
  <2> QED
    BY <1>1, <2>1, <2>2, <2>3, <2>4, RoundEnds
<1>3. CASE RoundWrittenOnly(s)
  <2>1. /\ up /\ up' = up /\ pc' = pc
        /\ UNCHANGED <<next_lsn, frame, log_queue>>
        /\ Periodic
        /\ round[s].phase = "write"
        /\ round' = [round EXCEPT ![s] = Idle]
        /\ status' = Mark(round[s].lsns, "written")
        /\ Ready(round[s].lsns)
    BY <1>3 DEF RoundWrittenOnly
  <2>2. /\ status' \in [DOMAIN frame -> Status]
        /\ \A l \in DOMAIN frame :
               status'[l] = IF l \in round[s].lsns THEN "written" ELSE status[l]
    <3>1. /\ Mark(round[s].lsns, "written") \in [DOMAIN frame -> Status]
          /\ \A l \in DOMAIN frame : Mark(round[s].lsns, "written")[l]
                                     = IF l \in round[s].lsns THEN "written" ELSE status[l]
      BY <1>1, MarkShape DEF Status
    <3> QED
      BY <2>1, <3>1
  <2>3. \A l \in round[s].lsns : Durable(l)'
    BY <1>1, <2>1, <2>2 DEF Durable
  <2> QED
    BY <1>1, <2>1, <2>2, <2>3, RoundEnds
<1>4. CASE RoundFails(s)
  <2>1. /\ up /\ up' = up
        /\ UNCHANGED <<next_lsn, frame, log_queue, waitlsn>>
        /\ round' = [round EXCEPT ![s] = Idle]
    BY <1>4 DEF RoundFails
  <2>2. /\ pc' \in [Entry -> Progress]
        /\ \A e \in Entry : pc'[e] = "write" => pc[e] = "write"
    BY <1>1, <1>4 DEF RoundFails, Progress
  <2>3. /\ status' \in [DOMAIN frame -> Status]
        /\ \A l \in DOMAIN frame :
               \/ status'[l] = status[l]
               \/ /\ l \in round[s].lsns /\ round[s].phase = "write"
                  /\ status'[l] \in {"written", "hole"}
    <3>1. CASE round[s].phase = "write"
      <4> PICK done \in Landed(round[s].lsns) :
               status' = [l \in DOMAIN status |-> IF l \in done THEN "written"
                                                  ELSE IF l \in round[s].lsns THEN "hole"
                                                  ELSE status[l]]
        BY <1>4, <3>1 DEF RoundFails
      <4>1. done \subseteq round[s].lsns
        BY DEF Landed
      <4>2. DOMAIN status = DOMAIN frame
        BY <1>1
      <4> QED
        BY <1>1, <3>1, <4>1, <4>2 DEF Status
    <3>2. CASE round[s].phase # "write"
      BY <1>1, <1>4, <3>2 DEF RoundFails
    <3> QED
      BY <3>1, <3>2
  <2> DEFINE none == {l \in DOMAIN frame : FALSE}
  <2>4. none \subseteq DOMAIN frame /\ \A l \in none : Durable(l)'
    OBVIOUS
  <2> HIDE DEF none
  <2> QED
    BY <1>1, <2>1, <2>2, <2>3, <2>4, RoundEnds
<1> QED
  BY <1>2, <1>3, <1>4

(* In Commit mode a round's writes are not reported until its fsync, whose *)
(* cover contains them.                                                    *)
LEMMA RoundWrittenInv ==
    ASSUME IInv, NEW s \in Slot, RoundWritten(s)
    PROVE  IInv'
<1> DEFINE ls == round[s].lsns
           cover == Covered(ChunksOf(ls)) \union ls
<1>0. Shape /\ QueueInv /\ RoundInv /\ ReportedDurable /\ DownInv
  BY DEF IInv
<1>1. /\ up /\ up' = up /\ pc' = pc
      /\ UNCHANGED <<next_lsn, frame, log_queue, waitlsn>>
      /\ round[s].phase = "write"
      /\ round' = [round EXCEPT ![s] = [phase |-> "sync", lsns |-> ls, cover |-> cover]]
      /\ status' = Mark(ls, "written")
  BY DEF RoundWritten
<1>2. /\ ls \subseteq DOMAIN frame
      /\ \A l \in ls : status[l] = "reserved" /\ frame[l].e \notin Direct
  BY <1>0, <1>1 DEF RoundInv
<1>3. /\ status' \in [DOMAIN frame -> Status]
      /\ \A l \in DOMAIN frame : status'[l] = IF l \in ls THEN "written" ELSE status[l]
  BY <1>0, <1>1, <1>2, MarkShape DEF Status
<1>4. /\ cover \subseteq DOMAIN frame
      /\ ls \subseteq cover
      /\ \A l \in cover : status'[l] \in {"written", "synced"}
  BY <1>0, <1>2, <1>3 DEF Covered, Written, Shape
<1> HIDE DEF cover
<1>5. Shape'
  BY <1>0, <1>1, <1>3 DEF Shape, waitlsn
<1>6. QueueInv'
  <2>1. ASSUME NEW i \in DOMAIN log_queue, NEW l \in Elems(log_queue[i])
        PROVE  l \in DOMAIN frame /\ status'[l] = "alloc" /\ frame[l].e \notin Direct
    BY <1>0, <1>2, <1>3 DEF QueueInv
  <2> QED
    BY <1>0, <1>1, <2>1 DEF QueueInv
<1>7. RoundInv'
  <2>1. round' \in [Slot -> [phase : {"idle", "write", "sync"},
                             lsns : SUBSET DOMAIN frame, cover : SUBSET DOMAIN frame]]
    BY <1>0, <1>1, <1>2, <1>4 DEF RoundInv
  <2>2. /\ round'[s] = [phase |-> "sync", lsns |-> ls, cover |-> cover]
        /\ \A t \in Slot \ {s} : round'[t] = round[t]
    BY <1>0, <1>1 DEF RoundInv
  <2>a. ASSUME NEW t \in Slot, round'[t].phase = "write"
        PROVE  t # s /\ round'[t] = round[t]
    <3>1. round'[s].phase # "write"
      BY <2>2
    <3>2. t # s
      BY <2>a, <3>1
    <3> QED
      BY <2>2, <3>2
  <2>3. ASSUME NEW t \in Slot, round'[t].phase = "write", NEW l \in round'[t].lsns
        PROVE  status'[l] = "reserved" /\ frame[l].e \notin Direct
    <3>1. t # s /\ round'[t] = round[t]
      BY <2>3, <2>a
    <3>2. l \notin ls
      BY <1>0, <1>1, <2>3, <3>1 DEF RoundInv
    <3> QED
      BY <1>0, <1>3, <2>3, <3>1, <3>2 DEF RoundInv
  <2>4. ASSUME NEW t \in Slot, round'[t].phase = "sync"
        PROVE  /\ round'[t].lsns \subseteq round'[t].cover
               /\ \A l \in round'[t].cover : status'[l] \in {"written", "synced"}
    <3>1. CASE t = s
      BY <1>4, <2>2, <3>1
    <3>2. CASE t # s
      <4>1. round'[t] = round[t]
        BY <2>2, <3>2
      <4>2. /\ round[t].lsns \subseteq round[t].cover
            /\ \A l \in round[t].cover : l \in DOMAIN frame /\ status[l] \in {"written", "synced"}
        BY <1>0, <2>4, <4>1 DEF RoundInv
      <4> QED
        BY <1>3, <4>1, <4>2
    <3> QED
      BY <3>1, <3>2
  <2>5. ASSUME NEW t \in Slot, NEW u \in Slot, t # u,
               round'[t].phase = "write", round'[u].phase = "write"
        PROVE  round'[t].lsns \intersect round'[u].lsns = {}
    <3>1. t # s /\ u # s /\ round'[t] = round[t] /\ round'[u] = round[u]
      BY <2>5, <2>a
    <3> QED
      BY <1>0, <2>5, <3>1 DEF RoundInv
  <2> QED
    BY <1>1, <2>1, <2>3, <2>4, <2>5 DEF RoundInv
<1>8. ReportedDurable'
  BY <1>0, <1>1, <1>2, <1>3 DEF Shape, ReportedDurable, Durable, waitlsn
<1>9. DownInv'
  BY <1>1 DEF DownInv
<1> QED
  BY <1>5, <1>6, <1>7, <1>8, <1>9 DEF IInv

(* A periodic fsync turns written frames into synced ones.                 *)
LEMMA FsyncDoneInv ==
    ASSUME IInv, FsyncDone
    PROVE  IInv'
<1> DEFINE cover == fsync.cover \intersect Written
<1> USE DEF IInv
<1>1. /\ up /\ up' = up /\ pc' = pc
      /\ UNCHANGED <<next_lsn, frame, log_queue, round, waitlsn>>
      /\ status' = Mark(cover, "synced")
  BY DEF FsyncDone
<1>2. cover \subseteq DOMAIN frame /\ \A l \in cover : status[l] = "written"
  BY DEF Written, Shape
<1> HIDE DEF cover
<1>3. /\ status' \in [DOMAIN frame -> Status]
      /\ \A l \in DOMAIN frame : status'[l] = IF l \in cover THEN "synced" ELSE status[l]
  BY <1>1, <1>2, MarkShape, SMTT(60) DEF Status
<1>4. Shape'
  BY <1>1, <1>3 DEF Shape, waitlsn
<1>5. QueueInv'
  BY <1>1, <1>2, <1>3 DEF QueueInv
<1>6. RoundInv'
  BY <1>1, <1>2, <1>3 DEF RoundInv
<1>7. ReportedDurable' /\ DownInv'
  BY <1>1, <1>2, <1>3 DEF ReportedDurable, DownInv, Durable, waitlsn
<1> QED
  BY <1>4, <1>5, <1>6, <1>7
-----------------------------------------------------------------------------
(* A crash leaves of every frame either nothing or a durable copy.         *)
LEMMA CrashInv == ASSUME IInv, Crash PROVE IInv'
<1> USE DEF IInv
<1> PICK gone \in SUBSET AtRisk :
        status' = [l \in DOMAIN status |-> AfterCrash(l, gone)]
  BY DEF Crash
<1>1. /\ ~up'
      /\ log_queue' = <<>>
      /\ round' = [s \in Slot |-> Idle]
      /\ ready_lsns' = {}
      /\ UNCHANGED <<next_lsn, frame, next_wait_lsn>>
  BY DEF Crash
<1>2. /\ pc' \in [Entry -> Progress]
      /\ \A e \in Entry : pc'[e] = "write" => pc[e] = "write"
  BY DEF Crash, Shape, Progress
<1>3. DOMAIN status = DOMAIN frame /\ \A l \in DOMAIN frame : status[l] \in Status
  BY DEF Shape
<1>4. \A l \in DOMAIN frame :
          /\ status'[l] \in Status
          /\ status'[l] # "lost" => Durable(l)'
  <2> SUFFICES ASSUME NEW l \in DOMAIN frame
               PROVE  /\ status'[l] \in Status
                      /\ status'[l] # "lost" => Durable(l)'
    OBVIOUS
  <2>1. status'[l] = AfterCrash(l, gone)
    BY <1>3
  <2>2. AfterCrash(l, gone) \in {"lost", "synced", "written"}
    BY DEF AfterCrash
  <2>3. AfterCrash(l, gone) = "written" => ~PowerLoss
    BY DEF AfterCrash
  <2> QED
    BY <2>1, <2>2, <2>3 DEF Status, Durable
<1>5. status' \in [DOMAIN frame -> Status]
  BY <1>3, <1>4
<1>6. Shape'
  BY <1>1, <1>2, <1>5 DEF Shape
<1>7. QueueInv'
  BY <1>1 DEF QueueInv
<1>8. RoundInv'
  BY <1>1 DEF RoundInv, Idle
<1>9. ReportedDurable' /\ DownInv'
  BY <1>1, <1>4 DEF ReportedDurable, DownInv
<1> QED
  BY <1>6, <1>7, <1>8, <1>9

(* A restart keeps only frames that survived, so its new watermark is      *)
(* honest.                                                                 *)
LEMMA RestartInv == ASSUME IInv, Restart PROVE IInv'
<1> USE DEF IInv
<1> PICK next \in 0..next_lsn :
        /\ \A l \in Kept : l < next
        /\ next_lsn' = next
        /\ next_wait_lsn' = next
  BY DEF Restart
<1>1. /\ ~up /\ up'
      /\ frame' = [l \in Kept |-> frame[l]]
      /\ status' = [l \in Kept |-> status[l]]
      /\ UNCHANGED <<log_queue, round, ready_lsns, pc>>
  BY DEF Restart
<1>2. /\ Kept \subseteq DOMAIN frame
      /\ \A l \in Kept : status[l] # "lost"
  <2>1. ASSUME NEW l \in Kept PROVE status[l] # "lost"
    <3> PICK c \in DOMAIN chunks : \E i \in 1..Len(chunks[c]) :
                 chunks[c][i] = l /\ ValidUpTo(chunks[c], i)
      BY <2>1 DEF Kept
    <3> PICK i \in 1..Len(chunks[c]) : chunks[c][i] = l /\ ValidUpTo(chunks[c], i)
      OBVIOUS
    <3>1. i \in 1..i
      OBVIOUS
    <3> QED
      BY <3>1 DEF ValidUpTo
  <2> QED
    BY <2>1 DEF Kept, Shape
<1>3. ready_lsns = {} /\ log_queue = <<>> /\ \A s \in Slot : round[s] = Idle
  BY <1>1 DEF DownInv
<1>4. \A l \in Kept : Durable(l)
  BY <1>1, <1>2 DEF DownInv
<1>5. DOMAIN frame' = Kept /\ Kept \subseteq Nat /\ next \in Nat
  BY <1>1, <1>2 DEF Shape
<1>6. Shape'
  <2>1. frame' \in [Kept -> [e : Entry, left : Nat]] /\ status' \in [Kept -> Status]
    BY <1>1, <1>2 DEF Shape
  <2>2. Kept \subseteq 0..(next - 1)
    BY <1>5
  <2> QED
    BY <1>1, <1>3, <1>5, <2>1, <2>2 DEF Shape
<1>7. QueueInv'
  BY <1>1, <1>3 DEF QueueInv
<1>8. RoundInv'
  <2>1. round \in [Slot -> [phase : {"idle", "write", "sync"},
                            lsns : SUBSET Kept, cover : SUBSET Kept]]
    <3>1. round \in [Slot -> [phase : {"idle", "write", "sync"},
                              lsns : SUBSET DOMAIN frame, cover : SUBSET DOMAIN frame]]
      BY DEF RoundInv
    <3> HIDE DEF IInv
    <3>2. \A s \in Slot : round[s] \in [phase : {"idle", "write", "sync"},
                                        lsns : SUBSET Kept, cover : SUBSET Kept]
      BY <1>3 DEF Idle
    <3> QED
      BY <3>1, <3>2
  <2> QED
    BY <1>1, <1>3, <1>5, <2>1 DEF RoundInv, Idle
<1>9. ReportedDurable' /\ DownInv'
  BY <1>1, <1>4, <1>5 DEF ReportedDurable, DownInv, Durable
<1> QED
  BY <1>6, <1>7, <1>8, <1>9
-----------------------------------------------------------------------------
(* Every step keeps the invariant.                                         *)
LEMMA NextInv == IInv /\ [Next]_vars => IInv'
<1> SUFFICES ASSUME IInv, [Next]_vars PROVE IInv'
  OBVIOUS
<1>0. pc \in [Entry -> Progress]
  BY DEF IInv, Shape
<1>1. ASSUME NEW e \in Entry, EnqueueGroupCommit(e) PROVE IInv'
  BY <1>1, EnqueueInv
<1>2. ASSUME NEW e \in Entry, CommitAcked(e) PROVE IInv'
  <2>1. /\ pc' \in [Entry -> Progress]
        /\ \A f \in Entry : pc'[f] = "write" => pc[f] = "write"
    BY <1>0, <1>2 DEF CommitAcked, Progress
  <2> QED
    BY <1>2, <2>1, UnchangedInv DEF CommitAcked
<1>3. ASSUME NEW e \in Entry, DirectAppend(e) PROVE IInv'
  BY <1>3, DirectAppendInv
<1>4. ASSUME NEW e \in Entry, NEW l \in DOMAIN frame,
             DirectWritten(e, l) \/ DirectDone(e, l) \/ DirectFails(e, l)
      PROVE  IInv'
  BY <1>4, DirectInv
<1>5. ASSUME NEW s \in Slot, StartRound(s) PROVE IInv'
  BY <1>5, StartRoundInv
<1>6. ASSUME NEW s \in Slot, RoundWritten(s) PROVE IInv'
  BY <1>6, RoundWrittenInv
<1>7. ASSUME NEW s \in Slot, RoundSynced(s) \/ RoundWrittenOnly(s) \/ RoundFails(s)
      PROVE  IInv'
  BY <1>7, RoundEndInv
<1>8. CASE FsyncTake \/ (\E c \in syncing : FsyncSubmit(c)) \/ FsyncFails \/ UNCHANGED vars
  <2>1. UNCHANGED <<next_lsn, frame, status, log_queue, round, waitlsn, up>> /\ pc' = pc
    BY <1>8 DEF FsyncTake, FsyncSubmit, FsyncFails, vars, waitlsn
  <2> QED
    BY <1>0, <2>1, UnchangedInv
<1>9. CASE FsyncDone
  BY <1>9, FsyncDoneInv
<1>10. CASE Crash
  BY <1>10, CrashInv
<1>11. CASE Restart
  BY <1>11, RestartInv
<1> QED
  BY <1>1, <1>2, <1>3, <1>4, <1>5, <1>6, <1>7, <1>8, <1>9, <1>10, <1>11 DEF Next

(* The watermark never lies: however many rounds run at once and in        *)
(* whatever order they complete or fail, whatever is appended directly,    *)
(* and across crashes and restarts, every frame of a group commit below    *)
(* next_wait_lsn has reached the disk (in Periodic mode, the page cache).  *)
THEOREM WalDurability == Spec => []WatermarkDurable
<1>1. IInv => WatermarkDurable
  BY DEF IInv, ReportedDurable, WatermarkDurable
<1> QED
  BY <1>1, InitInv, NextInv, PTL DEF Spec
==============================================================================
