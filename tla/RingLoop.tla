------------------------------- MODULE RingLoop ------------------------------
(***************************************************************************)
(* The service loop of one io_uring worker: its task registry and wakers,  *)
(* the mailbox with its eventfd, the timeouts, the log's flush slot, and   *)
(* the staged shutdown; against everything outside the thread: the         *)
(* shutdown notifier, the other workers, threads that complete work for a  *)
(* task, the clients, the kernel and the clock.                            *)
(*                                                                         *)
(* A task is one of three: a connection, which reads frames, works on each *)
(* (a call to another worker, a commit waiting for the log, or something a *)
(* thread outside completes) and writes the response; the handler of a     *)
(* call from another worker, which commits and answers; and a periodic     *)
(* round, which yields.  A task awaits one event at a time; fired is that  *)
(* event's result.                                                         *)
(*                                                                         *)
(* The loop's thread takes a step for every queue element it handles.  A   *)
(* thread outside takes two to post something, the push and the write to   *)
(* the eventfd: nudge holds the threads between the two.                   *)
(***************************************************************************)
EXTENDS Naturals, FiniteSets, Sequences, SequencesExt, Functions

CONSTANTS
    Conn,         \* clients
    MaxWork,      \* bound on frames, calls from other workers and periodic
                  \* rounds, together
    Budget        \* TASK_POLL_BUDGET

ConnTask == {"conn"} \X Conn
HandlerTask == {"handler"} \X (1..MaxWork)
RoundTask == {"round"} \X (1..MaxWork)
Task == ConnTask \cup HandlerTask \cup RoundTask

VARIABLES
    (* the threads outside and the clients *)
    stop,         \* the flag the shutdown notifier sets
    told,         \* has it posted Shutdown?
    nudge,        \* threads that are about to write the eventfd
    requests,     \* calls the other workers have posted
    calls,        \* calls they may still answer: <<task, frame>>
    frames,       \* Conn -> frames sent
    shut,         \* connections whose socket was shut down
    (* the loop *)
    pc, shutting_down, shutdown_triggered, more_ready, polled,
    mailbox, eventfd, mailbox_read, accept,
    (* the log: queued commits, those of the round in the slot, deadline *)
    log_queue, flushing, flush_io, flush_due,
    (* the registry, and what its tasks wait for *)
    ready_queue, completion_queue, op_registry, queued, notified,
    await, fired, io, timer

outside == <<stop, told, nudge, requests, calls>>
clients == <<frames, shut>>
loop == <<pc, shutting_down, shutdown_triggered, more_ready, polled>>
posted == <<mailbox, eventfd, mailbox_read, accept>>
log == <<log_queue, flushing, flush_io, flush_due>>
registry == <<ready_queue, completion_queue, op_registry, queued, notified>>
futures == <<await, fired, io, timer>>
vars == <<outside, clients, loop, posted, log, registry, futures>>

Init ==
    /\ stop = FALSE /\ told = FALSE /\ nudge = {} /\ requests = 0 /\ calls = {}
    /\ frames = [c \in Conn |-> 0] /\ shut = {}
    /\ pc = "top" /\ shutting_down = FALSE /\ shutdown_triggered = FALSE
    /\ more_ready = FALSE /\ polled = 0
    /\ mailbox = <<>> /\ eventfd = FALSE /\ mailbox_read = "none" /\ accept = "none"
    /\ log_queue = {} /\ flushing = {} /\ flush_io = "idle" /\ flush_due = FALSE
    /\ ready_queue = <<>> /\ completion_queue = <<>>
    /\ op_registry = {} /\ queued = {} /\ notified = {}
    /\ await = [t \in Task |-> "none"]
    /\ fired = [t \in Task |-> "no"]
    /\ io = [t \in Task |-> "none"]
    /\ timer = [t \in Task |-> "none"]

Work == requests + SumFunction(frames) + Cardinality({t \in RoundTask : await[t] # "none"})

(* The tasks in the registry, and connection_task_fds.                     *)
Tasks == {t \in Task : await[t] \notin {"none", "gone"}}
connection_task_fds == {c \in Conn : <<"conn", c>> \in Tasks}
-----------------------------------------------------------------------------
(* Mutant: the waker queues its op and does not nudge the loop.            *)
WakeQuietly(queue, T) ==
    /\ notified' = notified \cup T
    /\ completion_queue' = queue \o SetToSeq(T \ notified)
    /\ UNCHANGED eventfd

(* AsyncFuncTaskWaker::wake_by_ref, on the loop's own thread, of the       *)
(* current wakers of the tasks T: each one queues its op once, behind      *)
(* those of queue.                                                         *)
wake_by_ref(queue, T) ==
    /\ notified' = notified \cup T
    /\ completion_queue' = queue \o SetToSeq(T \ notified)
    /\ eventfd' = (eventfd \/ T \ notified # {})

(* The events that the tasks T await happen, with result r.                *)
Fire(T, r) ==
    /\ fired' = [t \in Task |-> IF t \in T THEN r ELSE fired[t]]
    /\ wake_by_ref(completion_queue, T)

(* WorkerTaskRegistry::spawn_with_trace_id.                                *)
spawn(t) ==
    /\ await' = [await EXCEPT ![t] = "new"]
    /\ ready_queue' = Append(ready_queue, t)

(* handle_mailbox_message: a request starts a handler, a response resolves *)
(* the call with its correlation id, if that still waits.                  *)
handle_mailbox_message(msg) ==
    CASE msg[1] = "Shutdown" ->
             /\ shutdown_triggered' = TRUE
             /\ UNCHANGED <<registry, futures, eventfd>>
      [] msg[1] = "request" ->
             /\ spawn(msg[2])
             /\ UNCHANGED <<shutdown_triggered, completion_queue, op_registry, queued,
                            notified, fired, io, timer, eventfd>>
      [] msg[1] = "response" ->
             LET t == msg[2]
             IN  /\ IF await[t] = "call" /\ fired[t] = "no" /\ frames[t[2]] = msg[3]
                    THEN Fire({t}, "ok")
                    ELSE UNCHANGED <<fired, notified, completion_queue, eventfd>>
                 /\ UNCHANGED <<shutdown_triggered, ready_queue, op_registry, queued,
                                await, io, timer>>

(* drain_messages, one message.                                            *)
HandleMessage ==
    /\ mailbox # <<>>
    /\ mailbox' = Tail(mailbox)
    /\ handle_mailbox_message(Head(mailbox))
    /\ UNCHANGED <<outside, clients, pc, shutting_down, more_ready, polled, mailbox_read,
                   accept, log>>

(* poll_flush_log, and with force also force_flush_log: a finished round   *)
(* resolves its commits; a free slot starts a round that is due.           *)
PollFlushLog(force) ==
    LET finished == flush_io = "done"
        start == /\ log_queue # {}
                 /\ flush_due \/ force
                 /\ flush_io = "idle" \/ (finished /\ force)
    IN  /\ Fire(IF finished THEN flushing ELSE {}, "ok")
        /\ flushing' = IF start THEN log_queue ELSE IF finished THEN {} ELSE flushing
        /\ log_queue' = IF start THEN {} ELSE log_queue
        /\ flush_due' = (flush_due /\ ~start)
        /\ flush_io' = IF start THEN "pending" ELSE IF finished THEN "idle" ELSE flush_io
-----------------------------------------------------------------------------
(* The top of run_service_loop: begin_shutdown, once.                      *)
Top ==
    /\ pc = "top"
    /\ LET stopping == stop \/ shutdown_triggered
       IN  /\ shutting_down' = (shutting_down \/ stopping)
           /\ shut' = IF stopping /\ ~shutting_down THEN shut \cup connection_task_fds ELSE shut
    /\ pc' = "mailbox"
    /\ UNCHANGED <<outside, frames, shutdown_triggered, more_ready, polled, posted, log,
                   registry, futures>>

DrainMailbox == pc = "mailbox" /\ ~shutting_down /\ HandleMessage

(* While shutting down the mailbox is left alone here, and the sockets are *)
(* shut down again; then the log is polled.                                *)
LeaveMailbox ==
    /\ pc = "mailbox"
    /\ shutting_down \/ mailbox = <<>>
    /\ shut' = IF shutting_down THEN shut \cup connection_task_fds ELSE shut
    /\ PollFlushLog(shutting_down)
    /\ pc' = "drain"
    /\ UNCHANGED <<outside, frames, shutting_down, shutdown_triggered, more_ready, polled,
                   mailbox, mailbox_read, accept, ready_queue, op_registry, queued,
                   await, io, timer>>

(* drain_completions: an op that is not registered is dropped, a task that *)
(* is already queued is not queued again.  Then wake_expired_ring_timeouts, *)
(* whose ops are drained in the next turn.                                 *)
DrainCompletions ==
    /\ pc = "drain"
    /\ LET resolved ==
               SelectSeq(completion_queue, LAMBDA t : t \in op_registry /\ t \notin queued)
           expired == {t \in Task : timer[t] = "expired"}
       IN  /\ ready_queue' = ready_queue \o resolved
           /\ queued' = queued \cup Range(resolved)
           /\ op_registry' = op_registry \ Range(completion_queue)
           /\ wake_by_ref(<<>>, expired)
           /\ timer' = [t \in Task |-> IF t \in expired THEN "popped" ELSE timer[t]]
    /\ polled' = 0
    /\ pc' = "poll"
    /\ UNCHANGED <<outside, clients, shutting_down, shutdown_triggered, more_ready, mailbox,
                   mailbox_read, accept, log, await, fired, io>>
-----------------------------------------------------------------------------
(* What the future of t sees when it is polled; a call is polled inside a  *)
(* RingTimeout, which looks at the clock after the call.                   *)
Seen(t) ==
    CASE await[t] = "new" -> "go"
      [] await[t] = "call" /\ fired[t] = "no" ->
             IF timer[t] \in {"expired", "popped"} THEN "timeout" ELSE "no"
      [] OTHER -> fired[t]

(* What t may await after seeing r; "gone" when its future is ready.       *)
NextAwait(t, r) ==
    CASE r = "no" -> {await[t]}
      [] r # "no" /\ t \in RoundTask -> {IF await[t] = "new" THEN "yield" ELSE "gone"}
      [] r # "no" /\ t \in HandlerTask -> {IF await[t] = "new" THEN "flush" ELSE "gone"}
      [] r # "no" /\ t \in ConnTask ->
             CASE await[t] = "new" -> {"read"}
               [] await[t] = "read" ->
                      IF r = "frame" THEN {"call", "flush", "external"} ELSE {"close"}
               [] await[t] = "write" -> {IF r = "ok" THEN "read" ELSE "gone"}
               [] await[t] = "close" -> {"gone"}
               [] OTHER -> {"write"}

(* poll_ready_budget, one task.  Every poll registers an op and a waker of *)
(* its own before the future runs, and gives up the op of the poll before: *)
(* so only the newest op of a task is kept, and a queued completion of an  *)
(* older one, which the drain would drop, goes here.  A future that is     *)
(* pending has the new waker; a cooperative yield wakes it at once.        *)
PollTask ==
    /\ pc = "poll" /\ ready_queue # <<>> /\ polled < Budget
    /\ LET t == Head(ready_queue)
           r == Seen(t)
           pending == SelectSeq(completion_queue, LAMBDA u : u # t)
       IN  \E a \in NextAwait(t, r) :
           LET begins(A) == r # "no" /\ a \in A
           IN  /\ queued' = queued \ {t}
               /\ op_registry' = IF a = "gone" THEN op_registry \ {t} ELSE op_registry \cup {t}
               /\ notified' = IF begins({"yield"}) THEN notified \cup {t} ELSE notified \ {t}
               /\ completion_queue' = IF begins({"yield"}) THEN Append(pending, t) ELSE pending
               /\ eventfd' = (eventfd \/ begins({"yield"}))
               /\ await' = [await EXCEPT ![t] = a]
               /\ fired' = [fired EXCEPT ![t] = IF begins({"yield"}) THEN "ok" ELSE "no"]
               /\ io' = [io EXCEPT ![t] =
                      IF begins({"read", "write", "close"}) THEN "pending" ELSE @]
               /\ timer' = [timer EXCEPT ![t] = IF a = "call" THEN "armed" ELSE "none"]
               /\ calls' = IF begins({"call"}) THEN calls \cup {<<t, frames[t[2]]>>} ELSE calls
               /\ log_queue' = IF begins({"flush"}) THEN log_queue \cup {t} ELSE log_queue
    /\ ready_queue' = Tail(ready_queue)
    /\ polled' = polled + 1
    /\ UNCHANGED <<stop, told, nudge, requests, clients, pc, shutting_down, shutdown_triggered,
                   more_ready, mailbox, mailbox_read, accept, flushing, flush_io, flush_due>>
-----------------------------------------------------------------------------
(* Mutant: the mailbox read is not armed while shutting down.              *)
MailboxReadUnlessShutdown ==
    mailbox_read' = IF mailbox_read = "none" /\ ~shutting_down THEN "armed" ELSE mailbox_read

submit_mailbox_read_if_needed ==
    mailbox_read' = IF mailbox_read = "none" THEN "armed" ELSE mailbox_read

submit_accept_if_needed ==
    accept' = IF accept = "none" /\ ~shutting_down THEN "armed" ELSE accept

(* The round that submit_fs_gc_round_if_due or                             *)
(* submit_page_flush_round_if_due spawns if it is due.                     *)
DueRounds ==
    IF stop \/ shutting_down \/ RoundTask \cap Tasks # {} \/ Work = MaxWork THEN {}
    ELSE {t \in RoundTask : /\ await[t] = "none"
                            /\ \A k \in 1..(t[2] - 1) : await[<<"round", k>>] = "gone"}

(* log_flushed: is_flush_idle.                                             *)
LogFlushed == flush_io = "idle" /\ log_queue = {}

(* No task is ready or the budget is spent: the submissions; then the loop *)
(* returns, goes on harvesting without blocking, or goes to wait.  The     *)
(* rounds are spawned after more_ready was computed.  The armed mailbox    *)
(* read is always in flight.                                               *)
Submit ==
    /\ pc = "poll"
    /\ ready_queue = <<>> \/ polled = Budget
    /\ more_ready' = (ready_queue # <<>>)
    /\ submit_mailbox_read_if_needed
    /\ submit_accept_if_needed
    /\ \/ UNCHANGED <<await, ready_queue>>
       \/ \E t \in DueRounds : spawn(t)
    /\ io' = [t \in Task |-> IF io[t] = "pending" THEN "inflight" ELSE io[t]]
    /\ flush_io' = IF flush_io = "pending" THEN "inflight" ELSE flush_io
    /\ pc' = IF shutting_down /\ Tasks = {} /\ LogFlushed THEN "returned"
             ELSE IF more_ready' THEN "cqes" ELSE "wait"
    /\ UNCHANGED <<outside, clients, shutting_down, shutdown_triggered, polled,
                   mailbox, eventfd, log_queue, flushing, flush_due, completion_queue,
                   op_registry, queued, notified, fired, timer>>

IoDone == {"frame", "eof", "ok", "err"}

CqeAvailable ==
    \/ mailbox_read = "cqe" \/ accept \in Conn \/ flush_io = "cqe"
    \/ \E t \in Task : io[t] \in IoDone

(* next_wait_timeout is over: a task's deadline has passed, or that of the *)
(* log's queue while the slot is free.                                     *)
WaitExpired ==
    \/ \E t \in Task : timer[t] = "expired"
    \/ flush_due /\ flush_io = "idle"

(* wait_for_cqe returns with a completion, or with ETIME.                  *)
WaitForCqe ==
    /\ pc = "wait"
    /\ CqeAvailable \/ WaitExpired
    /\ pc' = IF CqeAvailable THEN "cqes" ELSE "top"
    /\ UNCHANGED <<outside, clients, shutting_down, shutdown_triggered, more_ready, polled,
                   posted, log, registry, futures>>

(* process_cqe: the eventfd read; its messages are drained next.           *)
MailboxCqe ==
    /\ pc = "cqes" /\ mailbox_read = "cqe"
    /\ mailbox_read' = "none"
    /\ pc' = "messages"
    /\ UNCHANGED <<outside, clients, shutting_down, shutdown_triggered, more_ready, polled,
                   mailbox, eventfd, accept, log, registry, futures>>

DrainMessages == pc = "messages" /\ HandleMessage

LeaveMessages ==
    /\ pc = "messages" /\ mailbox = <<>>
    /\ pc' = "cqes"
    /\ UNCHANGED <<outside, clients, shutting_down, shutdown_triggered, more_ready, polled,
                   posted, log, registry, futures>>

(* process_cqe: an accepted connection gets its task.                      *)
AcceptCqe ==
    /\ pc = "cqes" /\ accept \in Conn
    /\ spawn(<<"conn", accept>>)
    /\ accept' = "none"
    /\ UNCHANGED <<outside, clients, loop, mailbox, eventfd, mailbox_read, log,
                   completion_queue, op_registry, queued, notified, fired, io, timer>>

(* process_cqe: an operation of a task; complete_op wakes it.              *)
UserIoCqe ==
    /\ pc = "cqes"
    /\ \E t \in Task :
        /\ io[t] \in IoDone
        /\ io' = [io EXCEPT ![t] = "none"]
        /\ Fire({t}, io[t])
    /\ UNCHANGED <<outside, clients, loop, mailbox, mailbox_read, accept, log, ready_queue,
                   op_registry, queued, await, timer>>

(* process_cqe: the write and sync of a log round.  Its future has a noop  *)
(* waker; the next poll of the log sees the result.                        *)
FlushCqe ==
    /\ pc = "cqes" /\ flush_io = "cqe"
    /\ flush_io' = "done"
    /\ UNCHANGED <<outside, clients, loop, posted, log_queue, flushing, flush_due, registry,
                   futures>>

(* No completion is left; after a wait the log is polled once more.        *)
LeaveCqes ==
    /\ pc = "cqes" /\ ~CqeAvailable
    /\ pc' = "top"
    /\ IF more_ready
       THEN UNCHANGED <<log, fired, notified, completion_queue, eventfd>>
       ELSE PollFlushLog(FALSE)
    /\ UNCHANGED <<outside, clients, shutting_down, shutdown_triggered, more_ready, polled,
                   mailbox, mailbox_read, accept, ready_queue, op_registry, queued,
                   await, io, timer>>

LoopStep ==
    \/ Top \/ DrainMailbox \/ LeaveMailbox
    \/ DrainCompletions \/ PollTask
    \/ Submit \/ WaitForCqe
    \/ MailboxCqe \/ DrainMessages \/ LeaveMessages
    \/ AcceptCqe \/ UserIoCqe \/ FlushCqe \/ LeaveCqes
-----------------------------------------------------------------------------
(* A thread outside pushes a message and goes on to write the eventfd.     *)
Post(thread, msg) ==
    /\ thread \notin nudge
    /\ mailbox' = Append(mailbox, msg)
    /\ nudge' = nudge \cup {thread}
    /\ UNCHANGED <<clients, loop, eventfd, mailbox_read, accept, log, registry, futures>>

(* The shutdown notifier: the flag, then the message.                      *)
RequestStop ==
    /\ ~stop
    /\ stop' = TRUE
    /\ UNCHANGED <<told, nudge, requests, calls, clients, loop, posted, log, registry, futures>>

NotifyShutdown ==
    /\ stop /\ ~told
    /\ told' = TRUE
    /\ Post("notifier", <<"Shutdown">>)
    /\ UNCHANGED <<stop, requests, calls>>

(* Another worker's dispatch_mailbox_message: a call to this worker, or    *)
(* the answer to one of this worker's calls, in time or not.               *)
PeerCalls ==
    /\ Work < MaxWork
    /\ requests' = requests + 1
    /\ Post("peer", <<"request", <<"handler", requests + 1>>>>)
    /\ UNCHANGED <<stop, told, calls>>

PeerAnswers ==
    \E call \in calls :
        /\ calls' = calls \ {call}
        /\ Post("peer", <<"response", call[1], call[2]>>)
        /\ UNCHANGED <<stop, told, requests>>

(* A thread outside resolves what a task awaits and wakes it.              *)
ExternalWake(t) ==
    /\ await[t] = "external" /\ fired[t] = "no" /\ "helper" \notin nudge
    /\ fired' = [fired EXCEPT ![t] = "ok"]
    /\ notified' = notified \cup {t}
    /\ completion_queue' = Append(completion_queue, t)
    /\ nudge' = nudge \cup {"helper"}
    /\ UNCHANGED <<stop, told, requests, calls, clients, loop, posted, log, ready_queue,
                   op_registry, queued, await, io, timer>>

(* The eventfd write that follows a push.                                  *)
notify_eventfd(thread) ==
    /\ thread \in nudge
    /\ nudge' = nudge \ {thread}
    /\ eventfd' = TRUE
    /\ UNCHANGED <<stop, told, requests, calls, clients, loop, mailbox, mailbox_read, accept,
                   log, registry, futures>>
-----------------------------------------------------------------------------
(* The kernel.  An armed read of the eventfd takes its count.              *)
EventfdReady ==
    /\ mailbox_read = "armed" /\ eventfd
    /\ mailbox_read' = "cqe"
    /\ eventfd' = FALSE
    /\ UNCHANGED <<outside, clients, loop, mailbox, accept, log, registry, futures>>

Connects(c) ==
    /\ pc # "returned"
    /\ accept = "armed" /\ await[<<"conn", c>>] = "none"
    /\ accept' = c
    /\ UNCHANGED <<outside, clients, loop, mailbox, eventfd, mailbox_read, log, registry,
                   futures>>

IoResult(t, r) ==
    /\ io[t] = "inflight"
    /\ io' = [io EXCEPT ![t] = r]
    /\ UNCHANGED <<outside, shut, loop, posted, log, registry, await, fired, timer>>

(* The client sends a frame or closes.                                     *)
ClientActs(t) ==
    /\ await[t] = "read"
    /\ \/ /\ Work < MaxWork
          /\ frames' = [frames EXCEPT ![t[2]] = @ + 1]
          /\ IoResult(t, "frame")
       \/ IoResult(t, "eof") /\ UNCHANGED frames

(* What completes without the client: reading or writing a socket that was *)
(* shut down, writing a response, closing.                                 *)
IoCompletes(t) ==
    /\ \/ await[t] = "read" /\ t[2] \in shut /\ IoResult(t, "eof")
       \/ await[t] = "write" /\ IoResult(t, IF t[2] \in shut THEN "err" ELSE "ok")
       \/ await[t] = "close" /\ IoResult(t, "ok")
    /\ UNCHANGED frames

FlushCompletes ==
    /\ flush_io = "inflight"
    /\ flush_io' = "cqe"
    /\ UNCHANGED <<outside, clients, loop, posted, log_queue, flushing, flush_due, registry,
                   futures>>

(* Time passes: the deadline of a call, the max_wait of queued commits.    *)
TimerExpires(t) ==
    /\ timer[t] = "armed"
    /\ timer' = [timer EXCEPT ![t] = "expired"]
    /\ UNCHANGED <<outside, clients, loop, posted, log, registry, await, fired, io>>

FlushDue ==
    /\ log_queue # {} /\ ~flush_due
    /\ flush_due' = TRUE
    /\ UNCHANGED <<outside, clients, loop, posted, log_queue, flushing, flush_io, registry,
                   futures>>
-----------------------------------------------------------------------------
Threads == {"notifier", "peer", "helper"}

(* What happens without a client or another worker having to act.          *)
Environment ==
    \/ NotifyShutdown \/ EventfdReady \/ FlushCompletes \/ FlushDue
    \/ \E t \in ConnTask : ExternalWake(t) \/ IoCompletes(t) \/ TimerExpires(t)
    \/ \E s \in Threads : notify_eventfd(s)

Next ==
    \/ LoopStep
    \/ Environment
    \/ RequestStop \/ PeerCalls \/ PeerAnswers
    \/ \E c \in Conn : Connects(c)
    \/ \E t \in ConnTask : ClientActs(t)

Spec == Init /\ [][Next]_vars

(* The thread is scheduled; and the kernel, the clock and the threads      *)
(* outside do not all stop with something left to do.  The work is finite, *)
(* so that nobody can be overtaken for ever, and no more is needed.        *)
Fairness == WF_vars(LoopStep) /\ WF_vars(Environment)

FairSpec == Spec /\ Fairness
-----------------------------------------------------------------------------
(* Types of the loop, the queues, the log and the awaits.                 *)
TypeOK ==
    /\ {stop, told, eventfd, flush_due, shutting_down, shutdown_triggered, more_ready}
           \subseteq BOOLEAN
    /\ nudge \subseteq Threads /\ requests \in 0..MaxWork
    /\ shut \subseteq Conn /\ frames \in [Conn -> 0..MaxWork] /\ polled \in 0..Budget
    /\ pc \in {"top", "mailbox", "drain", "poll", "wait", "cqes", "messages",
               "returned"}
    /\ mailbox_read \in {"none", "armed", "cqe"} /\ accept \in {"none", "armed"} \cup Conn
    /\ flush_io \in {"idle", "pending", "inflight", "cqe", "done"}
    /\ log_queue \cup flushing \cup queued \cup notified \cup Range(ready_queue)
           \subseteq Task
    /\ op_registry \subseteq Tasks
    /\ io \in [Task -> {"none", "pending", "inflight"} \cup IoDone]
    /\ timer \in [Task -> {"none", "armed", "expired", "popped"}]

Runnable(t) ==
    \/ fired[t] # "no"
    \/ timer[t] \in {"expired", "popped"}
    \/ await[t] = "new" /\ t \notin RoundTask

(* A task whose event happened or whose deadline passed, and a new         *)
(* connection or handler, is polled again: whatever thread the wake comes  *)
(* from, at whatever point of the loop, also while shutting down.  This is *)
(* what the nudge of wake_by_ref and the armed mailbox read are for.       *)
WokenIsPolled == \A t \in Task : Runnable(t) ~> ~Runnable(t)

(* A stop request ends the loop, although tasks wait for clients, for      *)
(* workers that never answer and for the log, and although connections and *)
(* calls still arrive.                                                     *)
ShutdownCompletes == stop ~> pc = "returned"

(* "Tasks are still queued: do not block in wait_for_cqe" (runtime.rs).    *)
(* Fails for the periodic rounds, which are queued after that test.        *)
NeverBlocksOnReady == pc = "wait" => ready_queue = <<>>
==============================================================================
