---------------------------- MODULE TaskManager ----------------------------
(***************************************************************************)
(* The background tasks of a transport and how they stop: TaskManager      *)
(* (crates/transport/src/util/task_manager.rs) and the loops and handles   *)
(* of the actors (crates/transport/src/actors).  A behaviour is the life   *)
(* of one transport of one kind.  Handlers of swarm events do not await,   *)
(* so that a loop takes one step per event; the function of a periodic     *)
(* task awaits, possibly for ever.  The swarm and the user of the handle   *)
(* are external.                                                           *)
(***************************************************************************)
EXTENDS Naturals, FiniteSets

CONSTANTS
  Kinds,       \* the kinds of transports, below
  QueueSize,   \* the size of the transport's queue
  MaxHandles   \* bound: the clones of a handle

VARIABLES
  kind,       \* what transport it is
  handles,    \* handles alive
  cancelled,  \* TaskManager::cancel_token
  own,        \* a periodic task cancelled its own token
  task,       \* per task: "waiting" in select!, "running" its function, "ended"
  join,       \* per task: its timeout(handle) in await_stop
  queued,     \* events in the queue
  consumer    \* the reader of the queue: "reading" or "ended"

vars == <<kind, handles, cancelled, own, task, join, queued, consumer>>

-----------------------------------------------------------------------------
(***************************************************************************)
(* What start_transport spawns and returns: the tasks, whether a handle    *)
(* can be cloned, who reads the events the loop passes on, and whether the *)
(* loop notices its cancellation in a select!, which picks any branch that *)
(* is ready, or by take_until, which looks at it before the next event.    *)
(***************************************************************************)

PortalTransport ==
  [tasks |-> {"run", "listeners"}, clone |-> TRUE, reader |-> "listeners", select |-> TRUE]

WorkerTransport ==
  [tasks |-> {"run"}, clone |-> TRUE, reader |-> "user", select |-> TRUE]

ObserverTransport ==
  [tasks |-> {"run"}, clone |-> TRUE, reader |-> "user", select |-> TRUE]

PortalLogsCollectorTransport ==
  [tasks |-> {"run"}, clone |-> TRUE, reader |-> "user", select |-> TRUE]

\* the events of the swarm are only logged
PingsCollectorTransport ==
  [tasks |-> {"run"}, clone |-> TRUE, reader |-> "none", select |-> TRUE]

LogsCollectorTransport ==
  [tasks |-> {"run"}, clone |-> FALSE, reader |-> "none", select |-> FALSE]

\* the events go to a broadcast channel, which nobody has to read
SQLClientTransport ==
  [tasks |-> {"run"}, clone |-> FALSE, reader |-> "none", select |-> FALSE]

\* a manager with one task of spawn_periodic
Periodic ==
  [tasks |-> {"periodic"}, clone |-> FALSE, reader |-> "none", select |-> TRUE]

Transport ==
  CASE kind = "portal" -> PortalTransport
    [] kind = "worker" -> WorkerTransport
    [] kind = "observer" -> ObserverTransport
    [] kind = "portal_logs_collector" -> PortalLogsCollectorTransport
    [] kind = "pings_collector" -> PingsCollectorTransport
    [] kind = "logs_collector" -> LogsCollectorTransport
    [] kind = "sql_client" -> SQLClientTransport
    [] kind = "periodic" -> Periodic

AllTasks == {"run", "listeners", "periodic"}

Init ==
  /\ kind \in Kinds
  /\ handles = 1
  /\ cancelled = FALSE /\ own = FALSE
  /\ task = [t \in AllTasks |-> IF t \in Transport.tasks THEN "waiting" ELSE "ended"]
  /\ join = [t \in AllTasks |-> "none"]
  /\ queued = 0
  /\ consumer = IF Transport.reader = "user" THEN "reading" ELSE "ended"

-----------------------------------------------------------------------------
(***************************************************************************)
(* The tasks                                                               *)
(***************************************************************************)

IsCancelled(t) == cancelled \/ (own /\ t = "periodic")

\* the branch of select! that breaks the loop; with the loop goes the swarm,
\* and with it the sender of the queue
Breaks(t) ==
  /\ task[t] = "waiting" /\ IsCancelled(t)
  /\ task' = [task EXCEPT ![t] = "ended"]
  /\ UNCHANGED <<kind, handles, cancelled, own, join, queued, consumer>>

\* on_swarm_event, with send_lossy
on_swarm_event ==
  /\ task["run"] = "waiting"
  /\ cancelled => Transport.select
  /\ queued' = IF Transport.reader # "none" /\ queued < QueueSize THEN queued + 1 ELSE queued
  /\ UNCHANGED <<kind, handles, cancelled, own, task, join, consumer>>

\* the portal's second task stores the list; once the sender is gone this
\* branch of its select! is disabled
StoreListeners ==
  /\ task["listeners"] = "waiting" /\ Transport.reader = "listeners"
  /\ queued > 0
  /\ queued' = queued - 1
  /\ UNCHANGED <<kind, handles, cancelled, own, task, join, consumer>>

\* the tick of spawn_periodic's interval, and f(cancel_token.clone())
Tick ==
  /\ task["periodic"] = "waiting"
  /\ task' = [task EXCEPT !["periodic"] = "running"]
  /\ UNCHANGED <<kind, handles, cancelled, own, join, queued, consumer>>

\* f returns, and may have cancelled the token it was given
FunctionReturns(cancels) ==
  /\ task["periodic"] = "running"
  /\ task' = [task EXCEPT !["periodic"] = "waiting"]
  /\ own' = (own \/ cancels)
  /\ UNCHANGED <<kind, handles, cancelled, join, queued, consumer>>

-----------------------------------------------------------------------------
(***************************************************************************)
(* The handle and the manager                                              *)
(***************************************************************************)

CloneHandle ==
  /\ Transport.clone /\ handles \in 1..(MaxHandles - 1)
  /\ handles' = handles + 1
  /\ UNCHANGED <<kind, cancelled, own, task, join, queued, consumer>>

\* mutant: dropping the manager does not cancel its tasks
DropWithoutCancel ==
  /\ handles > 0
  /\ handles' = handles - 1
  /\ join' = IF handles = 1 THEN [t \in AllTasks |-> "waiting"] ELSE join
  /\ UNCHANGED <<kind, cancelled, own, task, queued, consumer>>

\* the last handle drops the manager, which cancels its tasks and waits for
\* all of them at once (await_stop)
DropHandle ==
  /\ handles > 0
  /\ handles' = handles - 1
  /\ IF handles = 1
     THEN cancelled' = TRUE /\ join' = [t \in AllTasks |-> "waiting"]
     ELSE UNCHANGED <<cancelled, join>>
  /\ UNCHANGED <<kind, own, task, queued, consumer>>

\* mutant: a task that does not end is waited for
AwaitEndOf(t) ==
  /\ join[t] = "waiting" /\ task[t] = "ended"
  /\ join' = [join EXCEPT ![t] = "done"]
  /\ UNCHANGED <<kind, handles, cancelled, own, task, queued, consumer>>

\* timeout(shutdown_timeout, handle): the task ended, or is left to itself
await_stop(t) ==
  /\ join[t] = "waiting"
  /\ \/ task[t] = "ended" /\ join' = [join EXCEPT ![t] = "done"]
     \/ task[t] # "ended" /\ join' = [join EXCEPT ![t] = "timeout"]
  /\ UNCHANGED <<kind, handles, cancelled, own, task, queued, consumer>>

\* the stream start_transport returned: an event, or the end once the sender
\* is gone and the queue is empty
recv ==
  /\ Transport.reader = "user" /\ consumer = "reading"
  /\ \/ /\ queued > 0
        /\ queued' = queued - 1
        /\ UNCHANGED consumer
     \/ /\ queued = 0 /\ task["run"] = "ended"
        /\ consumer' = "ended"
        /\ UNCHANGED queued
  /\ UNCHANGED <<kind, handles, cancelled, own, task, join>>

-----------------------------------------------------------------------------
Next ==
  \/ \E t \in AllTasks : Breaks(t) \/ await_stop(t)
  \/ on_swarm_event \/ StoreListeners \/ Tick \/ \E cancels \in BOOLEAN : FunctionReturns(cancels)
  \/ CloneHandle \/ DropHandle \/ recv

-----------------------------------------------------------------------------
(***************************************************************************)
(* Properties                                                              *)
(***************************************************************************)

Stuck(t) == task[t] = "running"

\* "This ensures that transport is stopped when the last handle is dropped"
\* (actors/portal.rs:115, worker.rs:252): the drop returns although a task may
\* never end, every task that is not stuck in its function ends, also if its
\* swarm never runs out of events, and the stream of events a user keeps
\* reading ends after those that were queued.  "Task can break its driving loop
\* by calling .cancel() on the token passed to it" (task_manager.rs:58), while
\* the manager runs on.
HandleStops ==
  /\ handles = 0 ~> \A t \in AllTasks : join[t] \in {"done", "timeout"}
  /\ \A t \in AllTasks : handles = 0 ~> task[t] = "ended" \/ []Stuck(t)
  /\ handles = 0 ~> consumer = "ended"
  /\ own ~> task["periodic"] = "ended" \/ []Stuck("periodic")
=============================================================================
