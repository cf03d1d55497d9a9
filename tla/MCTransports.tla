---------------------------- MODULE MCTransports ----------------------------
(***************************************************************************)
(* Instances of the models of the transports for TLC, one of them in each  *)
(* behaviour: the list of collectors (LogListeners), the logs sent to them *)
(* (PortalLogs), the tasks of a transport (TaskManager), and the streams   *)
(* that keep connections (KeepAlive)                                       *)
(***************************************************************************)
EXTENDS LogListeners, PortalLogs, KeepAlive

CONSTANTS Kinds, MaxHandles

VARIABLES
  scenario,
  kind, handles, cancelled, own, task, join, queued, consumer

tasksVars == <<kind, handles, cancelled, own, task, join, queued, consumer>>
allVars == <<scenario, listenVars, logsVars, tasksVars, keepVars>>

T == INSTANCE TaskManager

TransportsInit ==
  /\ scenario \in {"listeners", "logs", "tasks", "keep_alive"}
  /\ ListenInit /\ LogsInit /\ T!Init /\ KeepInit
  /\ scenario # "tasks" => kind = "portal"
  /\ scenario # "keep_alive" => active = {}

TransportsNext ==
  /\ \/ scenario = "listeners" /\ ListenNext /\ UNCHANGED <<logsVars, tasksVars, keepVars>>
     \/ scenario = "logs" /\ LogsNext /\ UNCHANGED <<listenVars, tasksVars, keepVars>>
     \/ scenario = "tasks" /\ T!Next /\ UNCHANGED <<listenVars, logsVars, keepVars>>
     \/ scenario = "keep_alive" /\ KeepNext /\ UNCHANGED <<listenVars, logsVars, tasksVars>>
  /\ UNCHANGED scenario

\* As in LogListeners: the portal's tasks run, Kademlia ends every query, stores
\* and expires records; identify is repeated on every connection.
ListenersFairness ==
  LET is == scenario = "listeners" /\ UNCHANGED <<scenario, logsVars, tasksVars, keepVars>> IN
  /\ WF_allVars(is /\ update_portal_logs_listeners)
  /\ \A q \in QueryIds : WF_allVars(is /\ QueryEnds(q))
  /\ WF_allVars(is /\ ReceiveListeners)
  /\ \A c \in Collectors :
       /\ WF_allVars(is /\ Provide(c)) /\ WF_allVars(is /\ Expire(c))
       /\ WF_allVars(is /\ on_identify_event(c, FALSE))

\* A call of send_logs is polled, and its timeouts expire.
LogsFairness ==
  LET is == scenario = "logs" /\ UNCHANGED <<scenario, listenVars, tasksVars, keepVars>> IN
  \A s \in Sends :
    /\ WF_allVars(is /\ publish_portal_logs(s))
    /\ \A c \in LogCollectors : WF_allVars(is /\ SendingFails(s, c))

\* Tasks are scheduled, and select! picks every branch that is ready again and
\* again with some probability; the timeouts of await_stop expire.  The user
\* reads the stream of events.
TasksFairness ==
  LET is == scenario = "tasks" /\ UNCHANGED <<scenario, listenVars, logsVars, keepVars>> IN
  /\ \A t \in T!AllTasks : SF_allVars(is /\ T!Breaks(t)) /\ WF_allVars(is /\ T!await_stop(t))
  /\ WF_allVars(is /\ T!recv)

\* Tasks are scheduled and the server's swarm is polled; dials and negotiations
\* time out, as do connections that stay idle.
KeepFairness ==
  LET is == scenario = "keep_alive" /\ UNCHANGED <<scenario, listenVars, logsVars, tasksVars>> IN
  /\ WF_allVars(is /\ poll)
  /\ \A n \in Conns :
       /\ WF_allVars(is /\ open_stream(n)) /\ WF_allVars(is /\ OpenerEnds(n))
       /\ WF_allVars(is /\ ReadReturns(n)) /\ WF_allVars(is /\ IdleTimeout(n))

FairTransports ==
  /\ TransportsInit /\ [][TransportsNext]_allVars
  /\ ListenersFairness /\ LogsFairness /\ TasksFairness /\ KeepFairness

-----------------------------------------------------------------------------
\* TaskManager: dropping the last handle stops the transport (await_stop), and
\* a periodic task can break its own loop (spawn_periodic).
HandleStops == T!HandleStops
=============================================================================
