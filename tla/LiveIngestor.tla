---------------------------- MODULE LiveIngestor ----------------------------
(***************************************************************************)
(* ResilientLiveIngestor: a producer that puts packets in a bounded queue  *)
(* and a worker that writes them to the vault. Both run on one event loop: *)
(* an action is what a task does between two awaits that suspend it.       *)
(* Queue.get suspends only while the queue is empty, and the write is      *)
(* synchronous, so a worker that wakes goes on until the queue is empty or *)
(* is_running is cleared. The end comes from outside, when wait_for times  *)
(* out and cancels the pipeline: is_running is cleared, then join waits    *)
(* until every packet has been marked as done.                             *)
(***************************************************************************)
EXTENDS Integers

CONSTANTS MaxQueue,    \* max_queue_size
          MaxPackets,  \* packets of a session
          MaxSessions  \* bound of the model

ASSUME IngestorAssumption ==
    MaxQueue \in Nat \ {0} /\ MaxPackets \in Nat /\ MaxSessions \in Nat

VARIABLES producer,    \* _network_stream_supervisor, then the finally of the pipeline
          worker,      \* _async_database_worker
          running,     \* is_running
          queue,       \* event_queue.qsize()
          unfinished,  \* packets put and not yet marked with task_done
          session_tick, sessions,
          dropped, written   \* corrupt_dropped and db_sync_count of this session

ingestorVars == <<producer, worker, running, queue, unfinished, session_tick, sessions,
                  dropped, written>>

IngestorInit ==
    /\ producer = "connecting" /\ worker = "waiting" /\ running = TRUE
    /\ queue = 0 /\ unfinished = 0
    /\ session_tick = 0 /\ sessions = 0
    /\ dropped = 0 /\ written = 0

\* The handshake is over. The first packet follows without an await.
Connected ==
    /\ producer = "connecting" /\ sessions < MaxSessions
    /\ producer' = "streaming"
    /\ sessions' = sessions + 1 /\ session_tick' = 0
    /\ dropped' = 0 /\ written' = 0
    /\ UNCHANGED <<worker, running, queue, unfinished>>

\* A packet is put, which wakes a waiting worker, and the producer sleeps: a
\* woken worker is ahead of every timer in the list of ready tasks. At a full
\* queue packets are dropped without a pause, to the end of the session.
Stream ==
    /\ producer = "streaming" /\ session_tick < MaxPackets
    /\ worker # "woken"
    /\ IF queue = MaxQueue
         THEN /\ dropped' = dropped + (MaxPackets - session_tick)
              /\ session_tick' = MaxPackets
              /\ UNCHANGED <<worker, queue, unfinished>>
         ELSE /\ queue' = queue + 1 /\ unfinished' = unfinished + 1
              /\ worker' = IF worker = "waiting" THEN "woken" ELSE worker
              /\ session_tick' = session_tick + 1
              /\ UNCHANGED dropped
    /\ UNCHANGED <<producer, running, sessions, written>>

\* The connection drops at the end of the session; the producer waits and connects again.
Reconnect ==
    /\ producer = "streaming" /\ session_tick = MaxPackets
    /\ producer' = "connecting"
    /\ UNCHANGED <<worker, running, queue, unfinished, session_tick, sessions, dropped, written>>

\* Faulty variant: the write is awaited, and others run in the meantime.
Drain_Awaits ==
    /\ \/ /\ worker = "woken"
          /\ worker' = "writing" /\ queue' = queue - 1
          /\ UNCHANGED <<unfinished, written>>
       \/ /\ worker = "writing"
          /\ worker' = IF ~ running THEN "ended" ELSE IF queue > 0 THEN "woken" ELSE "waiting"
          /\ unfinished' = unfinished - 1 /\ written' = written + 1
          /\ UNCHANGED queue
    /\ UNCHANGED <<producer, running, session_tick, sessions, dropped>>

\* The worker runs: all packets of the queue while is_running, one if it has been
\* cleared. A write that fails, because the vault is locked, counts as a drop.
Drain ==
    /\ worker = "woken"
    /\ LET taken == IF running THEN queue ELSE 1
       IN  /\ queue' = queue - taken /\ unfinished' = unfinished - taken
           /\ \E failed \in 0 .. taken :
                dropped' = dropped + failed /\ written' = written + taken - failed
    /\ worker' = IF running THEN "waiting" ELSE "ended"
    /\ UNCHANGED <<producer, running, session_tick, sessions>>

\* The pipeline is cancelled, at whichever await it is.
Cancel ==
    /\ producer \in {"connecting", "streaming"}
    /\ producer' = "joining" /\ running' = FALSE
    /\ UNCHANGED <<worker, queue, unfinished, session_tick, sessions, dropped, written>>

\* join waits. (The loop goes on turning, whether or not a task will come.)
Join == producer = "joining" /\ unfinished > 0 /\ UNCHANGED ingestorVars

\* join returns and the tasks are cancelled.
Close ==
    /\ producer = "joining" /\ unfinished = 0
    /\ producer' = "closed" /\ worker' = "ended"
    /\ UNCHANGED <<running, queue, unfinished, session_tick, sessions, dropped, written>>

IngestorDone == producer = "closed" /\ UNCHANGED ingestorVars

IngestorNext ==
    Connected \/ Stream \/ Reconnect \/ Drain \/ Cancel \/ Join \/ Close \/ IngestorDone

\* A task that is ready is run by the event loop.
IngestorFairness == WF_ingestorVars(Drain) /\ WF_ingestorVars(Close)

IngestorSpec == IngestorInit /\ [][IngestorNext]_ingestorVars /\ IngestorFairness

-----------------------------------------------------------------------------

\* A cancelled pipeline comes to its end: join is never left waiting for a
\* packet that the worker, which stops on is_running, will not take.
ShutdownCompletes == producer = "joining" ~> producer = "closed"

=============================================================================
