---------------------------- MODULE HTTPWorkerPool ----------------------------
(***************************************************************************)
(* The thread pool of the HTTP service (LocalHTTPServer in                 *)
(* ida_nexus/_http.py): the listener queues connections, worker threads    *)
(* take them and serve each to its end, which for a lease or an event      *)
(* stream comes only when its client leaves; server_close drains the pool. *)
(* A step is one region of _worker_condition or one operation of the queue.*)
(* The module can be extended beside another one of the same process: its  *)
(* specification is PoolSpec.                                              *)
(***************************************************************************)
EXTENDS Naturals, Sequences, FiniteSets

CONSTANTS Conns,      \* connections the listener may accept
          Workers,    \* worker threads that may ever be started
          Prewarm,    \* PREWARM_HANDLER_THREADS
          MaxIdle,    \* MAX_IDLE_HANDLER_THREADS
          Stop        \* the None that ends a worker

VARIABLES
  requests,   \* _request_queue
  count,      \* _worker_count
  idle,       \* _idle_worker_count
  closing,    \* _closing_workers
  active,     \* _active_connections
  status,     \* each connection
  worker,     \* each worker's step
  item,       \* what it took from the queue
  closer,     \* server_close's step
  doomed,     \* the connections server_close has still to interrupt
  cut         \* connections whose socket server_close has shut down

workerVars == <<worker, item>>
closeVars  == <<closer, doomed, cut>>
poolVars == <<requests, count, idle, closing, active, status, workerVars, closeVars>>

Statuses == {"new", "queued", "taken", "serving", "shut"}
WorkerStates == {"none", "top", "waiting", "got", "stopping", "taken", "serving",
                 "shutting", "gone"}
CloserStates == {"idle", "cutting", "waiting", "done"}

\* The prewarmed workers may still be on their way to the queue.
PoolInit ==
  /\ requests = <<>> /\ closing = FALSE /\ active = {}
  /\ status = [c \in Conns |-> "new"]
  /\ \E started \in SUBSET Workers :
       /\ IsFiniteSet(started) /\ Cardinality(started) = Prewarm
       /\ worker = [w \in Workers |-> IF w \in started THEN "top" ELSE "none"]
  /\ count = Prewarm /\ idle = 0
  /\ item = [w \in Workers |-> Stop]
  /\ closer = "idle" /\ doomed = {} /\ cut = {}

WorkerAt(w, from, to) == /\ worker[w] = from
                         /\ worker' = [worker EXCEPT ![w] = to]

-----------------------------------------------------------------------------
(* The listener: process_request.                                           *)

\* A new thread is started only when no worker counts as idle; a worker that
\* has been given a connection counts until it enters its next region.
StartsWorker ==
  IF idle = 0
  THEN /\ count' = count + 1
       /\ \E w \in Workers : WorkerAt(w, "none", "top")
  ELSE UNCHANGED <<count, worker>>

Accept(c) ==
  /\ status[c] = "new"
  /\ IF closing
     THEN /\ status' = [status EXCEPT ![c] = "shut"]
          /\ UNCHANGED <<requests, count, worker>>
     ELSE /\ status' = [status EXCEPT ![c] = "queued"]
          /\ requests' = Append(requests, c)
          /\ StartsWorker
  /\ UNCHANGED <<idle, closing, active, item, closeVars>>

-----------------------------------------------------------------------------
(* A worker: _connection_worker.                                            *)

Superfluous == closing \/ (idle >= MaxIdle /\ count > Prewarm)

\* The top of its loop: it ends, or it is idle from here on.
WorkerEnters(w) ==
  /\ IF Superfluous
     THEN WorkerAt(w, "top", "gone") /\ count' = count - 1 /\ UNCHANGED idle
     ELSE WorkerAt(w, "top", "waiting") /\ idle' = idle + 1 /\ UNCHANGED count
  /\ UNCHANGED <<requests, closing, active, status, item, closeVars>>

WorkerGets(w) ==
  /\ requests # <<>>
  /\ WorkerAt(w, "waiting", "got")
  /\ item' = [item EXCEPT ![w] = Head(requests)]
  /\ requests' = Tail(requests)
  /\ status' = IF Head(requests) = Stop THEN status
               ELSE [status EXCEPT ![Head(requests)] = "taken"]
  /\ UNCHANGED <<count, idle, closing, active, closeVars>>

WorkerCounts(w) ==
  /\ WorkerAt(w, "got", IF item[w] = Stop THEN "stopping" ELSE "taken")
  /\ idle' = idle - 1
  /\ UNCHANGED <<requests, count, closing, active, status, item, closeVars>>

WorkerStops(w) ==
  /\ WorkerAt(w, "stopping", "gone")
  /\ count' = count - 1
  /\ UNCHANGED <<requests, idle, closing, active, status, item, closeVars>>

\* A connection taken before server_close began is not served after it.
WorkerAdmits(w) ==
  /\ IF closing
     THEN /\ WorkerAt(w, "taken", "top")
          /\ status' = [status EXCEPT ![item[w]] = "shut"]
          /\ item' = [item EXCEPT ![w] = Stop]
          /\ UNCHANGED active
     ELSE /\ WorkerAt(w, "taken", "serving")
          /\ status' = [status EXCEPT ![item[w]] = "serving"]
          /\ active' = active \cup {item[w]}
          /\ UNCHANGED item
  /\ UNCHANGED <<requests, count, idle, closing, closeVars>>

\* finish_request returns: the client left, or its socket was shut.
WorkerFinishes(w) ==
  /\ WorkerAt(w, "serving", "shutting")
  /\ active' = active \ {item[w]}
  /\ UNCHANGED <<requests, count, idle, closing, status, item, closeVars>>

WorkerShuts(w) ==
  /\ WorkerAt(w, "shutting", "top")
  /\ status' = [status EXCEPT ![item[w]] = "shut"]
  /\ item' = [item EXCEPT ![w] = Stop]
  /\ UNCHANGED <<requests, count, idle, closing, active, closeVars>>

-----------------------------------------------------------------------------
(* server_close.                                                            *)

\* One region: nothing is admitted from here on, what is queued is shut, and
\* every worker counted finds a None to stop it.
CloseStarts ==
  /\ closer = "idle" /\ closer' = "cutting"
  /\ closing' = TRUE
  /\ doomed' = active
  /\ status' = [c \in Conns |-> IF status[c] = "queued" THEN "shut" ELSE status[c]]
  /\ requests' = [i \in 1..count |-> Stop]
  /\ UNCHANGED <<count, idle, active, workerVars, cut>>

CloseCuts ==
  /\ closer = "cutting"
  /\ closer' = "waiting"
  /\ cut' = doomed /\ doomed' = {}
  /\ UNCHANGED <<requests, count, idle, closing, active, status, workerVars>>

\* It waits for the workers for one second at most.
CloseWaits ==
  /\ closer = "waiting"
  /\ closer' = "done"
  /\ UNCHANGED <<requests, count, idle, closing, active, status, workerVars, doomed, cut>>

-----------------------------------------------------------------------------
WorkerProgress(w) == \/ WorkerEnters(w) \/ WorkerGets(w) \/ WorkerCounts(w)
                     \/ WorkerStops(w) \/ WorkerAdmits(w) \/ WorkerShuts(w)
WorkerSteps(w) == WorkerProgress(w) \/ WorkerFinishes(w)
CloseSteps == CloseStarts \/ CloseCuts \/ CloseWaits

PoolNext == \/ \E c \in Conns : Accept(c)
            \/ \E w \in Workers : WorkerSteps(w)
            \/ CloseSteps

PoolSpec == PoolInit /\ [][PoolNext]_poolVars

\* Threads run and server_close goes on once called; a connection that is
\* served ends when its client likes, or when its socket was shut.
PoolFairSpec ==
  /\ PoolSpec
  /\ \A w \in Workers : /\ WF_poolVars(WorkerProgress(w))
                        /\ WF_poolVars(item[w] \in cut /\ WorkerFinishes(w))
  /\ WF_poolVars(CloseCuts) /\ WF_poolVars(CloseWaits)

-----------------------------------------------------------------------------
PoolTypeOK ==
  /\ requests \in Seq(Conns \cup {Stop})
  /\ count \in Nat /\ idle \in Nat /\ closing \in BOOLEAN
  /\ active \subseteq Conns
  /\ status \in [Conns -> Statuses]
  /\ worker \in [Workers -> WorkerStates] /\ item \in [Workers -> Conns \cup {Stop}]
  /\ closer \in CloserStates /\ doomed \subseteq Conns /\ cut \subseteq Conns

Running == {w \in Workers : worker[w] \notin {"none", "gone"}}
Idle    == {w \in Workers : worker[w] \in {"waiting", "got"}}

\* _worker_count and _idle_worker_count are what they say: no path through
\* the loop of a worker forgets to count it in or out.
CountsExact == count = Cardinality(Running) /\ idle = Cardinality(Idle)

\* server_close ends the service: nothing is queued any more, and a
\* connection that is still served has had its socket shut, so that its
\* worker will find it at an end; none slips in between queue and handler.
ClosedLeavesNothing ==
  /\ closing => \A c \in Conns : status[c] # "queued"
  /\ closer \in {"waiting", "done"} =>
       \A w \in Workers : worker[w] = "serving" => item[w] \in cut

\* "A small prewarmed cache removes that cost while retaining unbounded growth
\* for long-lived SSE leases and concurrent cancellation requests": a
\* connection that was accepted is taken by a worker, however long the other
\* connections last.
EveryConnectionServed ==
  \A c \in Conns : status[c] = "queued" ~> status[c] # "queued"
=============================================================================
