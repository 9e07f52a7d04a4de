---------------------------- MODULE DatabaseHandle ----------------------------
(***************************************************************************)
(* The client's side of one lease (ida_nexus/handle.py): a DatabaseHandle  *)
(* with its monitor thread, the threads that call through it, cancel one   *)
(* another's calls, subscribe to change events and close it, and the       *)
(* instance behind it, which may shut down or crash at any step.           *)
(*                                                                         *)
(* The threads share two Events (closed, disconnected), fields guarded by  *)
(* _lock, and a lock for requests.  A step here is one region of _lock, one*)
(* read or write of an Event, or one exchange with the instance.           *)
(***************************************************************************)
EXTENDS Naturals, FiniteSets

CONSTANTS Calls,        \* calls of _request; a call's name is its operation id
          Closers,      \* threads that call close(wait_for_database=True)
          Subscribers,  \* threads that iterate over a subscription
          NoCall

ASSUME HandleAssumption == NoCall \notin Calls

VARIABLES
  opening,       \* DatabaseHandle.open: it resolves and attaches at most twice
  server,        \* "up", "packing" (shutdown committed), "down"
  lease,         \* the instance's view: "none", "held", "released"
  op,            \* the instance's view of each call's operation
  cleanup,       \* _finish_lease_close: "none", "due", "over", or "missed": it
                 \* found an operation that cancel_active() could not reach
  stream,        \* the lease's SSE stream: "none", "open", "shut", "ended"
  closed, disconnected,       \* the Events _closed and _disconnected
  callback,      \* _on_disconnect is set
  told,          \* invocations of the callback
  owner,         \* the thread in set_disconnect_callback
  monitor,       \* the thread in _monitor_lease
  leaseSocket,   \* _lease_socket is not None
  requestLock, rpc, active,   \* _request_lock, _rpc_connection, _active_operation_id
  call,          \* where each call is
  conn,          \* the connection it uses: connections are named for the call
                 \* that created them
  sockets,       \* connections whose socket is open
  canceller, target,          \* cancel_active
  closer, pending,            \* close: its step, and release_lease's answer
  registry,      \* _idb_subscriptions
  sub, subOpen   \* each subscription's step, and whether its stream is open

serverVars == <<server, lease, op, cleanup>>
flagVars   == <<closed, disconnected>>
noticeVars == <<callback, told, owner>>
callVars   == <<requestLock, active, call, conn>>
rpcVars    == <<rpc, sockets>>
cancelVars == <<canceller, target>>
closeVars  == <<closer, pending>>
subVars    == <<registry, sub, subOpen>>

vars == <<opening, serverVars, stream, flagVars, noticeVars, monitor, leaseSocket,
          callVars, rpcVars, cancelVars, closeVars, subVars>>

OpeningStates == {"resolve", "attach", "resolve again", "attach again", "open", "failed"}
Resolving == opening \in {"resolve", "resolve again"}
Attaching == opening \in {"attach", "attach again"}
\* An operation is queued for the backend, or queued and flagged as cancelled;
\* it has entered once it passed the tests under _activity, runs once _run_sync
\* has made it the active one, and stops once it was interrupted.
OpStates == {"unsent", "queued", "flagged", "entered", "running", "stopping",
             "done", "cancelled", "rejected"}
InBackend == {"entered", "running", "stopping"}
MonitorStates == {"idle", "reading", "ended", "marking", "swapping", "telling",
                  "done"}
CallStates == {"idle", "checked", "connected", "sent", "ok", "refused",
               "cancelled", "rejected", "failed"}
CallEnded  == {"ok", "refused", "cancelled", "rejected", "failed"}
CancelStates == {"idle", "posting", "retrying", "true", "nothing", "over", "gave_up"}
CloserStates == {"idle", "setting", "snapshot", "release", "swap", "wait",
                 "final", "not_final", "already", "timed_out"}
CloserEnded  == {"final", "not_final", "already", "timed_out"}
SubStates == {"idle", "opening", "adding", "reading", "ended", "refused"}

-----------------------------------------------------------------------------
Init == /\ opening = "resolve"
        /\ server = "down" /\ lease = "none" /\ stream = "none"
        /\ op = [c \in Calls |-> "unsent"] /\ cleanup = "none"
        /\ closed = FALSE /\ disconnected = FALSE
        /\ callback = FALSE /\ told = 0 /\ owner = "idle"
        /\ monitor = "idle" /\ leaseSocket = FALSE
        /\ requestLock = NoCall /\ rpc = NoCall /\ active = NoCall
        /\ call = [c \in Calls |-> "idle"]
        /\ conn = [c \in Calls |-> NoCall] /\ sockets = {}
        /\ canceller = "idle" /\ target = NoCall
        /\ closer = [k \in Closers |-> "idle"]
        /\ pending = [k \in Closers |-> FALSE]
        /\ registry = {}
        /\ sub = [s \in Subscribers |-> "idle"]
        /\ subOpen = [s \in Subscribers |-> FALSE]

Connected == opening = "open" /\ ~closed /\ ~disconnected

-----------------------------------------------------------------------------
(* Opening.  The instance may go between being resolved and the handshake,   *)
(* which is why open() resolves a second time.                              *)

\* resolve_instance finds a live instance or spawns one, or raises.
Resolve ==
  /\ Resolving
  /\ \/ /\ server' = "up"
        /\ opening' = IF opening = "resolve" THEN "attach" ELSE "attach again"
     \/ /\ opening' = "failed"
        /\ UNCHANGED server
  /\ UNCHANGED <<lease, op, cleanup, stream, flagVars, noticeVars, monitor, leaseSocket,
                 callVars, rpcVars, cancelVars, closeVars, subVars>>

\* The constructor: _open_lease succeeds and the monitor starts.
Attach ==
  /\ Attaching /\ server = "up"
  /\ lease' = "held" /\ stream' = "open" /\ leaseSocket' = TRUE
  /\ monitor' = "reading"
  /\ opening' = "open"
  /\ UNCHANGED <<server, op, cleanup, flagVars, noticeVars, callVars, rpcVars,
                 cancelVars, closeVars, subVars>>

\* The handshake fails: once more, then the exception leaves open().  A lease
\* the instance granted all the same has an id of its own, never used again.
AttachFails ==
  /\ Attaching
  /\ opening' = IF opening = "attach" THEN "resolve again" ELSE "failed"
  /\ UNCHANGED <<serverVars, stream, flagVars, noticeVars, monitor, leaseSocket,
                 callVars, rpcVars, cancelVars, closeVars, subVars>>

-----------------------------------------------------------------------------
(* The instance behind the handle.                                          *)

\* It crashes, or finishes packing its database and exits.
ServerEnds ==
  /\ server # "down" /\ opening # "failed"
  /\ server' = "down"
  /\ lease' = IF lease = "held" THEN "released" ELSE lease
  /\ stream' = IF stream = "open" THEN "ended" ELSE stream
  /\ subOpen' = [s \in Subscribers |-> FALSE]
  /\ UNCHANGED <<opening, op, cleanup, flagVars, noticeVars, monitor, leaseSocket,
                 callVars, rpcVars, cancelVars, closeVars, registry, sub>>

\* Accepted by the instance and not over: queued, or in the backend.
UnderWay(c) == op[c] \in {"queued", "flagged"} \cup InBackend

\* An idle lease expires, which an operation under way prevents; the instance
\* ends the stream, and the cleanup has no operation to look for.
LeaseExpires ==
  /\ lease = "held" /\ stream = "open" /\ server = "up"
  /\ \A c \in Calls : ~UnderWay(c)
  /\ lease' = "released" /\ stream' = "ended"
  /\ UNCHANGED <<opening, server, op, cleanup, flagVars, noticeVars, monitor,
                 leaseSocket, callVars, rpcVars, cancelVars, closeVars, subVars>>

\* The instance notices that the client shut the stream.
LeaseDropped ==
  /\ lease = "held" /\ stream = "shut" /\ server # "down"
  /\ lease' = "released" /\ cleanup' = "due"
  /\ UNCHANGED <<opening, server, op, stream, flagVars, noticeVars, monitor,
                 leaseSocket, callVars, rpcVars, cancelVars, closeVars, subVars>>

\* A change of one operation that nothing else takes part in.
OpBecomes(c, state) ==
  /\ op' = [op EXCEPT ![c] = state]
  /\ UNCHANGED <<opening, server, lease, cleanup, stream, flagVars, noticeVars,
                 monitor, leaseSocket, callVars, rpcVars, cancelVars, closeVars,
                 subVars>>

\* _run_operation has the backend: with the lease gone the operation is refused.
OperationEnters(c) ==
  /\ op[c] = "queued" /\ server # "down"
  /\ \A d \in Calls : op[d] \notin InBackend
  /\ OpBecomes(c, IF lease = "held" THEN "entered" ELSE "cancelled")

\* A cancelled operation leaves the queue at its next look.
OperationLeavesQueue(c) ==
  /\ op[c] = "flagged" /\ server # "down"
  /\ OpBecomes(c, "cancelled")

\* _run_sync makes it the active operation: from here on it can be interrupted,
\* by its own deadline, or by another lease's release (see NexusOperations).
OperationStarts(c) ==
  /\ op[c] = "entered" /\ server # "down"
  /\ OpBecomes(c, "running")

OperationInterrupted(c) ==
  /\ op[c] = "running" /\ server # "down"
  /\ OpBecomes(c, "stopping")

\* An operation ends; one that was interrupted may still complete.
OperationFinishes(c) ==
  /\ op[c] \in {"running", "stopping"} /\ server # "down"
  /\ \E how \in {"done", "cancelled"} :
       /\ how = "cancelled" => op[c] = "stopping"
       /\ OpBecomes(c, how)

\* variant: releasing a lease leaves its operations to end by themselves.
ReleaseLeavesOperations ==
  /\ cleanup = "due" /\ server # "down"
  /\ cleanup' = "over"
  /\ UNCHANGED <<opening, server, lease, op, stream, flagVars, noticeVars, monitor,
                 leaseSocket, callVars, rpcVars, cancelVars, closeVars, subVars>>

\* _finish_lease_close, after a lease was released: it looks once for the
\* lease's operation in the backend and interrupts the one that runs.  One that
\* has entered and does not run yet is missed: cancel_active() finds nothing.
ReleaseCancels ==
  /\ cleanup = "due" /\ server # "down"
  /\ op' = [c \in Calls |-> IF op[c] = "running" THEN "stopping" ELSE op[c]]
  /\ cleanup' = IF \E c \in Calls : op[c] = "entered" THEN "missed" ELSE "over"
  /\ UNCHANGED <<opening, server, lease, stream, flagVars, noticeVars, monitor,
                 leaseSocket, callVars, rpcVars, cancelVars, closeVars, subVars>>

-----------------------------------------------------------------------------
(* The monitor thread.                                                      *)

\* readline() returns nothing, or raises.
StreamEnds ==
  /\ monitor = "reading" /\ stream \in {"shut", "ended"}
  /\ monitor' = "ended"
  /\ UNCHANGED <<opening, serverVars, stream, flagVars, noticeVars, leaseSocket,
                 callVars, rpcVars, cancelVars, closeVars, subVars>>

\* _monitor_lease and _mark_disconnected each test for a handle that needs no
\* notice, the files being probed for a crash in between: the last test counts.
MarkTests ==
  /\ monitor = "ended"
  /\ monitor' = IF closed \/ disconnected THEN "done" ELSE "marking"
  /\ UNCHANGED <<opening, serverVars, stream, flagVars, noticeVars, leaseSocket,
                 callVars, rpcVars, cancelVars, closeVars, subVars>>

\* The Event is set without a lock: the handle may have been closed in between.
MarkSets ==
  /\ monitor = "marking"
  /\ disconnected' = TRUE
  /\ monitor' = "swapping"
  /\ UNCHANGED <<opening, serverVars, stream, closed, noticeVars, leaseSocket,
                 callVars, rpcVars, cancelVars, closeVars, subVars>>

\* Under _lock it takes every connection and subscription, then closes them.
MarkSwaps ==
  /\ monitor = "swapping"
  /\ registry' = {} /\ leaseSocket' = FALSE /\ rpc' = NoCall
  /\ sockets' = sockets \ {rpc}
  /\ subOpen' = [s \in Subscribers |-> s \notin registry /\ subOpen[s]]
  /\ monitor' = "telling"
  /\ UNCHANGED <<opening, serverVars, stream, flagVars, noticeVars, callVars,
                 cancelVars, closeVars, sub>>

\* The callback is read last, after the Event was set.
MonitorTells ==
  /\ monitor = "telling"
  /\ told' = IF callback THEN told + 1 ELSE told
  /\ monitor' = "done"
  /\ UNCHANGED <<opening, serverVars, stream, flagVars, callback, owner, leaseSocket,
                 callVars, rpcVars, cancelVars, closeVars, subVars>>

-----------------------------------------------------------------------------
(* set_disconnect_callback, called once by the owner (the manager does).     *)

InstallsCallback ==
  /\ owner = "idle" /\ opening = "open"
  /\ callback' = TRUE
  /\ owner' = "installed"
  /\ UNCHANGED <<opening, serverVars, stream, flagVars, told, monitor, leaseSocket,
                 callVars, rpcVars, cancelVars, closeVars, subVars>>

\* variant: the callback is set and no Event tested.
OwnerDoesNotTest ==
  /\ owner = "installed"
  /\ owner' = "done"
  /\ UNCHANGED <<opening, serverVars, stream, flagVars, told, callback, monitor,
                 leaseSocket, callVars, rpcVars, cancelVars, closeVars, subVars>>

\* variant: a handle that was closed is reported as well.
OwnerTestsClosedToo ==
  /\ owner = "installed"
  /\ told' = IF closed \/ disconnected THEN told + 1 ELSE told
  /\ owner' = "done"
  /\ UNCHANGED <<opening, serverVars, stream, flagVars, callback, monitor,
                 leaseSocket, callVars, rpcVars, cancelVars, closeVars, subVars>>

\* The owner tests the Event after it set the callback; the monitor reads the
\* callback after it set the Event.
OwnerTests ==
  /\ owner = "installed"
  /\ told' = IF disconnected THEN told + 1 ELSE told
  /\ owner' = "done"
  /\ UNCHANGED <<opening, serverVars, stream, flagVars, callback, monitor,
                 leaseSocket, callVars, rpcVars, cancelVars, closeVars, subVars>>

-----------------------------------------------------------------------------
(* _request: one call at a time, never sent twice.                          *)

\* The request lock is free; both Events are tested under it.
CallBegins(c) ==
  /\ call[c] = "idle" /\ opening = "open" /\ requestLock = NoCall
  /\ IF closed \/ disconnected
     THEN call' = [call EXCEPT ![c] = "refused"] /\ UNCHANGED requestLock
     ELSE call' = [call EXCEPT ![c] = "checked"] /\ requestLock' = c
  /\ UNCHANGED <<opening, serverVars, stream, flagVars, noticeVars, monitor,
                 leaseSocket, active, conn, rpcVars, cancelVars, closeVars, subVars>>

\* _rpc_connection_for tests _closed again, under _lock, and either uses the
\* open connection or, when there is none or it was idle too long, makes one.
\* The operation is active from here on.
CallConnects(c) ==
  /\ call[c] = "checked"
  /\ IF closed
     THEN /\ call' = [call EXCEPT ![c] = "refused"] /\ requestLock' = NoCall
          /\ UNCHANGED <<active, conn, rpcVars>>
     ELSE /\ \E used \in {rpc, c} \ {NoCall} :
               /\ conn' = [conn EXCEPT ![c] = used]
               /\ rpc' = used
               /\ sockets' = IF used = rpc THEN sockets ELSE sockets \ {rpc}
          /\ call' = [call EXCEPT ![c] = "connected"]
          /\ active' = c
          /\ UNCHANGED requestLock
  /\ UNCHANGED <<opening, serverVars, stream, flagVars, noticeVars, monitor,
                 leaseSocket, cancelVars, closeVars, subVars>>

\* connection.request: it connects when it has no socket, even after close()
\* closed it.  The instance accepts the operation of a lease it holds.
CallSends(c) ==
  /\ call[c] = "connected" /\ server # "down"
  /\ op' = [op EXCEPT ![c] =
              IF lease = "held" /\ server = "up" THEN "queued" ELSE "rejected"]
  /\ sockets' = sockets \cup {conn[c]}
  /\ call' = [call EXCEPT ![c] = "sent"]
  /\ UNCHANGED <<opening, server, lease, cleanup, stream, flagVars, noticeVars, monitor,
                 leaseSocket, requestLock, active, conn, rpc, cancelVars, closeVars,
                 subVars>>

\* The call returns: it is no longer active, and a connection the handle no
\* longer refers to dies with it.
Ends(c, how) ==
  /\ call' = [call EXCEPT ![c] = how]
  /\ active' = IF active = c THEN NoCall ELSE active
  /\ requestLock' = NoCall
  /\ conn' = [conn EXCEPT ![c] = NoCall]

\* variant: whatever response arrives is the call's result.
AnswerUnread(c) ==
  /\ call[c] = "sent" /\ op[c] \in {"done", "cancelled", "rejected"}
  /\ Ends(c, "ok")
  /\ sockets' = IF rpc = conn[c] THEN sockets ELSE sockets \ {conn[c]}
  /\ UNCHANGED <<opening, serverVars, stream, flagVars, noticeVars, monitor,
                 leaseSocket, rpc, cancelVars, closeVars, subVars>>

\* The response is read to its end.
CallAnswered(c) ==
  /\ call[c] = "sent" /\ op[c] \in {"done", "cancelled", "rejected"}
  /\ Ends(c, IF op[c] = "done" THEN "ok" ELSE op[c])
  /\ sockets' = IF rpc = conn[c] THEN sockets ELSE sockets \ {conn[c]}
  /\ UNCHANGED <<opening, serverVars, stream, flagVars, noticeVars, monitor,
                 leaseSocket, rpc, cancelVars, closeVars, subVars>>

\* variant: a call that failed is sent again on a new connection.
CallRetries(c) ==
  /\ call[c] \in {"connected", "sent"}
  /\ call' = [call EXCEPT ![c] = "connected"]
  /\ rpc' = IF rpc = conn[c] THEN NoCall ELSE rpc
  /\ sockets' = sockets \ {conn[c]}
  /\ UNCHANGED <<opening, serverVars, stream, flagVars, noticeVars, monitor,
                 requestLock, active, leaseSocket, conn, cancelVars, closeVars, subVars>>

\* The exchange fails or times out, wherever the operation is by then: the
\* connection is discarded, and nothing is sent again.
CallFails(c) ==
  /\ call[c] \in {"connected", "sent"}
  /\ Ends(c, "failed")
  /\ rpc' = IF rpc = conn[c] THEN NoCall ELSE rpc
  /\ sockets' = sockets \ {conn[c]}
  /\ UNCHANGED <<opening, serverVars, stream, flagVars, noticeVars, monitor,
                 leaseSocket, cancelVars, closeVars, subVars>>

-----------------------------------------------------------------------------
(* cancel_active, from another thread.                                      *)

CancelStarts ==
  /\ canceller = "idle" /\ opening = "open"
  /\ target' = active
  /\ canceller' = IF active = NoCall THEN "nothing" ELSE "posting"
  /\ UNCHANGED <<opening, serverVars, stream, flagVars, noticeVars, monitor,
                 leaseSocket, callVars, rpcVars, closeVars, subVars>>

\* variant: any response of the instance is taken for a "yes".
CancelTakesAnyResponse ==
  /\ canceller = "posting" /\ server # "down"
  /\ canceller' = "true"
  /\ UNCHANGED <<opening, serverVars, stream, flagVars, noticeVars, monitor,
                 leaseSocket, callVars, rpcVars, target, closeVars, subVars>>

\* cancel_operation gives up when the operation is no longer active, or posts
\* its id.  An instance that has the operation under way says yes: it flags
\* one that is queued, and interrupts one that runs; one that has entered and
\* does not run yet is past the flag and missed by cancel_active(), as in
\* ReleaseCancels.  The exchange may fail before the instance acts, or after.
CancelPosts ==
  /\ canceller = "posting"
  /\ \/ /\ server # "down" /\ UnderWay(target)
        /\ op' = [op EXCEPT ![target] = CASE op[target] = "queued"  -> "flagged"
                                           [] op[target] = "running" -> "stopping"
                                           [] OTHER -> op[target]]
        /\ canceller' \in {"true", "retrying"}
     \/ canceller' = "retrying" /\ UNCHANGED op
  /\ UNCHANGED <<opening, server, lease, cleanup, stream, flagVars, noticeVars,
                 monitor, leaseSocket, callVars, rpcVars, target, closeVars, subVars>>

\* variant: the first "no" of the instance is taken for an answer.
CancelDoesNotRetry ==
  /\ canceller = "retrying"
  /\ canceller' = "over"
  /\ UNCHANGED <<opening, serverVars, stream, flagVars, noticeVars, monitor,
                 leaseSocket, callVars, rpcVars, target, closeVars, subVars>>

\* A call becomes active before the instance has heard of it, so "no" means
\* "over" only when the handle has another active operation, or none.
CancelRetries ==
  /\ canceller = "retrying"
  /\ canceller' \in IF active = target THEN {"posting", "gave_up"} ELSE {"over"}
  /\ UNCHANGED <<opening, serverVars, stream, flagVars, noticeVars, monitor,
                 leaseSocket, callVars, rpcVars, target, closeVars, subVars>>

-----------------------------------------------------------------------------
(* close(wait_for_database=True).                                           *)

\* Two closers may both find _closed unset.
CloseTests(k) ==
  /\ closer[k] = "idle" /\ opening = "open"
  /\ closer' = [closer EXCEPT ![k] = IF closed THEN "already" ELSE "setting"]
  /\ UNCHANGED <<opening, serverVars, stream, flagVars, noticeVars, monitor,
                 leaseSocket, callVars, rpcVars, cancelVars, pending, subVars>>

\* variant: close() gives notice as well.
CloseTells(k) ==
  /\ closer[k] = "setting"
  /\ closed' = TRUE /\ told' = IF callback THEN told + 1 ELSE told
  /\ closer' = [closer EXCEPT ![k] = "snapshot"]
  /\ UNCHANGED <<opening, serverVars, stream, disconnected, callback, owner, monitor,
                 leaseSocket, callVars, rpcVars, cancelVars, pending, subVars>>

CloseSets(k) ==
  /\ closer[k] = "setting"
  /\ closed' = TRUE
  /\ closer' = [closer EXCEPT ![k] = "snapshot"]
  /\ UNCHANGED <<opening, serverVars, stream, disconnected, noticeVars, monitor,
                 leaseSocket, callVars, rpcVars, cancelVars, pending, subVars>>

\* Under _lock it takes the subscriptions, and closes them.
CloseSnapshots(k) ==
  /\ closer[k] = "snapshot"
  /\ registry' = {}
  /\ subOpen' = [s \in Subscribers |-> s \notin registry /\ subOpen[s]]
  /\ closer' = [closer EXCEPT ![k] = "release"]
  /\ UNCHANGED <<opening, serverVars, stream, flagVars, noticeVars, monitor,
                 leaseSocket, callVars, rpcVars, cancelVars, pending, sub>>

\* POST /release_lease.  A managed instance whose last lease this was commits
\* to packing its database; a repeated release reports what the first decided.
InstanceReleases ==
  /\ server # "down"
  /\ lease' = IF lease = "held" THEN "released" ELSE lease
  /\ cleanup' = IF lease = "held" THEN "due" ELSE cleanup
  /\ stream' = IF stream = "open" THEN "ended" ELSE stream
  /\ server' \in IF lease = "held" THEN {server, "packing"} ELSE {server}

\* The exchange may fail, or time out after the instance has acted on it.
CloseReleases(k) ==
  /\ closer[k] = "release"
  /\ \/ InstanceReleases /\ pending' = [pending EXCEPT ![k] = server' = "packing"]
     \/ InstanceReleases /\ UNCHANGED pending
     \/ UNCHANGED <<server, lease, cleanup, stream, pending>>
  /\ closer' = [closer EXCEPT ![k] = "swap"]
  /\ UNCHANGED <<opening, op, flagVars, noticeVars, monitor, leaseSocket, callVars,
                 rpcVars, cancelVars, subVars>>

\* variant: the RPC connection is left to the next call.
CloseKeepsConnection(k) ==
  /\ closer[k] = "swap"
  /\ leaseSocket' = FALSE
  /\ stream' = IF leaseSocket /\ stream = "open" THEN "shut" ELSE stream
  /\ closer' = [closer EXCEPT ![k] = IF pending[k] THEN "wait" ELSE "not_final"]
  /\ UNCHANGED <<opening, serverVars, flagVars, noticeVars, monitor, callVars,
                 rpcVars, cancelVars, pending, subVars>>

\* variant: a final close returns without waiting for the lifetime lock.
CloseDoesNotWait(k) ==
  /\ closer[k] = "swap"
  /\ leaseSocket' = FALSE
  /\ stream' = IF leaseSocket /\ stream = "open" THEN "shut" ELSE stream
  /\ rpc' = NoCall /\ sockets' = sockets \ {rpc}
  /\ closer' = [closer EXCEPT ![k] = IF pending[k] THEN "final" ELSE "not_final"]
  /\ UNCHANGED <<opening, serverVars, flagVars, noticeVars, monitor, callVars,
                 cancelVars, pending, subVars>>

\* Under _lock it takes the connections.  It shuts the lease's socket, which
\* ends the monitor, and joins that for 2 seconds at most; it closes the RPC
\* connection, which does not wake a call that waits for its response.
CloseSwaps(k) ==
  /\ closer[k] = "swap"
  /\ leaseSocket' = FALSE
  /\ stream' = IF leaseSocket /\ stream = "open" THEN "shut" ELSE stream
  /\ rpc' = NoCall /\ sockets' = sockets \ {rpc}
  /\ closer' = [closer EXCEPT ![k] = IF pending[k] THEN "wait" ELSE "not_final"]
  /\ UNCHANGED <<opening, serverVars, flagVars, noticeVars, monitor, callVars,
                 cancelVars, pending, subVars>>

\* wait_database_released: the instance's lifetime lock is free once the
\* process has closed its database, or died.
CloseWaits(k) ==
  /\ closer[k] = "wait"
  /\ \/ /\ server = "down"
        /\ closer' = [closer EXCEPT ![k] = "final"]
     \/ closer' = [closer EXCEPT ![k] = "timed_out"]
  /\ UNCHANGED <<opening, serverVars, stream, flagVars, noticeVars, monitor,
                 leaseSocket, callVars, rpcVars, cancelVars, pending, subVars>>

-----------------------------------------------------------------------------
(* DatabaseChangeSubscription.                                              *)

\* The constructor tests the handle under its _lock ...
Subscribes(s) ==
  /\ sub[s] = "idle" /\ opening = "open"
  /\ sub' = [sub EXCEPT ![s] = IF closed \/ disconnected THEN "refused" ELSE "opening"]
  /\ UNCHANGED <<opening, serverVars, stream, flagVars, noticeVars, monitor,
                 leaseSocket, callVars, rpcVars, cancelVars, closeVars, registry,
                 subOpen>>

\* ... opens its stream without any lock ...
SubOpens(s) ==
  /\ sub[s] = "opening"
  /\ \/ /\ server # "down"
        /\ subOpen' = [subOpen EXCEPT ![s] = TRUE]
        /\ sub' = [sub EXCEPT ![s] = "adding"]
     \/ /\ sub' = [sub EXCEPT ![s] = "refused"]
        /\ UNCHANGED subOpen
  /\ UNCHANGED <<opening, serverVars, stream, flagVars, noticeVars, monitor,
                 leaseSocket, callVars, rpcVars, cancelVars, closeVars, registry>>

\* variant: the constructor adds itself without testing the handle again.
SubAddsUntested(s) ==
  /\ sub[s] = "adding"
  /\ registry' = registry \cup {s}
  /\ sub' = [sub EXCEPT ![s] = "reading"]
  /\ UNCHANGED <<opening, serverVars, stream, flagVars, noticeVars, monitor, subOpen,
                 leaseSocket, callVars, rpcVars, cancelVars, closeVars>>

\* ... and under _lock tests again: a handle that ended meanwhile has already
\* taken its subscriptions, so this one closes itself.
SubAdds(s) ==
  /\ sub[s] = "adding"
  /\ IF closed \/ disconnected
     THEN /\ sub' = [sub EXCEPT ![s] = "refused"]
          /\ subOpen' = [subOpen EXCEPT ![s] = FALSE]
          /\ UNCHANGED registry
     ELSE /\ sub' = [sub EXCEPT ![s] = "reading"]
          /\ registry' = registry \cup {s}
          /\ UNCHANGED subOpen
  /\ UNCHANGED <<opening, serverVars, stream, flagVars, noticeVars, monitor,
                 leaseSocket, callVars, rpcVars, cancelVars, closeVars>>

\* The instance ends the stream of a subscriber that lags.
SubStreamEnds(s) ==
  /\ subOpen[s] /\ subOpen' = [subOpen EXCEPT ![s] = FALSE]
  /\ UNCHANGED <<opening, serverVars, stream, flagVars, noticeVars, monitor,
                 leaseSocket, callVars, rpcVars, cancelVars, closeVars, registry, sub>>

\* __next__ finds the stream over; it detaches itself unless the handle ended,
\* which takes every subscription anyway.
SubReadsEnd(s) ==
  /\ sub[s] = "reading" /\ ~subOpen[s]
  /\ sub' = [sub EXCEPT ![s] = "ended"]
  /\ registry' = IF closed \/ disconnected THEN registry ELSE registry \ {s}
  /\ UNCHANGED <<opening, serverVars, stream, flagVars, noticeVars, monitor,
                 leaseSocket, callVars, rpcVars, cancelVars, closeVars, subOpen>>

\* close() of the subscription itself.
SubCloses(s) ==
  /\ sub[s] = "reading"
  /\ sub' = [sub EXCEPT ![s] = "ended"]
  /\ subOpen' = [subOpen EXCEPT ![s] = FALSE]
  /\ registry' = registry \ {s}
  /\ UNCHANGED <<opening, serverVars, stream, flagVars, noticeVars, monitor,
                 leaseSocket, callVars, rpcVars, cancelVars, closeVars>>

-----------------------------------------------------------------------------
\* Every thread is done with a handle that ended.
Over ==
  /\ opening = "failed" \/ closed \/ disconnected
  /\ monitor \in {"idle", "done"} /\ owner # "installed"
  /\ \A c \in Calls : call[c] \in CallEnded \cup {"idle"}
  /\ \A k \in Closers : closer[k] \in CloserEnded \cup {"idle"}
  /\ \A s \in Subscribers : sub[s] \in {"idle", "ended", "refused"}
  /\ UNCHANGED vars

OpenSteps    == Resolve \/ Attach \/ AttachFails
OperationSteps(c) == \/ OperationEnters(c) \/ OperationLeavesQueue(c)
                     \/ OperationStarts(c) \/ OperationInterrupted(c)
                     \/ OperationFinishes(c)
ServerSteps  == \/ ServerEnds \/ LeaseExpires \/ LeaseDropped
                \/ ReleaseCancels \/ \E c \in Calls : OperationSteps(c)
MonitorSteps == StreamEnds \/ MarkTests \/ MarkSets \/ MarkSwaps
                  \/ MonitorTells
OwnerSteps   == InstallsCallback \/ OwnerTests
CallSteps(c) == CallBegins(c) \/ CallConnects(c) \/ CallSends(c) \/ CallAnswered(c)
                  \/ CallFails(c)
CancelSteps  == CancelStarts \/ CancelPosts \/ CancelRetries
CloseSteps(k) == CloseTests(k) \/ CloseSets(k) \/ CloseSnapshots(k) \/ CloseReleases(k)
                   \/ CloseSwaps(k) \/ CloseWaits(k)
SubSteps(s)  == Subscribes(s) \/ SubOpens(s) \/ SubAdds(s) \/ SubStreamEnds(s)
                  \/ SubReadsEnd(s) \/ SubCloses(s)

Next == \/ OpenSteps \/ ServerSteps \/ MonitorSteps \/ OwnerSteps \/ CancelSteps
        \/ \E c \in Calls : CallSteps(c)
        \/ \E k \in Closers : CloseSteps(k)
        \/ \E s \in Subscribers : SubSteps(s)
        \/ Over

Spec == Init /\ [][Next]_vars

\* Threads run, the instance answers, an instance that packs ends when it has
\* nothing under way, and a broken exchange fails.  An operation that was
\* interrupted ends; another need not, and neither need one that waits for the
\* backend get it: other leases' operations may last for ever.  Nobody has to
\* call, close, subscribe or install anything.
Fairness ==
  /\ WF_vars(OpenSteps) /\ WF_vars(MonitorSteps) /\ WF_vars(OwnerTests)
  /\ WF_vars(LeaseDropped) /\ WF_vars(ReleaseCancels)
  /\ WF_vars(server = "packing" /\ (\A c \in Calls : ~UnderWay(c)) /\ ServerEnds)
  /\ \A c \in Calls :
       /\ WF_vars(CallConnects(c)) /\ WF_vars(CallSends(c)) /\ WF_vars(CallAnswered(c))
       /\ WF_vars(server = "down" /\ CallFails(c))
       /\ WF_vars(OperationLeavesQueue(c)) /\ WF_vars(OperationStarts(c))
       /\ WF_vars(op[c] = "stopping" /\ OperationFinishes(c))
  /\ \A k \in Closers : WF_vars(closer[k] # "idle" /\ CloseSteps(k))
  /\ \A s \in Subscribers :
       WF_vars(SubOpens(s) \/ SubAdds(s)) /\ WF_vars(SubReadsEnd(s))

FairSpec == Spec /\ Fairness

-----------------------------------------------------------------------------
TypeOK ==
  /\ opening \in OpeningStates
  /\ server \in {"up", "packing", "down"} /\ lease \in {"none", "held", "released"}
  /\ op \in [Calls -> OpStates] /\ cleanup \in {"none", "due", "over", "missed"}
  /\ stream \in {"none", "open", "shut", "ended"}
  /\ closed \in BOOLEAN /\ disconnected \in BOOLEAN
  /\ callback \in BOOLEAN /\ told \in 0..2
  /\ owner \in {"idle", "installed", "done"} /\ monitor \in MonitorStates
  /\ leaseSocket \in BOOLEAN
  /\ requestLock \in Calls \cup {NoCall} /\ rpc \in Calls \cup {NoCall}
  /\ active \in Calls \cup {NoCall}
  /\ call \in [Calls -> CallStates] /\ conn \in [Calls -> Calls \cup {NoCall}]
  /\ sockets \subseteq Calls
  /\ canceller \in CancelStates /\ target \in Calls \cup {NoCall}
  /\ closer \in [Closers -> CloserStates]
  /\ pending \in [Closers -> BOOLEAN]
  /\ registry \subseteq Subscribers
  /\ sub \in [Subscribers -> SubStates] /\ subOpen \in [Subscribers -> BOOLEAN]

\* close() has taken the subscriptions, or the monitor has.
SubscriptionsTaken == \/ closed /\ \E k \in Closers :
                           closer[k] \notin {"idle", "setting", "snapshot", "already"}
                      \/ disconnected /\ monitor \in {"telling", "done"}

\* A subscription whose constructor raced the end of the handle does not
\* outlive it: once close() or the monitor has taken the registered
\* subscriptions, no stream is left that its iterator could wait on for ever.
NoSurvivingSubscription ==
  SubscriptionsTaken => /\ registry = {}
                        /\ \A s \in Subscribers : sub[s] = "reading" => ~subOpen[s]

\* A closed handle leaves no connection behind, not even one that a call
\* reopened after close() had closed it.
NoSurvivingConnection ==
  /\ \E k \in Closers : closer[k] \in CloserEnded \ {"already"}
  /\ \A c \in Calls : call[c] \in CallEnded \cup {"idle"}
  => rpc = NoCall /\ sockets = {}

\* Nothing of a handle outlives it: see the two parts.
NothingSurvives == NoSurvivingSubscription /\ NoSurvivingConnection

\* What the handle answers is true of the instance.  A call that was refused
\* never reached it, and one that returned a result ran to its end.
\* cancel_active says FALSE before its deadline only when the call it was
\* asked to cancel has returned.  It says TRUE only of an operation that the
\* instance had accepted and that does not wait in the queue any more, where it
\* could still begin: TRUE does not mean that the operation stops, for one that
\* was just entering the backend is missed and runs on.  close() that reports
\* the last lease returns after the instance has closed the database, so that
\* it can be reopened at once.
AnswersAreTrue ==
  /\ \A c \in Calls : /\ call[c] = "refused" => op[c] = "unsent"
                      /\ call[c] = "ok" => op[c] = "done"
  /\ canceller = "over" => call[target] \in CallEnded
  /\ canceller = "true" => op[target] \notin {"unsent", "queued", "rejected"}
  /\ \A k \in Closers : closer[k] = "final" => server = "down"

\* No operation is sent twice: an exchange that failed may have executed.
NeverReplayed ==
  [][\A c \in Calls : op'[c] = "queued" => op[c] \in {"unsent", "queued"}]_vars

\* What close() cannot end: a call whose operation still waits for a backend
\* that another operation keeps, or was missed by the release's only look.
LeftBehind(c) == \/ op[c] = "queued"
                 \/ cleanup = "missed" /\ op[c] \in {"entered", "running"}

\* Nobody waits for ever on a handle that is closed: the monitor ends, and so
\* do iterators and calls, although closing a connection wakes no call.  Left
\* are only the calls close() cannot end.
CloseEndsEverything ==
  closed ~> /\ monitor = "done"
            /\ \A c \in Calls : call[c] \in CallEnded \cup {"idle"} \/ LeftBehind(c)
            /\ \A s \in Subscribers : sub[s] \in {"idle", "ended", "refused"}

Phase == CASE Resolving \/ Attaching -> "opening"
           [] opening = "failed" -> "failed"
           [] opening = "open" /\ disconnected -> "lost"
           [] opening = "open" /\ ~disconnected /\ closed -> "closed"
           [] OTHER -> "live"

Contract == INSTANCE HandleContract
              WITH phase <- Phase, registered <- callback, told <- told

\* Every step of the handle's threads is, to its owner, a step of the contract or
\* nothing: it is told only of a loss, and at most twice.
ImplementsContract == Contract!Spec

\* The owner of a lost handle does hear of it, whether its callback came before
\* the loss, after it or in between: with ImplementsContract the handle
\* implements Contract!FairSpec.
OwnerHears == Contract!Fairness

\* Nobody waits in vain for the end of a handle, its owner included.
EverybodyIsServed == CloseEndsEverything /\ OwnerHears
=============================================================================
