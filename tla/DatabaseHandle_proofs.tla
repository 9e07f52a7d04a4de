------------------------- MODULE DatabaseHandle_proofs -------------------------
(***************************************************************************)
(* Safety of DatabaseHandle for any number of calls, closers and           *)
(* subscribers: what the handle answers is true of the instance, nothing   *)
(* is sent twice, nothing survives the handle, and its owner sees no more  *)
(* than HandleContract allows.                                             *)
(*                                                                         *)
(* The invariant says of each actor what the tests it has passed still     *)
(* mean: nothing happens before open() returned (Started); the monitor     *)
(* alone disconnects, and tells once (Notices); a call holds the request   *)
(* lock and reached the instance only after it was connected (CallsKept,   *)
(* OpsKept); a closer that has passed a step finds what it left behind     *)
(* (ClosersKept, SubsKept, SocketsKept).                                   *)
(***************************************************************************)
EXTENDS DatabaseHandle, TLAPS

\* Nothing happens to a handle before open() has returned it.
Started ==
  opening # "open" =>
    /\ ~closed /\ ~disconnected /\ ~callback /\ told = 0
    /\ monitor = "idle" /\ owner = "idle" /\ canceller = "idle"
    /\ \A c \in Calls : call[c] = "idle"
    /\ \A k \in Closers : closer[k] = "idle"
    /\ \A s \in Subscribers : sub[s] = "idle"

\* The monitor alone sets the Event, and each side tells at most once.
Notices ==
  /\ told <= (IF monitor = "done" THEN 1 ELSE 0) + (IF owner = "done" THEN 1 ELSE 0)
  /\ monitor \in {"swapping", "telling"} => disconnected
  /\ disconnected => monitor \in {"swapping", "telling", "done"}
  /\ owner # "idle" => callback

\* One call at a time has the request lock, and is active once connected.
CallsKept ==
  \A c \in Calls : /\ (call[c] \in {"checked", "connected", "sent"}) <=> (requestLock = c)
                   /\ (call[c] \in {"connected", "sent"}) <=> (active = c)
                   /\ call[c] \in {"connected", "sent"} => conn[c] \in Calls

\* What the instance knows of each call.
OpsKept ==
  \A c \in Calls : /\ call[c] \in {"idle", "checked", "connected", "refused"} => op[c] = "unsent"
                   /\ call[c] = "ok" => op[c] = "done"

\* What cancel_active is about is active, or has returned.
CancelKept ==
  /\ canceller \in CancelStates \ {"idle", "nothing"} =>
       target \in Calls /\ (active = target \/ call[target] \in CallEnded)
  /\ canceller = "over" => call[target] \in CallEnded
  /\ canceller = "true" => op[target] \notin {"unsent", "queued", "rejected"}

\* A closer past its first step has closed the handle; a final close is true.
ClosersKept ==
  \A k \in Closers : /\ closer[k] \notin {"idle", "setting"} => closed
                     /\ closer[k] = "final" => server = "down"

\* An open stream that is being read can be found by whoever ends the handle.
SubsKept ==
  /\ \A s \in Subscribers : sub[s] = "reading" /\ subOpen[s] => s \in registry
  /\ SubscriptionsTaken => registry = {}

\* An open socket is the handle's, or belongs to the call that uses it.
SocketsKept ==
  /\ \A x \in sockets : \/ x = rpc
                        \/ \E c \in Calls : call[c] \in {"connected", "sent"} /\ conn[c] = x
  /\ (\E k \in Closers : closer[k] \in CloserEnded \ {"already"} \/ closer[k] = "wait") => rpc = NoCall

HandleInv == /\ TypeOK /\ Started /\ Notices /\ CallsKept /\ OpsKept /\ CancelKept
             /\ ClosersKept /\ SubsKept /\ SocketsKept

-----------------------------------------------------------------------------
(* The initial states *)

LEMMA HandleInit == Init => HandleInv
  <1> SUFFICES ASSUME Init PROVE HandleInv
    OBVIOUS
  <1> USE HandleAssumption
  <1>1. TypeOK
    <2>1. op \in [Calls -> OpStates] /\ call \in [Calls -> CallStates] /\ conn \in [Calls -> Calls \cup {NoCall}]
      BY DEF Init, OpStates, CallStates
    <2>2. closer \in [Closers -> CloserStates] /\ pending \in [Closers -> BOOLEAN]
      BY DEF Init, CloserStates
    <2>3. sub \in [Subscribers -> SubStates] /\ subOpen \in [Subscribers -> BOOLEAN]
      BY DEF Init, SubStates
    <2>4. /\ opening \in OpeningStates /\ monitor \in MonitorStates /\ canceller \in CancelStates
          /\ closed \in BOOLEAN /\ disconnected \in BOOLEAN /\ callback \in BOOLEAN
          /\ leaseSocket \in BOOLEAN /\ told \in 0 .. 2
      <3>1. opening \in OpeningStates /\ monitor \in MonitorStates /\ canceller \in CancelStates
        BY DEF Init, OpeningStates, MonitorStates, CancelStates
      <3>2. /\ closed \in BOOLEAN /\ disconnected \in BOOLEAN /\ callback \in BOOLEAN
            /\ leaseSocket \in BOOLEAN
        BY Zenon DEF Init
      <3>3. told \in 0 .. 2
        BY DEF Init
      <3> QED
        BY <3>1, <3>2, <3>3
    <2> QED
      BY <2>1, <2>2, <2>3, <2>4 DEF Init, TypeOK
  <1>2. Started /\ Notices
    BY DEF Init, Started, Notices
  <1>3. CallsKept /\ OpsKept /\ CancelKept
    BY DEF Init, CallsKept, OpsKept, CancelKept
  <1>4. ClosersKept /\ SubsKept /\ SocketsKept
    BY DEF Init, ClosersKept, SubsKept, SubscriptionsTaken, SocketsKept, CloserEnded
  <1> QED
    BY <1>1, <1>2, <1>3, <1>4 DEF HandleInv

-----------------------------------------------------------------------------
(* Types *)

\* An operation's own steps change nothing else.
LEMMA OpStepsChangeOps ==
  ASSUME NEW c, OperationSteps(c)
  PROVE  UNCHANGED <<opening, server, lease, cleanup, stream, flagVars, noticeVars, monitor,
                     leaseSocket, callVars, rpcVars, cancelVars, closeVars, subVars>>
  BY DEF OperationSteps, OperationEnters, OperationLeavesQueue, OperationStarts,
         OperationInterrupted, OperationFinishes, OpBecomes

LEMMA TypeStep == TypeOK /\ Notices /\ CallsKept /\ CancelKept /\ [Next]_vars => TypeOK'
  <1> SUFFICES ASSUME TypeOK, Notices, CallsKept, CancelKept, [Next]_vars PROVE TypeOK'
    OBVIOUS
  <1> USE HandleAssumption DEF serverVars, flagVars, noticeVars, callVars, rpcVars,
          cancelVars, closeVars, subVars
  <1>1. CASE OpenSteps
    <2>1. CASE Resolve
      <3>1. opening' \in OpeningStates /\ server' \in {"up", "packing", "down"}
        BY <2>1 DEF Resolve, TypeOK, OpeningStates
      <3>2. UNCHANGED <<lease, op, cleanup, stream, flagVars, noticeVars, monitor, leaseSocket,
                        callVars, rpcVars, cancelVars, closeVars, subVars>>
        BY <2>1 DEF Resolve
      <3> QED
        BY <3>1, <3>2 DEF TypeOK
    <2>2. CASE Attach
      <3>1. opening' \in OpeningStates /\ monitor' \in MonitorStates
        BY <2>2 DEF Attach, OpeningStates, MonitorStates
      <3>2. /\ lease' \in {"none", "held", "released"} /\ leaseSocket' \in BOOLEAN
            /\ stream' \in {"none", "open", "shut", "ended"}
        BY <2>2 DEF Attach
      <3>3. UNCHANGED <<server, op, cleanup, flagVars, noticeVars, callVars, rpcVars,
                        cancelVars, closeVars, subVars>>
        BY <2>2 DEF Attach
      <3> QED
        BY <3>1, <3>2, <3>3 DEF TypeOK
    <2>3. CASE AttachFails
      <3>1. opening' \in OpeningStates
        BY <2>3 DEF AttachFails, OpeningStates
      <3>2. UNCHANGED <<serverVars, stream, flagVars, noticeVars, monitor, leaseSocket,
                        callVars, rpcVars, cancelVars, closeVars, subVars>>
        BY <2>3 DEF AttachFails
      <3> QED
        BY <3>1, <3>2 DEF TypeOK
    <2> QED
      BY <1>1, <2>1, <2>2, <2>3 DEF OpenSteps
  <1>2. CASE ServerSteps
    <2>1. CASE ServerEnds
      BY <2>1 DEF ServerEnds, TypeOK
    <2>2. CASE LeaseExpires
      BY <2>2 DEF LeaseExpires, TypeOK
    <2>3. CASE LeaseDropped
      BY <2>3 DEF LeaseDropped, TypeOK
    <2>4. ASSUME NEW c \in Calls, OperationSteps(c) PROVE TypeOK'
      <3>1. op' \in [Calls -> OpStates]
        BY <2>4 DEF OperationSteps, OperationEnters, OperationLeavesQueue, OperationStarts,
           OperationInterrupted, OperationFinishes, OpBecomes, TypeOK, OpStates
      <3> QED
        BY <2>4, <3>1, OpStepsChangeOps DEF TypeOK
    <2>5. CASE ReleaseCancels
      <3>1. op' \in [Calls -> OpStates]
        <4>1. \A c \in Calls : (IF op[c] = "running" THEN "stopping" ELSE op[c]) \in OpStates
          BY DEF TypeOK, OpStates
        <4> QED
          BY <2>5, <4>1 DEF ReleaseCancels
      <3>2. cleanup' \in {"none", "due", "over", "missed"}
        BY <2>5 DEF ReleaseCancels
      <3> QED
        BY <2>5, <3>1, <3>2 DEF ReleaseCancels, TypeOK
    <2> QED
      BY <1>2, <2>1, <2>2, <2>3, <2>4, <2>5 DEF ServerSteps
  <1>3. CASE MonitorSteps
    <2>1. CASE StreamEnds
      BY <2>1 DEF StreamEnds, TypeOK, MonitorStates
    <2>2. CASE MarkTests
      BY <2>2 DEF MarkTests, TypeOK, MonitorStates
    <2>3. CASE MarkSets
      BY <2>3 DEF MarkSets, TypeOK, MonitorStates
    <2>4. CASE MarkSwaps
      <3>1. subOpen' \in [Subscribers -> BOOLEAN]
        <4>1. subOpen' = [s \in Subscribers |-> s \notin registry /\ subOpen[s]]
          BY <2>4 DEF MarkSwaps
        <4>2. \A s \in Subscribers : (s \notin registry /\ subOpen[s]) \in BOOLEAN
          OBVIOUS
        <4> QED
          BY <4>1, <4>2
      <3>2. monitor' \in MonitorStates /\ sockets' \subseteq Calls
        BY <2>4 DEF MarkSwaps, TypeOK, MonitorStates
      <3>3. registry' \subseteq Subscribers /\ leaseSocket' \in BOOLEAN /\ rpc' \in Calls \cup {NoCall}
        BY <2>4 DEF MarkSwaps
      <3>4. UNCHANGED <<opening, serverVars, stream, flagVars, noticeVars, callVars, cancelVars,
                        closeVars, sub>>
        BY <2>4 DEF MarkSwaps
      <3> QED
        BY <3>1, <3>2, <3>3, <3>4 DEF TypeOK
    <2>5. CASE MonitorTells
      <3>1. told' \in 0 .. 2
        BY <2>5 DEF MonitorTells, TypeOK, Notices
      <3> QED
        BY <2>5, <3>1 DEF MonitorTells, TypeOK, MonitorStates
    <2> QED
      BY <1>3, <2>1, <2>2, <2>3, <2>4, <2>5 DEF MonitorSteps
  <1>4. CASE OwnerSteps
    <2>1. CASE InstallsCallback
      BY <2>1 DEF InstallsCallback, TypeOK
    <2>2. CASE OwnerTests
      <3>1. told' \in 0 .. 2
        BY <2>2 DEF OwnerTests, TypeOK, Notices
      <3> QED
        BY <2>2, <3>1 DEF OwnerTests, TypeOK
    <2> QED
      BY <1>4, <2>1, <2>2 DEF OwnerSteps
  <1>5. CASE CancelSteps
    <2>1. CASE CancelStarts
      BY <2>1 DEF CancelStarts, TypeOK, CancelStates
    <2>2. CASE CancelPosts
      <3>1. op' \in [Calls -> OpStates]
        BY <2>2 DEF CancelPosts, TypeOK, OpStates
      <3>2. canceller' \in CancelStates
        BY <2>2 DEF CancelPosts, CancelStates
      <3> QED
        BY <2>2, <3>1, <3>2 DEF CancelPosts, TypeOK
    <2>3. CASE CancelRetries
      BY <2>3 DEF CancelRetries, TypeOK, CancelStates
    <2> QED
      BY <1>5, <2>1, <2>2, <2>3 DEF CancelSteps
  <1>6. ASSUME NEW c \in Calls, CallSteps(c) PROVE TypeOK'
    <2>1. CASE CallBegins(c)
      BY <2>1 DEF CallBegins, TypeOK, CallStates
    <2>2. CASE CallConnects(c)
      BY <2>2 DEF CallConnects, TypeOK, CallStates
    <2>3. CASE CallSends(c)
      BY <2>3 DEF CallSends, TypeOK, CallStates, OpStates, CallsKept
    <2>4. CASE CallAnswered(c)
      BY <2>4 DEF CallAnswered, Ends, TypeOK, CallStates, OpStates
    <2>5. CASE CallFails(c)
      BY <2>5 DEF CallFails, Ends, TypeOK, CallStates
    <2> QED
      BY <1>6, <2>1, <2>2, <2>3, <2>4, <2>5 DEF CallSteps
  <1>7. ASSUME NEW k \in Closers, CloseSteps(k) PROVE TypeOK'
    <2>1. CASE CloseTests(k)
      BY <2>1 DEF CloseTests, TypeOK, CloserStates
    <2>2. CASE CloseSets(k)
      BY <2>2 DEF CloseSets, TypeOK, CloserStates
    <2>3. CASE CloseSnapshots(k)
      BY <2>3 DEF CloseSnapshots, TypeOK, CloserStates
    <2>4. CASE CloseReleases(k)
      <3>1. /\ server' \in {"up", "packing", "down"} /\ lease' \in {"none", "held", "released"}
            /\ stream' \in {"none", "open", "shut", "ended"}
            /\ cleanup' \in {"none", "due", "over", "missed"}
        BY <2>4 DEF CloseReleases, InstanceReleases, TypeOK
      <3>2. pending' \in [Closers -> BOOLEAN] /\ closer' \in [Closers -> CloserStates]
        BY <2>4 DEF CloseReleases, TypeOK, CloserStates
      <3> QED
        BY <2>4, <3>1, <3>2 DEF CloseReleases, TypeOK
    <2>5. CASE CloseSwaps(k)
      <3>1. closer' \in [Closers -> CloserStates]
        BY <2>5 DEF CloseSwaps, TypeOK, CloserStates
      <3>2. stream' \in {"none", "open", "shut", "ended"} /\ sockets' \subseteq Calls
        BY <2>5 DEF CloseSwaps, TypeOK
      <3>3. /\ leaseSocket' = FALSE /\ rpc' = NoCall
            /\ UNCHANGED <<opening, serverVars, flagVars, noticeVars, monitor, callVars,
                           cancelVars, pending, subVars>>
        BY <2>5 DEF CloseSwaps
      <3>4. leaseSocket' \in BOOLEAN /\ rpc' \in Calls \cup {NoCall}
        BY <3>3
      <3> QED
        BY <3>1, <3>2, <3>3, <3>4 DEF TypeOK
    <2>6. CASE CloseWaits(k)
      BY <2>6 DEF CloseWaits, TypeOK, CloserStates
    <2> QED
      BY <1>7, <2>1, <2>2, <2>3, <2>4, <2>5, <2>6 DEF CloseSteps
  <1>8. ASSUME NEW s \in Subscribers, SubSteps(s) PROVE TypeOK'
    <2>1. CASE Subscribes(s)
      BY <2>1 DEF Subscribes, TypeOK, SubStates
    <2>2. CASE SubOpens(s)
      <3>1. sub' \in [Subscribers -> SubStates]
        BY <2>2 DEF SubOpens, TypeOK, SubStates
      <3>2. subOpen' \in [Subscribers -> BOOLEAN]
        BY <2>2 DEF SubOpens, TypeOK
      <3> QED
        BY <2>2, <3>1, <3>2 DEF SubOpens, TypeOK
    <2>3. CASE SubAdds(s)
      <3>1. sub' \in [Subscribers -> SubStates]
        BY <2>3 DEF SubAdds, TypeOK, SubStates
      <3>2. subOpen' \in [Subscribers -> BOOLEAN]
        BY <2>3 DEF SubAdds, TypeOK
      <3>3. registry' \subseteq Subscribers
        BY <2>3 DEF SubAdds, TypeOK
      <3> QED
        BY <2>3, <3>1, <3>2, <3>3 DEF SubAdds, TypeOK
    <2>4. CASE SubStreamEnds(s)
      BY <2>4 DEF SubStreamEnds, TypeOK
    <2>5. CASE SubReadsEnd(s)
      BY <2>5 DEF SubReadsEnd, TypeOK, SubStates
    <2>6. CASE SubCloses(s)
      BY <2>6 DEF SubCloses, TypeOK, SubStates
    <2> QED
      BY <1>8, <2>1, <2>2, <2>3, <2>4, <2>5, <2>6 DEF SubSteps
  <1>9. CASE Over \/ UNCHANGED vars
    BY <1>9 DEF Over, vars, TypeOK
  <1> QED
    BY <1>1, <1>2, <1>3, <1>4, <1>5, <1>6, <1>7, <1>8, <1>9 DEF Next

-----------------------------------------------------------------------------
(* Opening and notice *)

\* A handle stays open once open() has returned it.
LEMMA OpenStays == opening = "open" /\ [Next]_vars => opening' = "open"
  <1> SUFFICES ASSUME opening = "open", [Next]_vars PROVE opening' = "open"
    OBVIOUS
  <1>1. CASE OpenSteps \/ ServerSteps
    BY <1>1, OpStepsChangeOps DEF OpenSteps, Resolve, Resolving, Attach, AttachFails, Attaching, ServerSteps,
       ServerEnds, LeaseExpires, LeaseDropped, ReleaseCancels
  <1>2. CASE MonitorSteps \/ OwnerSteps \/ CancelSteps
    BY <1>2 DEF MonitorSteps, StreamEnds, MarkTests, MarkSets, MarkSwaps, MonitorTells,
       OwnerSteps, InstallsCallback, OwnerTests, CancelSteps, CancelStarts, CancelPosts, CancelRetries
  <1>3. ASSUME NEW c \in Calls, CallSteps(c) PROVE opening' = "open"
    BY <1>3 DEF CallSteps, CallBegins, CallConnects, CallSends, CallAnswered, CallFails
  <1>4. ASSUME NEW k \in Closers, CloseSteps(k) PROVE opening' = "open"
    BY <1>4 DEF CloseSteps, CloseTests, CloseSets, CloseSnapshots, CloseReleases, CloseSwaps, CloseWaits
  <1>5. ASSUME NEW s \in Subscribers, SubSteps(s) PROVE opening' = "open"
    BY <1>5 DEF SubSteps, Subscribes, SubOpens, SubAdds, SubStreamEnds, SubReadsEnd, SubCloses
  <1>6. CASE Over \/ UNCHANGED vars
    BY <1>6 DEF Over, vars
  <1> QED
    BY <1>1, <1>2, <1>3, <1>4, <1>5, <1>6 DEF Next

\* Before that nobody else has anything to do with it.
LEMMA NobodyYet ==
  ASSUME Started, opening # "open", Next
  PROVE  \/ OpenSteps \/ ServerSteps
         \/ \E s \in Subscribers : SubStreamEnds(s)
         \/ UNCHANGED vars
  <1>1. ~MonitorSteps /\ ~OwnerSteps /\ ~CancelSteps
    BY DEF Started, MonitorSteps, StreamEnds, MarkTests, MarkSets, MarkSwaps, MonitorTells,
       OwnerSteps, InstallsCallback, OwnerTests, CancelSteps, CancelStarts, CancelPosts, CancelRetries
  <1>2. \A c \in Calls : ~CallSteps(c)
    BY DEF Started, CallSteps, CallBegins, CallConnects, CallSends, CallAnswered, CallFails
  <1>3. \A k \in Closers : ~CloseSteps(k)
    BY DEF Started, CloseSteps, CloseTests, CloseSets, CloseSnapshots, CloseReleases, CloseSwaps, CloseWaits
  <1>4. \A s \in Subscribers : SubSteps(s) => SubStreamEnds(s)
    BY DEF Started, SubSteps, Subscribes, SubOpens, SubAdds, SubReadsEnd, SubCloses
  <1> QED
    BY <1>1, <1>2, <1>3, <1>4 DEF Next, Over

LEMMA StartedStep == Started /\ [Next]_vars => Started'
  <1> SUFFICES ASSUME Started, [Next]_vars, opening' # "open" PROVE Started'
    BY DEF Started
  <1>1. opening # "open"
    BY OpenStays
  <1>2. \/ OpenSteps \/ ServerSteps
        \/ \E s \in Subscribers : SubStreamEnds(s)
        \/ UNCHANGED vars
    BY <1>1, NobodyYet
  <1>3. UNCHANGED <<flagVars, noticeVars, monitor, canceller, call, closer, sub>>
    <2>1. CASE OpenSteps
      BY <2>1 DEF OpenSteps, Resolve, Attach, AttachFails, callVars, cancelVars, closeVars, subVars
    <2>2. CASE ServerSteps
      BY <2>2, OpStepsChangeOps DEF ServerSteps, ServerEnds, LeaseExpires, LeaseDropped, 
         ReleaseCancels, callVars, cancelVars, closeVars, subVars
    <2>3. ASSUME NEW s \in Subscribers, SubStreamEnds(s)
          PROVE  UNCHANGED <<flagVars, noticeVars, monitor, canceller, call, closer, sub>>
      BY <2>3 DEF SubStreamEnds, callVars, cancelVars, closeVars
    <2> QED
      BY <1>2, <2>1, <2>2, <2>3 DEF vars, callVars, cancelVars, closeVars, subVars
  <1> QED
    BY <1>1, <1>3 DEF Started, flagVars, noticeVars

LEMMA NoticesStep == TypeOK /\ Started /\ Notices /\ [Next]_vars => Notices'
  <1> SUFFICES ASSUME TypeOK, Started, Notices, [Next]_vars PROVE Notices'
    OBVIOUS
  <1> USE DEF flagVars, noticeVars
  <1>1. CASE UNCHANGED <<disconnected, noticeVars, monitor>>
    BY <1>1 DEF Notices
  <1>2. CASE OpenSteps
    <2>1. CASE Attach
      BY <2>1 DEF Attach, Attaching, Started, Notices
    <2>2. CASE Resolve \/ AttachFails
      BY <1>1, <2>2 DEF Resolve, AttachFails
    <2> QED
      BY <1>2, <2>1, <2>2 DEF OpenSteps
  <1>3. CASE MonitorSteps
    <2>1. CASE StreamEnds
      BY <2>1 DEF StreamEnds, Notices
    <2>2. CASE MarkTests
      BY <2>2 DEF MarkTests, Notices, TypeOK
    <2>3. CASE MarkSets
      BY <2>3 DEF MarkSets, Notices
    <2>4. CASE MarkSwaps
      BY <2>4 DEF MarkSwaps, Notices
    <2>5. CASE MonitorTells
      BY <2>5 DEF MonitorTells, Notices, TypeOK
    <2> QED
      BY <1>3, <2>1, <2>2, <2>3, <2>4, <2>5 DEF MonitorSteps
  <1>4. CASE OwnerSteps
    BY <1>4 DEF OwnerSteps, InstallsCallback, OwnerTests, Notices, TypeOK
  <1>5. CASE ServerSteps \/ CancelSteps
    BY <1>1, <1>5, OpStepsChangeOps DEF ServerSteps, ServerEnds, LeaseExpires, LeaseDropped, 
       ReleaseCancels, CancelSteps, CancelStarts, CancelPosts, CancelRetries
  <1>6. ASSUME NEW c \in Calls, CallSteps(c) PROVE Notices'
    BY <1>1, <1>6 DEF CallSteps, CallBegins, CallConnects, CallSends, CallAnswered, CallFails
  <1>7. ASSUME NEW k \in Closers, CloseSteps(k) PROVE Notices'
    BY <1>1, <1>7 DEF CloseSteps, CloseTests, CloseSets, CloseSnapshots, CloseReleases, CloseSwaps, CloseWaits
  <1>8. ASSUME NEW s \in Subscribers, SubSteps(s) PROVE Notices'
    BY <1>1, <1>8 DEF SubSteps, Subscribes, SubOpens, SubAdds, SubStreamEnds, SubReadsEnd, SubCloses
  <1>9. CASE Over \/ UNCHANGED vars
    BY <1>1, <1>9 DEF Over, vars
  <1> QED
    BY <1>2, <1>3, <1>4, <1>5, <1>6, <1>7, <1>8, <1>9 DEF Next

-----------------------------------------------------------------------------
(* Calls, their operations and their cancellation *)

\* The steps that are not a call's leave all of its variables alone.
LEMMA CallsUntouched ==
  ASSUME [Next]_vars, \A c \in Calls : ~CallSteps(c)
  PROVE  UNCHANGED callVars
  <1> USE DEF callVars
  <1>1. CASE OpenSteps
    BY <1>1 DEF OpenSteps, Resolve, Attach, AttachFails
  <1>2. CASE ServerSteps
    BY <1>2, OpStepsChangeOps DEF ServerSteps, ServerEnds, LeaseExpires, LeaseDropped, ReleaseCancels
  <1>3. CASE MonitorSteps
    BY <1>3 DEF MonitorSteps, StreamEnds, MarkTests, MarkSets, MarkSwaps, MonitorTells
  <1>4. CASE OwnerSteps \/ CancelSteps
    BY <1>4 DEF OwnerSteps, InstallsCallback, OwnerTests, CancelSteps, CancelStarts, CancelPosts, CancelRetries
  <1>5. ASSUME NEW k \in Closers, CloseSteps(k) PROVE UNCHANGED callVars
    BY <1>5 DEF CloseSteps, CloseTests, CloseSets, CloseSnapshots, CloseReleases, CloseSwaps, CloseWaits
  <1>6. ASSUME NEW s \in Subscribers, SubSteps(s) PROVE UNCHANGED callVars
    BY <1>6 DEF SubSteps, Subscribes, SubOpens, SubAdds, SubStreamEnds, SubReadsEnd, SubCloses
  <1>7. CASE Over \/ UNCHANGED vars
    BY <1>7 DEF Over, vars
  <1> QED
    BY <1>1, <1>2, <1>3, <1>4, <1>5, <1>6, <1>7 DEF Next

LEMMA CallsStep == TypeOK /\ CallsKept /\ [Next]_vars => CallsKept'
  <1> SUFFICES ASSUME TypeOK, CallsKept, [Next]_vars PROVE CallsKept'
    OBVIOUS
  <1> USE HandleAssumption
  <1>1. ASSUME NEW c \in Calls, CallBegins(c) PROVE CallsKept'
    BY <1>1 DEF CallBegins, CallsKept, TypeOK
  <1>2. ASSUME NEW c \in Calls, CallConnects(c) PROVE CallsKept'
    <2>1. CASE closed
      BY <1>2, <2>1 DEF CallConnects, CallsKept, TypeOK, rpcVars
    <2>2. CASE ~closed
      <3>1. PICK used \in {rpc, c} \ {NoCall} : conn' = [conn EXCEPT ![c] = used]
        BY <1>2, <2>2 DEF CallConnects
      <3>2. used \in Calls
        BY <3>1 DEF TypeOK
      <3> QED
        BY <1>2, <2>2, <3>1, <3>2 DEF CallConnects, CallsKept, TypeOK
    <2> QED
      BY <2>1, <2>2
  <1>3. ASSUME NEW c \in Calls, CallSends(c) PROVE CallsKept'
    BY <1>3 DEF CallSends, CallsKept, TypeOK
  <1>4. ASSUME NEW c \in Calls, NEW how \in CallEnded, Ends(c, how), call[c] \in {"connected", "sent"}
        PROVE  CallsKept'
    BY <1>4 DEF Ends, CallsKept, TypeOK, CallEnded
  <1>5. ASSUME NEW c \in Calls, CallAnswered(c) PROVE CallsKept'
    BY <1>4, <1>5 DEF CallAnswered, CallEnded
  <1>6. ASSUME NEW c \in Calls, CallFails(c) PROVE CallsKept'
    BY <1>4, <1>6 DEF CallFails, CallEnded
  <1>7. CASE \A c \in Calls : ~CallSteps(c)
    <2>1. UNCHANGED callVars
      BY <1>7, CallsUntouched
    <2> QED
      BY <2>1 DEF CallsKept, callVars
  <1> QED
    BY <1>1, <1>2, <1>3, <1>5, <1>6, <1>7 DEF CallSteps

\* Who changes what the instance knows of an operation.
LEMMA OpsUntouched ==
  ASSUME [Next]_vars, ~CancelPosts,
         ~ReleaseCancels, \A c \in Calls : ~OperationSteps(c) /\ ~CallSends(c)
  PROVE  UNCHANGED op
  <1> USE DEF serverVars
  <1>1. CASE OpenSteps
    BY <1>1 DEF OpenSteps, Resolve, Attach, AttachFails
  <1>2. CASE ServerSteps
    BY <1>2 DEF ServerSteps, ServerEnds, LeaseExpires, LeaseDropped
  <1>3. CASE MonitorSteps
    BY <1>3 DEF MonitorSteps, StreamEnds, MarkTests, MarkSets, MarkSwaps, MonitorTells
  <1>4. CASE OwnerSteps \/ CancelSteps
    BY <1>4 DEF OwnerSteps, InstallsCallback, OwnerTests, CancelSteps, CancelStarts, CancelRetries
  <1>5. ASSUME NEW c \in Calls, CallSteps(c) PROVE UNCHANGED op
    BY <1>5 DEF CallSteps, CallBegins, CallConnects, CallAnswered, CallFails
  <1>6. ASSUME NEW k \in Closers, CloseSteps(k) PROVE UNCHANGED op
    BY <1>6 DEF CloseSteps, CloseTests, CloseSets, CloseSnapshots, CloseReleases, CloseSwaps, CloseWaits
  <1>7. ASSUME NEW s \in Subscribers, SubSteps(s) PROVE UNCHANGED op
    BY <1>7 DEF SubSteps, Subscribes, SubOpens, SubAdds, SubStreamEnds, SubReadsEnd, SubCloses
  <1>8. CASE Over \/ UNCHANGED vars
    BY <1>8 DEF Over, vars
  <1> QED
    BY <1>1, <1>2, <1>3, <1>4, <1>5, <1>6, <1>7, <1>8 DEF Next

\* An operation the instance has heard of is never unsent again, nor queued
\* again once it left the queue, nor rejected; and one that was done stays done.
LEMMA OpsAdvance ==
  ASSUME TypeOK, OpsKept, CancelKept, [Next]_vars, NEW c \in Calls
  PROVE  /\ op'[c] # op[c] => \/ op[c] = "unsent" /\ call[c] = "connected" /\ call'[c] = "sent"
                              \/ UnderWay(c) /\ op'[c] \notin {"unsent", "queued", "rejected"}
         /\ op'[c] = "unsent" => op[c] = "unsent"
  <1> USE DEF UnderWay, InBackend
  <1>1. ASSUME NEW d \in Calls, OperationSteps(d)
        PROVE  op'[c] = op[c] \/ (UnderWay(c) /\ op'[c] \notin {"unsent", "queued", "rejected"})
    <2>1. CASE OperationEnters(d)
      BY <2>1 DEF OperationEnters, OpBecomes, TypeOK
    <2>2. CASE OperationLeavesQueue(d) \/ OperationStarts(d) \/ OperationInterrupted(d)
      BY <2>2 DEF OperationLeavesQueue, OperationStarts, OperationInterrupted, OpBecomes, TypeOK
    <2>3. CASE OperationFinishes(d)
      BY <2>3 DEF OperationFinishes, OpBecomes, TypeOK
    <2> QED
      BY <1>1, <2>1, <2>2, <2>3 DEF OperationSteps
  <1>2. ASSUME CancelPosts
        PROVE  op'[c] = op[c] \/ (UnderWay(c) /\ op'[c] \notin {"unsent", "queued", "rejected"})
    <2>1. CASE UNCHANGED op
      BY <2>1
    <2>2. CASE op' = [op EXCEPT ![target] = CASE op[target] = "queued"  -> "flagged"
                                              [] op[target] = "running" -> "stopping"
                                              [] OTHER -> op[target]]
      <3>1. CASE c # target
        BY <2>2, <3>1 DEF TypeOK
      <3>2. CASE c = target
        BY <2>2, <3>2 DEF TypeOK
      <3> QED
        BY <3>1, <3>2
    <2> QED
      BY <1>2, <2>1, <2>2 DEF CancelPosts
  <1>5. ASSUME ReleaseCancels
        PROVE  op'[c] = op[c] \/ (UnderWay(c) /\ op'[c] \notin {"unsent", "queued", "rejected"})
    BY <1>5 DEF ReleaseCancels
  <1>3. ASSUME NEW d \in Calls, CallSends(d)
        PROVE  op'[c] = op[c] \/ (op[c] = "unsent" /\ call[c] = "connected" /\ call'[c] = "sent"
                                  /\ op'[c] # "unsent")
    BY <1>3 DEF CallSends, OpsKept, TypeOK
  <1>4. CASE UNCHANGED op
    BY <1>4
  <1> QED
    BY <1>1, <1>2, <1>3, <1>4, <1>5, OpsUntouched

\* How a call advances.
LEMMA CallsAdvance ==
  ASSUME TypeOK, [Next]_vars, NEW c \in Calls
  PROVE  \/ call'[c] = call[c]
         \/ call[c] = "idle" /\ call'[c] \in {"refused", "checked"}
         \/ call[c] = "checked" /\ call'[c] \in {"refused", "connected"} /\ UNCHANGED op
         \/ call[c] = "connected" /\ call'[c] = "sent"
         \/ call[c] \in {"connected", "sent"} /\ call'[c] = "failed"
         \/ call[c] = "sent" /\ call'[c] \in CallEnded \ {"refused"} /\ UNCHANGED op
              /\ (call'[c] = "ok" => op[c] = "done")
  <1>1. ASSUME NEW d \in Calls, CallBegins(d)
        PROVE  call'[c] = call[c] \/ (call[c] = "idle" /\ call'[c] \in {"refused", "checked"})
    BY <1>1 DEF CallBegins, TypeOK
  <1>2. ASSUME NEW d \in Calls, CallConnects(d)
        PROVE  call'[c] = call[c]
                 \/ (call[c] = "checked" /\ call'[c] \in {"refused", "connected"} /\ UNCHANGED op)
    BY <1>2 DEF CallConnects, TypeOK, serverVars
  <1>3. ASSUME NEW d \in Calls, CallSends(d)
        PROVE  call'[c] = call[c] \/ (call[c] = "connected" /\ call'[c] = "sent")
    BY <1>3 DEF CallSends, TypeOK
  <1>4. ASSUME NEW d \in Calls, CallAnswered(d)
        PROVE  \/ call'[c] = call[c]
               \/ call[c] = "sent" /\ call'[c] \in CallEnded \ {"refused"} /\ UNCHANGED op
                    /\ (call'[c] = "ok" => op[c] = "done")
    BY <1>4 DEF CallAnswered, Ends, TypeOK, CallEnded, serverVars
  <1>5. ASSUME NEW d \in Calls, CallFails(d)
        PROVE  call'[c] = call[c] \/ (call[c] \in {"connected", "sent"} /\ call'[c] = "failed")
    BY <1>5 DEF CallFails, Ends, TypeOK
  <1>6. CASE \A d \in Calls : ~CallSteps(d)
    <2>1. UNCHANGED callVars
      BY <1>6, CallsUntouched
    <2> QED
      BY <2>1 DEF callVars
  <1> QED
    BY <1>1, <1>2, <1>3, <1>4, <1>5, <1>6 DEF CallSteps

LEMMA OpsStep == TypeOK /\ OpsKept /\ CancelKept /\ [Next]_vars => OpsKept'
  <1> SUFFICES ASSUME TypeOK, OpsKept, CancelKept, [Next]_vars, NEW c \in Calls
               PROVE  /\ call'[c] \in {"idle", "checked", "connected", "refused"} => op'[c] = "unsent"
                      /\ call'[c] = "ok" => op'[c] = "done"
    BY DEF OpsKept
  <1>1. ASSUME call'[c] \in {"idle", "checked", "connected", "refused"} PROVE op'[c] = "unsent"
    <2>1. call[c] \in {"idle", "checked", "connected", "refused"}
      BY <1>1, CallsAdvance DEF CallEnded
    <2>2. op[c] = "unsent"
      BY <2>1 DEF OpsKept
    <2> QED
      BY <1>1, <2>2, OpsAdvance DEF UnderWay, InBackend
  <1>2. ASSUME call'[c] = "ok" PROVE op'[c] = "done"
    <2>1. op[c] = "done"
      BY <1>2, CallsAdvance DEF OpsKept
    <2> QED
      BY <2>1, OpsAdvance DEF UnderWay, InBackend
  <1> QED
    BY <1>1, <1>2

LEMMA CancelStep ==
  TypeOK /\ CallsKept /\ OpsKept /\ CancelKept /\ [Next]_vars => CancelKept'
  <1> SUFFICES ASSUME TypeOK, CallsKept, OpsKept, CancelKept, [Next]_vars PROVE CancelKept'
    OBVIOUS
  <1> USE HandleAssumption
  <1>1. CASE CancelStarts
    BY <1>1 DEF CancelStarts, CancelKept, CancelStates, TypeOK, callVars
  <1>2. CASE CancelPosts
    <2>1. /\ canceller' \in {"true", "retrying"} /\ UNCHANGED <<target, active, call>>
          /\ canceller' = "true" =>
               /\ UnderWay(target)
               /\ op' = [op EXCEPT ![target] = CASE op[target] = "queued"  -> "flagged"
                                                 [] op[target] = "running" -> "stopping"
                                                 [] OTHER -> op[target]]
      BY <1>2 DEF CancelPosts, callVars
    <2>2. target \in Calls /\ (active = target \/ call[target] \in CallEnded)
      BY <1>2 DEF CancelPosts, CancelKept, CancelStates
    <2>3. canceller' = "true" => op'[target] \notin {"unsent", "queued", "rejected"}
      BY <2>1, <2>2 DEF TypeOK, UnderWay, InBackend
    <2> QED
      BY <2>1, <2>2, <2>3 DEF CancelKept
  <1>3. CASE CancelRetries
    BY <1>3 DEF CancelRetries, CancelKept, CancelStates, TypeOK, callVars, serverVars
  <1>4. CASE UNCHANGED cancelVars
    <2>1. UNCHANGED <<canceller, target>>
      BY <1>4 DEF cancelVars
    <2>2. ASSUME canceller \in CancelStates \ {"idle", "nothing"}
          PROVE  active' = target \/ call'[target] \in CallEnded
      <3>1. target \in Calls /\ (active = target \/ call[target] \in CallEnded)
        BY <2>2 DEF CancelKept
      <3>2. CASE call[target] \in CallEnded
        BY <3>1, <3>2, CallsAdvance DEF CallEnded
      <3>3. CASE active = target
        <4>1. call[target] \in {"connected", "sent"}
          BY <3>1, <3>3 DEF CallsKept
        <4>2. call'[target] \in {"connected", "sent"} \cup CallEnded
          BY <3>1, <4>1, CallsAdvance DEF CallEnded
        <4>3. CallsKept'
          BY CallsStep
        <4> QED
          BY <3>1, <4>2, <4>3 DEF CallsKept
      <3> QED
        BY <3>1, <3>2, <3>3
    <2>3. canceller = "over" => call'[target] \in CallEnded
      BY CallsAdvance DEF CancelKept, CancelStates, CallEnded
    <2>4. canceller = "true" => op'[target] \notin {"unsent", "queued", "rejected"}
      BY OpsAdvance DEF CancelKept, CancelStates
    <2>5. canceller \in CancelStates \ {"idle", "nothing"} => target \in Calls
      BY DEF CancelKept
    <2> QED
      BY <2>1, <2>2, <2>3, <2>4, <2>5 DEF CancelKept
  <1>5. CASE OpenSteps \/ ServerSteps
    BY <1>4, <1>5, OpStepsChangeOps DEF OpenSteps, Resolve, Attach, AttachFails, ServerSteps,
       ServerEnds, LeaseExpires, LeaseDropped, ReleaseCancels
  <1>6. CASE MonitorSteps \/ OwnerSteps
    BY <1>4, <1>6 DEF MonitorSteps, StreamEnds, MarkTests, MarkSets, MarkSwaps, MonitorTells,
       OwnerSteps, InstallsCallback, OwnerTests
  <1>7. ASSUME NEW c \in Calls, CallSteps(c) PROVE CancelKept'
    BY <1>4, <1>7 DEF CallSteps, CallBegins, CallConnects, CallSends, CallAnswered, CallFails
  <1>8. ASSUME NEW k \in Closers, CloseSteps(k) PROVE CancelKept'
    BY <1>4, <1>8 DEF CloseSteps, CloseTests, CloseSets, CloseSnapshots, CloseReleases, CloseSwaps, CloseWaits
  <1>9. ASSUME NEW s \in Subscribers, SubSteps(s) PROVE CancelKept'
    BY <1>4, <1>9 DEF SubSteps, Subscribes, SubOpens, SubAdds, SubStreamEnds, SubReadsEnd, SubCloses
  <1>10. CASE Over \/ UNCHANGED vars
    BY <1>4, <1>10 DEF Over, vars, cancelVars
  <1> QED
    BY <1>1, <1>2, <1>3, <1>5, <1>6, <1>7, <1>8, <1>9, <1>10 DEF Next, CancelSteps

-----------------------------------------------------------------------------
(* Closing *)

\* A closed handle stays closed, and an instance that is down stays down once
\* the handle is open.
LEMMA EndsStay ==
  ASSUME TypeOK, [Next]_vars
  PROVE  /\ closed => closed'
         /\ server = "down" /\ opening = "open" => server' = "down"
  <1> USE DEF serverVars, flagVars
  <1>1. CASE OpenSteps
    <2>1. CASE Resolve
      <3>1. opening # "open" /\ UNCHANGED closed
        BY <2>1 DEF Resolve, Resolving
      <3> QED
        BY <3>1
    <2>2. CASE Attach \/ AttachFails
      <3>1. UNCHANGED <<closed, server>>
        BY <2>2 DEF Attach, AttachFails
      <3> QED
        BY <3>1
    <2> QED
      BY <1>1, <2>1, <2>2 DEF OpenSteps
  <1>2. CASE ServerSteps
    BY <1>2, OpStepsChangeOps DEF ServerSteps, ServerEnds, LeaseExpires, LeaseDropped, ReleaseCancels
  <1>3. CASE MonitorSteps
    BY <1>3 DEF MonitorSteps, StreamEnds, MarkTests, MarkSets, MarkSwaps, MonitorTells
  <1>4. CASE OwnerSteps \/ CancelSteps
    BY <1>4 DEF OwnerSteps, InstallsCallback, OwnerTests, CancelSteps, CancelStarts, CancelPosts, CancelRetries
  <1>5. ASSUME NEW c \in Calls, CallSteps(c)
        PROVE  UNCHANGED <<closed, server>>
    BY <1>5 DEF CallSteps, CallBegins, CallConnects, CallSends, CallAnswered, CallFails
  <1>6. ASSUME NEW k \in Closers, CloseSteps(k)
        PROVE  (closed => closed') /\ (server = "down" => server' = "down")
    BY <1>6 DEF CloseSteps, CloseTests, CloseSets, CloseSnapshots, CloseReleases, InstanceReleases,
       CloseSwaps, CloseWaits
  <1>7. ASSUME NEW s \in Subscribers, SubSteps(s) PROVE UNCHANGED <<closed, server>>
    BY <1>7 DEF SubSteps, Subscribes, SubOpens, SubAdds, SubStreamEnds, SubReadsEnd, SubCloses
  <1>8. CASE Over \/ UNCHANGED vars
    BY <1>8 DEF Over, vars
  <1> QED
    BY <1>1, <1>2, <1>3, <1>4, <1>5, <1>6, <1>7, <1>8 DEF Next

\* A closer advances by its own steps only, along the order of close().
LEMMA ClosersAdvance ==
  ASSUME TypeOK, [Next]_vars, NEW k \in Closers
  PROVE  \/ closer'[k] = closer[k]
         \/ closer[k] = "idle" /\ closer'[k] = "already" /\ closed
         \/ closer[k] = "idle" /\ closer'[k] = "setting"
         \/ closer[k] = "setting" /\ closer'[k] = "snapshot" /\ closed'
         \/ closer[k] = "snapshot" /\ closer'[k] = "release" /\ registry' = {}
         \/ closer[k] = "release" /\ closer'[k] = "swap"
         \/ closer[k] = "swap" /\ closer'[k] \in {"wait", "not_final"} /\ rpc' = NoCall
         \/ closer[k] = "wait" /\ closer'[k] = "timed_out"
         \/ closer[k] = "wait" /\ closer'[k] = "final" /\ server' = "down"
  <1> USE DEF closeVars
  <1>1. CASE OpenSteps
    BY <1>1 DEF OpenSteps, Resolve, Attach, AttachFails
  <1>2. CASE ServerSteps
    BY <1>2, OpStepsChangeOps DEF ServerSteps, ServerEnds, LeaseExpires, LeaseDropped, ReleaseCancels
  <1>3. CASE MonitorSteps
    BY <1>3 DEF MonitorSteps, StreamEnds, MarkTests, MarkSets, MarkSwaps, MonitorTells
  <1>4. CASE OwnerSteps \/ CancelSteps
    BY <1>4 DEF OwnerSteps, InstallsCallback, OwnerTests, CancelSteps, CancelStarts, CancelPosts, CancelRetries
  <1>5. ASSUME NEW c \in Calls, CallSteps(c) PROVE UNCHANGED closer
    BY <1>5 DEF CallSteps, CallBegins, CallConnects, CallSends, CallAnswered, CallFails
  <1>6. ASSUME NEW j \in Closers, j # k, CloseSteps(j) PROVE closer'[k] = closer[k]
    BY <1>6 DEF CloseSteps, CloseTests, CloseSets, CloseSnapshots, CloseReleases, CloseSwaps, CloseWaits, TypeOK
  <1>7. CASE CloseTests(k) \/ CloseSets(k) \/ CloseSnapshots(k)
    BY <1>7 DEF CloseTests, CloseSets, CloseSnapshots, TypeOK
  <1>8. CASE CloseReleases(k)
    BY <1>8 DEF CloseReleases, TypeOK
  <1>9. CASE CloseSwaps(k)
    BY <1>9 DEF CloseSwaps, TypeOK
  <1>10. CASE CloseWaits(k)
    BY <1>10 DEF CloseWaits, TypeOK, serverVars
  <1>11. ASSUME NEW s \in Subscribers, SubSteps(s) PROVE UNCHANGED closer
    BY <1>11 DEF SubSteps, Subscribes, SubOpens, SubAdds, SubStreamEnds, SubReadsEnd, SubCloses
  <1>12. CASE Over \/ UNCHANGED vars
    BY <1>12 DEF Over, vars
  <1> QED
    BY <1>1, <1>2, <1>3, <1>4, <1>5, <1>6, <1>7, <1>8, <1>9, <1>10, <1>11, <1>12 DEF Next, CloseSteps

LEMMA ClosersStep == TypeOK /\ Started /\ ClosersKept /\ [Next]_vars => ClosersKept'
  <1> SUFFICES ASSUME TypeOK, Started, ClosersKept, [Next]_vars, NEW k \in Closers
               PROVE  /\ closer'[k] \notin {"idle", "setting"} => closed'
                      /\ closer'[k] = "final" => server' = "down"
    BY DEF ClosersKept
  <1>1. closer'[k] \notin {"idle", "setting"} => closed'
    BY ClosersAdvance, EndsStay DEF ClosersKept
  <1>2. ASSUME closer'[k] = "final", closer[k] = "final" PROVE server' = "down"
    BY <1>2, EndsStay DEF ClosersKept, Started
  <1>3. ASSUME closer'[k] = "final", closer[k] # "final" PROVE server' = "down"
    BY <1>3, ClosersAdvance
  <1> QED
    BY <1>1, <1>2, <1>3

-----------------------------------------------------------------------------
(* Subscriptions *)

\* The subscriptions are taken by the steps that empty the registry.
LEMMA TakenLemma ==
  ASSUME TypeOK, Started, Notices, ClosersKept, [Next]_vars, SubscriptionsTaken'
  PROVE  SubscriptionsTaken \/ registry' = {}
  <1>1. ASSUME NEW k \in Closers, closed',
               closer'[k] \notin {"idle", "setting", "snapshot", "already"}
        PROVE  SubscriptionsTaken \/ registry' = {}
    <2>1. CASE closer[k] \in {"idle", "setting", "snapshot", "already"}
      BY <1>1, <2>1, ClosersAdvance
    <2>2. CASE closer[k] \notin {"idle", "setting", "snapshot", "already"}
      BY <2>2 DEF ClosersKept, SubscriptionsTaken
    <2> QED
      BY <2>1, <2>2
  <1>2. ASSUME disconnected', monitor' \in {"telling", "done"}
        PROVE  SubscriptionsTaken \/ registry' = {}
    <2> USE DEF flagVars
    <2>1. CASE disconnected /\ monitor \in {"telling", "done"}
      BY <2>1 DEF SubscriptionsTaken
    <2>2. CASE UNCHANGED <<disconnected, monitor>>
      BY <1>2, <2>2 DEF SubscriptionsTaken
    <2>3. CASE OpenSteps
      BY <1>2, <2>2, <2>3 DEF OpenSteps, Resolve, Attach, AttachFails
    <2>4. CASE MonitorSteps
      <3>1. CASE StreamEnds \/ MarkTests
        BY <1>2, <3>1 DEF StreamEnds, MarkTests, Notices
      <3>2. CASE MarkSets \/ MarkSwaps
        BY <1>2, <3>2 DEF MarkSets, MarkSwaps
      <3>3. CASE MonitorTells
        BY <2>1, <3>3 DEF MonitorTells, Notices
      <3> QED
        BY <2>4, <3>1, <3>2, <3>3 DEF MonitorSteps
    <2>5. CASE ServerSteps
      BY <2>2, <2>5, OpStepsChangeOps DEF ServerSteps, ServerEnds, LeaseExpires, LeaseDropped, ReleaseCancels
    <2>6. CASE OwnerSteps \/ CancelSteps
      BY <2>2, <2>6 DEF OwnerSteps, InstallsCallback, OwnerTests, CancelSteps, CancelStarts, CancelPosts, CancelRetries
    <2>7. ASSUME NEW c \in Calls, CallSteps(c) PROVE UNCHANGED <<disconnected, monitor>>
      BY <2>7 DEF CallSteps, CallBegins, CallConnects, CallSends, CallAnswered, CallFails
    <2>8. ASSUME NEW k \in Closers, CloseSteps(k) PROVE UNCHANGED <<disconnected, monitor>>
      BY <2>8 DEF CloseSteps, CloseTests, CloseSets, CloseSnapshots, CloseReleases, CloseSwaps, CloseWaits
    <2>9. ASSUME NEW s \in Subscribers, SubSteps(s) PROVE UNCHANGED <<disconnected, monitor>>
      BY <2>9 DEF SubSteps, Subscribes, SubOpens, SubAdds, SubStreamEnds, SubReadsEnd, SubCloses
    <2>10. CASE Over \/ UNCHANGED vars
      BY <2>2, <2>10 DEF Over, vars
    <2> QED
      BY <2>2, <2>3, <2>4, <2>5, <2>6, <2>7, <2>8, <2>9, <2>10 DEF Next
  <1> QED
    BY <1>1, <1>2 DEF SubscriptionsTaken

LEMMA SubsStep ==
  TypeOK /\ Started /\ Notices /\ ClosersKept /\ SubsKept /\ [Next]_vars => SubsKept'
  <1> SUFFICES ASSUME TypeOK, Started, Notices, ClosersKept, SubsKept, [Next]_vars PROVE SubsKept'
    OBVIOUS
  <1> USE DEF flagVars, subVars
  <1>1. CASE UNCHANGED subVars
    BY <1>1, TakenLemma DEF SubsKept
  <1>2. CASE OpenSteps
    BY <1>1, <1>2 DEF OpenSteps, Resolve, Attach, AttachFails
  <1>3. CASE ServerSteps
    <2>1. CASE ServerEnds
      BY <2>1, TakenLemma DEF ServerEnds, SubsKept
    <2>2. CASE ~ServerEnds
      BY <1>1, <1>3, <2>2, OpStepsChangeOps DEF ServerSteps, LeaseExpires, LeaseDropped, ReleaseCancels
    <2> QED
      BY <2>1, <2>2
  <1>4. CASE MonitorSteps
    <2>1. CASE MarkSwaps
      BY <2>1 DEF MarkSwaps, SubsKept
    <2>2. CASE ~MarkSwaps
      BY <1>1, <1>4, <2>2 DEF MonitorSteps, StreamEnds, MarkTests, MarkSets, MonitorTells
    <2> QED
      BY <2>1, <2>2
  <1>5. CASE OwnerSteps \/ CancelSteps
    BY <1>1, <1>5 DEF OwnerSteps, InstallsCallback, OwnerTests, CancelSteps, CancelStarts, CancelPosts, CancelRetries
  <1>6. ASSUME NEW c \in Calls, CallSteps(c) PROVE SubsKept'
    BY <1>1, <1>6 DEF CallSteps, CallBegins, CallConnects, CallSends, CallAnswered, CallFails
  <1>7. ASSUME NEW k \in Closers, CloseSteps(k) PROVE SubsKept'
    <2>1. CASE CloseSnapshots(k)
      BY <2>1 DEF CloseSnapshots, SubsKept
    <2>2. CASE ~CloseSnapshots(k)
      BY <1>1, <1>7, <2>2 DEF CloseSteps, CloseTests, CloseSets, CloseReleases, CloseSwaps, CloseWaits
    <2> QED
      BY <2>1, <2>2
  <1>8. ASSUME NEW s \in Subscribers, SubSteps(s) PROVE SubsKept'
    <2>1. CASE Subscribes(s)
      BY <2>1, TakenLemma DEF Subscribes, SubsKept, TypeOK
    <2>2. CASE SubOpens(s)
      BY <2>2, TakenLemma DEF SubOpens, SubsKept, TypeOK
    <2>3. CASE SubAdds(s)
      <3>1. CASE closed \/ disconnected
        BY <2>3, <3>1, TakenLemma DEF SubAdds, SubsKept, TypeOK
      <3>2. CASE ~(closed \/ disconnected)
        <4>1. ~SubscriptionsTaken'
          BY <2>3, <3>2 DEF SubAdds, SubscriptionsTaken
        <4> QED
          BY <2>3, <3>2, <4>1 DEF SubAdds, SubsKept, TypeOK
      <3> QED
        BY <3>1, <3>2
    <2>4. CASE SubStreamEnds(s)
      BY <2>4, TakenLemma DEF SubStreamEnds, SubsKept, TypeOK
    <2>5. CASE SubReadsEnd(s)
      BY <2>5, TakenLemma DEF SubReadsEnd, SubsKept, TypeOK
    <2>6. CASE SubCloses(s)
      BY <2>6, TakenLemma DEF SubCloses, SubsKept, TypeOK
    <2> QED
      BY <1>8, <2>1, <2>2, <2>3, <2>4, <2>5, <2>6 DEF SubSteps
  <1>9. CASE Over \/ UNCHANGED vars
    BY <1>1, <1>9 DEF Over, vars
  <1> QED
    BY <1>2, <1>3, <1>4, <1>5, <1>6, <1>7, <1>8, <1>9 DEF Next

-----------------------------------------------------------------------------
(* Connections *)

\* The handle has no connection once a closer has swapped it out.
LEMMA RpcStep ==
  ASSUME HandleInv, [Next]_vars, NEW k \in Closers,
         closer'[k] \in CloserEnded \ {"already"} \/ closer'[k] = "wait"
  PROVE  rpc' = NoCall
  <1> USE DEF HandleInv, rpcVars
  <1>1. CASE closer[k] = "swap"
    BY <1>1, ClosersAdvance DEF CloserEnded
  <1>2. CASE closer[k] # "swap"
    <2>1. closer[k] \in CloserEnded \ {"already"} \/ closer[k] = "wait"
      BY <1>2, ClosersAdvance DEF CloserEnded
    <2>2. rpc = NoCall /\ closed
      BY <2>1 DEF SocketsKept, ClosersKept, CloserEnded
    <2>3. ASSUME NEW c \in Calls, CallSteps(c) PROVE rpc' = NoCall
      BY <2>2, <2>3 DEF CallSteps, CallBegins, CallConnects, CallSends, CallAnswered, CallFails
    <2>4. CASE OpenSteps
      BY <2>2, <2>4 DEF OpenSteps, Resolve, Attach, AttachFails
    <2>5. CASE ServerSteps
      BY <2>2, <2>5, OpStepsChangeOps DEF ServerSteps, ServerEnds, LeaseExpires, LeaseDropped, ReleaseCancels
    <2>6. CASE MonitorSteps
      BY <2>2, <2>6 DEF MonitorSteps, StreamEnds, MarkTests, MarkSets, MarkSwaps, MonitorTells
    <2>7. CASE OwnerSteps \/ CancelSteps
      BY <2>2, <2>7 DEF OwnerSteps, InstallsCallback, OwnerTests, CancelSteps, CancelStarts, CancelPosts, CancelRetries
    <2>8. ASSUME NEW j \in Closers, CloseSteps(j) PROVE rpc' = NoCall
      BY <2>2, <2>8 DEF CloseSteps, CloseTests, CloseSets, CloseSnapshots, CloseReleases, CloseSwaps, CloseWaits
    <2>9. ASSUME NEW s \in Subscribers, SubSteps(s) PROVE rpc' = NoCall
      BY <2>2, <2>9 DEF SubSteps, Subscribes, SubOpens, SubAdds, SubStreamEnds, SubReadsEnd, SubCloses
    <2>10. CASE Over \/ UNCHANGED vars
      BY <2>2, <2>10 DEF Over, vars
    <2> QED
      BY <2>3, <2>4, <2>5, <2>6, <2>7, <2>8, <2>9, <2>10 DEF Next
  <1> QED
    BY <1>1, <1>2

\* Each open socket is the handle's or that of the call that uses it.
SocketsOwned ==
  \A x \in sockets : \/ x = rpc
                     \/ \E c \in Calls : call[c] \in {"connected", "sent"} /\ conn[c] = x

LEMMA OwnedStep ==
  TypeOK /\ CallsKept /\ SocketsOwned /\ [Next]_vars => SocketsOwned'
  <1> SUFFICES ASSUME TypeOK, CallsKept, SocketsOwned, [Next]_vars PROVE SocketsOwned'
    OBVIOUS
  <1> USE DEF rpcVars
  <1>1. ASSUME NEW c \in Calls, CallBegins(c) PROVE SocketsOwned'
    BY <1>1 DEF CallBegins, SocketsOwned, TypeOK
  <1>2. ASSUME NEW c \in Calls, CallConnects(c) PROVE SocketsOwned'
    <2>1. CASE closed
      BY <1>2, <2>1 DEF CallConnects, SocketsOwned, TypeOK
    <2>2. CASE ~closed
      <3>1. \A d \in Calls : call[d] \notin {"connected", "sent"}
        BY <1>2 DEF CallConnects, CallsKept
      <3>2. \A x \in sockets : x = rpc
        BY <3>1 DEF SocketsOwned
      <3>3. \A x \in sockets' : x = rpc'
        BY <1>2, <2>2, <3>2 DEF CallConnects
      <3> QED
        BY <3>3 DEF SocketsOwned
    <2> QED
      BY <2>1, <2>2
  <1>3. ASSUME NEW c \in Calls, CallSends(c) PROVE SocketsOwned'
    <2>1. /\ sockets' = sockets \cup {conn[c]} /\ UNCHANGED <<rpc, conn>>
          /\ call'[c] = "sent" /\ \A d \in Calls : d # c => call'[d] = call[d]
      BY <1>3 DEF CallSends, TypeOK
    <2> QED
      BY <2>1 DEF SocketsOwned
  <1>4. ASSUME NEW c \in Calls, NEW how, Ends(c, how), call[c] \in {"connected", "sent"}
        PROVE  \A x \in sockets \ {conn[c]} : x = rpc
    BY <1>4 DEF SocketsOwned, CallsKept
  <1>5. ASSUME NEW c \in Calls, CallAnswered(c) PROVE SocketsOwned'
    <2>1. \A x \in sockets \ {conn[c]} : x = rpc
      BY <1>4, <1>5 DEF CallAnswered
    <2> QED
      BY <1>5, <2>1 DEF CallAnswered, SocketsOwned
  <1>6. ASSUME NEW c \in Calls, CallFails(c) PROVE SocketsOwned'
    <2>1. \A x \in sockets \ {conn[c]} : x = rpc
      BY <1>4, <1>6 DEF CallFails
    <2> QED
      BY <1>6, <2>1 DEF CallFails, SocketsOwned
  <1>7. ASSUME UNCHANGED <<call, conn>>,
               \/ UNCHANGED <<rpc, sockets>>
               \/ (rpc' = NoCall /\ sockets' = sockets \ {rpc})
        PROVE  SocketsOwned'
    BY <1>7 DEF SocketsOwned
  <1>8. CASE \A c \in Calls : ~CallSteps(c)
    <2>1. UNCHANGED <<call, conn>>
      BY <1>8, CallsUntouched DEF callVars
    <2>2. CASE OpenSteps
      <3>1. UNCHANGED <<rpc, sockets>>
        BY <2>2 DEF OpenSteps, Resolve, Attach, AttachFails
      <3> QED
        BY <1>7, <2>1, <3>1
    <2>3. CASE ServerSteps
      <3>1. UNCHANGED <<rpc, sockets>>
        BY <2>3, OpStepsChangeOps DEF ServerSteps, ServerEnds, LeaseExpires, LeaseDropped, ReleaseCancels
      <3> QED
        BY <1>7, <2>1, <3>1
    <2>4. CASE MonitorSteps
      <3>1. \/ UNCHANGED <<rpc, sockets>>
            \/ (rpc' = NoCall /\ sockets' = sockets \ {rpc})
        BY <2>4 DEF MonitorSteps, StreamEnds, MarkTests, MarkSets, MarkSwaps, MonitorTells
      <3> QED
        BY <1>7, <2>1, <3>1
    <2>5. CASE OwnerSteps \/ CancelSteps
      <3>1. UNCHANGED <<rpc, sockets>>
        BY <2>5 DEF OwnerSteps, InstallsCallback, OwnerTests, CancelSteps, CancelStarts, CancelPosts, CancelRetries
      <3> QED
        BY <1>7, <2>1, <3>1
    <2>6. ASSUME NEW j \in Closers, CloseSteps(j) PROVE SocketsOwned'
      <3>1. \/ UNCHANGED <<rpc, sockets>>
            \/ (rpc' = NoCall /\ sockets' = sockets \ {rpc})
        BY <2>6 DEF CloseSteps, CloseTests, CloseSets, CloseSnapshots, CloseReleases, CloseSwaps, CloseWaits
      <3> QED
        BY <1>7, <2>1, <3>1
    <2>7. ASSUME NEW s \in Subscribers, SubSteps(s) PROVE SocketsOwned'
      <3>1. UNCHANGED <<rpc, sockets>>
        BY <2>7 DEF SubSteps, Subscribes, SubOpens, SubAdds, SubStreamEnds, SubReadsEnd, SubCloses
      <3> QED
        BY <1>7, <2>1, <3>1
    <2>8. CASE Over \/ UNCHANGED vars
      <3>1. UNCHANGED <<rpc, sockets>>
        BY <2>8 DEF Over, vars
      <3> QED
        BY <1>7, <2>1, <3>1
    <2> QED
      BY <1>8, <2>2, <2>3, <2>4, <2>5, <2>6, <2>7, <2>8 DEF Next
  <1> QED
    BY <1>1, <1>2, <1>3, <1>5, <1>6, <1>8 DEF CallSteps

LEMMA SocketsStep == HandleInv /\ [Next]_vars => SocketsKept'
  <1> SUFFICES ASSUME HandleInv, [Next]_vars PROVE SocketsKept'
    OBVIOUS
  <1>1. SocketsOwned'
    BY OwnedStep DEF HandleInv, SocketsKept, SocketsOwned
  <1>2. (\E k \in Closers : closer'[k] \in CloserEnded \ {"already"} \/ closer'[k] = "wait") => rpc' = NoCall
    BY RpcStep
  <1> QED
    BY <1>1, <1>2 DEF SocketsKept, SocketsOwned

-----------------------------------------------------------------------------
(* The theorems *)

LEMMA HandleStep == HandleInv /\ [Next]_vars => HandleInv'
  <1> SUFFICES ASSUME HandleInv, [Next]_vars PROVE HandleInv'
    OBVIOUS
  <1>1. /\ TypeOK /\ Started /\ Notices /\ CallsKept /\ OpsKept /\ CancelKept
        /\ ClosersKept /\ SubsKept
    BY DEF HandleInv
  <1>2. TypeOK' /\ Started' /\ Notices'
    BY <1>1, TypeStep, StartedStep, NoticesStep
  <1>3. CallsKept' /\ OpsKept' /\ CancelKept'
    BY <1>1, CallsStep, OpsStep, CancelStep
  <1>4. ClosersKept' /\ SubsKept' /\ SocketsKept'
    BY <1>1, ClosersStep, SubsStep, SocketsStep
  <1> QED
    BY <1>2, <1>3, <1>4 DEF HandleInv

\* Every reachable state keeps the promises of each actor's tests.
THEOREM HandleInvariant == Spec => []HandleInv
  BY HandleInit, HandleStep, PTL DEF Spec

\* The type invariant; it says that the owner hears of a loss twice at most.
THEOREM TypeCorrect == Spec => []TypeOK
  <1>1. HandleInv => TypeOK
    BY DEF HandleInv
  <1> QED
    BY <1>1, HandleInvariant, PTL

\* However calls, subscriptions, close() and the loss of the instance overlap,
\* no subscription and no connection outlives the handle.
THEOREM NothingOutlivesTheHandle == Spec => []NothingSurvives
  <1>1. ASSUME HandleInv PROVE NothingSurvives
    <2>1. NoSurvivingSubscription
      BY <1>1 DEF HandleInv, SubsKept, NoSurvivingSubscription
    <2>2. NoSurvivingConnection
      <3> SUFFICES ASSUME \E k \in Closers : closer[k] \in CloserEnded \ {"already"},
                          \A c \in Calls : call[c] \in CallEnded \cup {"idle"}
                   PROVE  rpc = NoCall /\ sockets = {}
        BY DEF NoSurvivingConnection
      <3>1. rpc = NoCall
        BY <1>1 DEF HandleInv, SocketsKept
      <3>2. \A x \in sockets : x = rpc
        BY <1>1 DEF HandleInv, SocketsKept, CallEnded
      <3>3. sockets \subseteq Calls
        BY <1>1 DEF HandleInv, TypeOK
      <3> QED
        BY <3>1, <3>2, <3>3, HandleAssumption
    <2> QED
      BY <2>1, <2>2 DEF NothingSurvives
  <1> QED
    BY <1>1, HandleInvariant, PTL

\* For any number of calls and closers: a refusal, a result and a final close
\* tell what happened at the instance; cancel_active says FALSE before its
\* deadline only of a call that has returned, and TRUE only of an operation
\* that can no longer be started from the queue (not that it stops).
THEOREM AnswersHold == Spec => []AnswersAreTrue
  <1>1. HandleInv => AnswersAreTrue
    BY DEF HandleInv, OpsKept, CancelKept, ClosersKept, AnswersAreTrue
  <1> QED
    BY <1>1, HandleInvariant, PTL

\* No operation is sent twice.
THEOREM NothingIsReplayed == Spec => NeverReplayed
  <1>1. ASSUME HandleInv, [Next]_vars, NEW c \in Calls, op'[c] = "queued"
        PROVE  op[c] \in {"unsent", "queued"}
    BY <1>1, OpsAdvance DEF HandleInv
  <1>2. HandleInv /\ [Next]_vars =>
          [\A c \in Calls : op'[c] = "queued" => op[c] \in {"unsent", "queued"}]_vars
    BY <1>1
  <1> QED
    BY <1>2, HandleInvariant, PTL DEF Spec, NeverReplayed

-----------------------------------------------------------------------------
(* The owner's view: HandleContract *)

LEMMA PhaseIs ==
  ASSUME opening \in OpeningStates
  PROVE  /\ opening \notin {"open", "failed"} => Phase = "opening"
         /\ opening = "failed" => Phase = "failed"
         /\ opening = "open" /\ disconnected => Phase = "lost"
         /\ (opening = "open" /\ ~disconnected /\ closed) => Phase = "closed"
         /\ (opening = "open" /\ ~disconnected /\ ~closed) => Phase = "live"
  <1>1. CASE opening \notin {"open", "failed"}
    BY <1>1 DEF Phase, Resolving, Attaching, OpeningStates
  <1>2. CASE opening = "failed"
    BY <1>2 DEF Phase, Resolving, Attaching
  <1>3. CASE opening = "open"
    BY <1>3 DEF Phase, Resolving, Attaching
  <1> QED
    BY <1>1, <1>2, <1>3

\* Steps that change nothing the owner sees.
LEMMA UnseenSteps ==
  ASSUME UNCHANGED <<opening, closed, disconnected, callback, told>>
  PROVE  UNCHANGED Contract!vars
  <1>1. UNCHANGED Phase
    BY DEF Phase, Resolving, Attaching
  <1> QED
    BY <1>1 DEF Contract!vars

LEMMA ContractStep ==
  ASSUME HandleInv, [Next]_vars
  PROVE  Contract!Next \/ UNCHANGED Contract!vars
  <1>1. /\ TypeOK /\ TypeOK' /\ Started /\ Notices
    BY TypeStep DEF HandleInv
  <1>2. opening \in OpeningStates /\ opening' \in OpeningStates /\ told \in 0..2
    BY <1>1 DEF TypeOK
  <1>3. /\ opening' \notin {"open", "failed"} => Phase' = "opening"
        /\ opening' = "failed" => Phase' = "failed"
        /\ opening' = "open" /\ disconnected' => Phase' = "lost"
        /\ (opening' = "open" /\ ~disconnected' /\ closed') => Phase' = "closed"
        /\ (opening' = "open" /\ ~disconnected' /\ ~closed') => Phase' = "live"
    <2>1. CASE opening' \notin {"open", "failed"}
      BY <1>2, <2>1 DEF Phase, Resolving, Attaching, OpeningStates
    <2>2. CASE opening' = "failed"
      BY <2>2 DEF Phase, Resolving, Attaching
    <2>3. CASE opening' = "open"
      BY <2>3 DEF Phase, Resolving, Attaching
    <2> QED
      BY <2>1, <2>2, <2>3
  <1>4. CASE OpenSteps
    <2>1. opening \notin {"open", "failed"} /\ UNCHANGED <<closed, disconnected, callback, told>>
      BY <1>4 DEF OpenSteps, Resolve, Attach, AttachFails, Resolving, Attaching, flagVars, noticeVars
    <2>2. ~closed /\ ~disconnected
      BY <1>1, <2>1 DEF Started
    <2>3. Phase = "opening" /\ Phase' \in {"opening", "failed", "live"}
      BY <1>2, <1>3, <2>1, <2>2, PhaseIs
    <2> QED
      BY <2>1, <2>3 DEF Contract!Next, Contract!Opens, Contract!vars
  <1>5. ASSUME NEW k \in Closers, CloseSets(k)
        PROVE  Contract!Next \/ UNCHANGED Contract!vars
    <2>1. closed' /\ UNCHANGED <<opening, disconnected, callback, told>> /\ opening = "open"
      BY <1>1, <1>5 DEF CloseSets, Started, noticeVars
    <2>2. \/ Phase = "live" /\ Phase' = "closed"
          \/ Phase' = Phase
      BY <1>2, <1>3, <2>1, PhaseIs
    <2> QED
      BY <2>1, <2>2 DEF Contract!Next, Contract!Closes, Contract!vars
  <1>6. CASE MarkSets
    <2>1. disconnected' /\ UNCHANGED <<opening, closed, callback, told>> /\ opening = "open"
      BY <1>1, <1>6 DEF MarkSets, Started, noticeVars
    <2>2. Phase' = "lost" /\ Phase \in {"live", "closed", "lost"}
      BY <1>2, <1>3, <2>1, PhaseIs
    <2> QED
      BY <2>1, <2>2 DEF Contract!Next, Contract!Loses, Contract!vars
  <1>7. CASE InstallsCallback
    <2>1. callback' = TRUE /\ UNCHANGED <<opening, closed, disconnected, told>> /\ opening = "open"
      BY <1>7 DEF InstallsCallback, flagVars
    <2>2. Phase' = Phase /\ Phase \in {"live", "closed", "lost"}
      BY <1>2, <1>3, <2>1, PhaseIs
    <2> QED
      BY <2>1, <2>2 DEF Contract!Next, Contract!Registers, Contract!vars
  <1>8. ASSUME UNCHANGED <<opening, closed, disconnected, callback>>,
               \/ told' = told
               \/ (told' = told + 1 /\ told < 2 /\ disconnected /\ callback /\ opening = "open")
        PROVE  Contract!Next \/ UNCHANGED Contract!vars
    <2>1. Phase' = Phase
      BY <1>8 DEF Phase, Resolving, Attaching
    <2>2. opening = "open" /\ disconnected => Phase = "lost"
      BY <1>2, PhaseIs
    <2>3. CASE told' = told
      BY <1>8, <2>1, <2>3 DEF Contract!vars
    <2>4. CASE told' # told
      BY <1>8, <2>1, <2>2, <2>4 DEF Contract!Next, Contract!Tells
    <2> QED
      BY <2>3, <2>4
  <1>9. CASE MonitorTells \/ OwnerTests
    <2>1. /\ UNCHANGED <<opening, closed, disconnected, callback>>
          /\ monitor = "telling" \/ owner = "installed"
      BY <1>9 DEF MonitorTells, OwnerTests, flagVars
    <2>2. opening = "open"
      BY <1>1, <2>1 DEF Started
    <2>3. \/ told' = told
          \/ (told' = told + 1 /\ told < 2 /\ disconnected /\ callback)
      BY <1>1, <1>2, <1>9 DEF MonitorTells, OwnerTests, Notices
    <2> QED
      BY <1>8, <2>1, <2>2, <2>3
  <1>10. CASE UNCHANGED <<opening, closed, disconnected, callback, told>>
    BY <1>10, UnseenSteps
  <1> USE DEF flagVars, noticeVars
  <1>11. CASE ServerSteps
    BY <1>10, <1>11, OpStepsChangeOps DEF ServerSteps, ServerEnds, LeaseExpires, LeaseDropped, ReleaseCancels
  <1>12. CASE StreamEnds \/ MarkTests \/ MarkSwaps
    BY <1>10, <1>12 DEF StreamEnds, MarkTests, MarkSwaps
  <1>13. CASE CancelSteps
    BY <1>10, <1>13 DEF CancelSteps, CancelStarts, CancelPosts, CancelRetries
  <1>14. ASSUME NEW c \in Calls, CallSteps(c) PROVE Contract!Next \/ UNCHANGED Contract!vars
    BY <1>10, <1>14 DEF CallSteps, CallBegins, CallConnects, CallSends, CallAnswered, CallFails
  <1>15. ASSUME NEW k \in Closers, CloseSteps(k), ~CloseSets(k)
         PROVE  Contract!Next \/ UNCHANGED Contract!vars
    BY <1>10, <1>15 DEF CloseSteps, CloseTests, CloseSnapshots, CloseReleases, CloseSwaps, CloseWaits
  <1>16. ASSUME NEW s \in Subscribers, SubSteps(s) PROVE Contract!Next \/ UNCHANGED Contract!vars
    BY <1>10, <1>16 DEF SubSteps, Subscribes, SubOpens, SubAdds, SubStreamEnds, SubReadsEnd, SubCloses
  <1>17. CASE Over \/ UNCHANGED vars
    BY <1>10, <1>17 DEF Over, vars
  <1> QED
    BY <1>4, <1>5, <1>6, <1>7, <1>9, <1>11, <1>12, <1>13, <1>14, <1>15, <1>16, <1>17
    DEF Next, MonitorSteps, OwnerSteps

\* Every step of a handle is, to its owner, a step of HandleContract or nothing.
THEOREM KeepsContract == Spec => ImplementsContract
  <1>1. Init => Contract!Init
    BY DEF Init, Contract!Init, Phase, Resolving
  <1>2. HandleInv /\ [Next]_vars => [Contract!Next]_(Contract!vars)
    BY ContractStep
  <1> QED
    BY <1>1, <1>2, HandleInvariant, PTL DEF Spec, ImplementsContract, Contract!Spec
=============================================================================
