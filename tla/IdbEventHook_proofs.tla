-------------------------- MODULE IdbEventHook_proofs --------------------------
(***************************************************************************)
(* Safety of IdbEventHook for any number of streams and any queue limit:   *)
(* the hook is installed for the subscribers, for all of them and for      *)
(* nobody else, and a client is sent every revision since it subscribed.   *)
(*                                                                         *)
(* The subscribers are counted exactly (CountInv), _idb_event_hook_enabled *)
(* says what is installed whenever the hook lock is free (LockInv), so that*)
(* a thread that decides under the lock decides rightly; while the hook is *)
(* being removed nobody streams, and while it is installed for nobody the  *)
(* last one to leave is on its way to the lock (HookInv).                  *)
(***************************************************************************)
EXTENDS IdbEventHook, FiniteSetTheorems, SequenceTheorems, TLAPS

States == {"idle", "arrived", "counted", "waiting", "enabling", "installing",
           "enabled", "events", "leaving", "unhooking", "removing", "removed",
           "done"}

\* The states inside _enable_idb_event_hook, and those of a counted stream.
Enabling == {"enabling", "installing", "enabled"}
CountedIn == Enabling \union {"counted", "waiting", "events", "leaving"}
CountedStreams == {s \in Streams : pc[s] \in CountedIn}

\* Streams call _enable_idb_event_hook for themselves; the main thread and
\* the analysis thread do nothing but call it, from the completion callback.
Callers ==
  /\ \A t \in {Main, Analysis} : /\ pc[t] \in Enabling \union {"idle"}
                                 /\ pc[t] \in Enabling => returnTo[t] = "callback"
  /\ \A s \in Streams : pc[s] \in Enabling => returnTo[s] \in {"subscribe", "stream"}

CountInv == /\ TypeOK
            /\ Callers
            /\ IsFiniteSet(CountedStreams)
            /\ subscribers = Cardinality(CountedStreams)

\* Who holds _idb_event_hook_lock, and what the flag says meanwhile.
LockInv ==
  /\ \A t \in Threads :
       (pc[t] \in {"installing", "enabled", "removing", "removed"}) <=> (hookLock = t)
  /\ detached => ~installed
  /\ hookLock = Nobody => (hookEnabled <=> installed) \/ detached
  /\ \A t \in Threads :
       /\ pc[t] = "installing" => ~hookEnabled /\ ~installed
       /\ pc[t] = "enabled" => installed \/ detached
       /\ pc[t] = "removing" => installed \/ detached
       /\ pc[t] = "removed" => ~installed

\* Nobody streams while the hook is removed; the last to leave is on its way.
HookInv ==
  /\ StreamsAreHooked
  /\ \A s, t \in Streams : pc[s] \in {"removing", "removed"} => pc[t] # "events"
  /\ subscribers = 0 /\ (installed \/ \E t \in Threads : pc[t] \in {"installing", "enabled"}) =>
       \E s \in Streams : pc[s] \in {"unhooking", "removing"}

\* What a subscriber was sent and what still waits for it is one history
\* without a gap, up to the last revision unless its queue overflowed.
QueueInv ==
  /\ HistoryIsComplete
  /\ \A s \in Streams : Subscribed(s) =>
       /\ ~overflowed[s] => /\ since[s] + Len(received[s]) + Len(events[s]) = revision
                            /\ \A i \in 1 .. Len(events[s]) :
                                 events[s][i] = since[s] + Len(received[s]) + i
       /\ overflowed[s] => events[s] = <<>>

EventInv == CountInv /\ LockInv /\ HookInv /\ QueueInv

-----------------------------------------------------------------------------
(* The initial states *)

LEMMA EventInit == Init => EventInv
  <1> SUFFICES ASSUME Init PROVE EventInv
    OBVIOUS
  <1> USE EventsAssumption
  <1>1. CountedStreams = {} /\ IsFiniteSet({}) /\ Cardinality({}) = 0
    BY FS_EmptySet DEF Init, CountedStreams, CountedIn, Enabling, Threads
  <1>2. events \in [Streams -> Seq(1 .. MaxRevision)] /\ received \in [Streams -> Seq(1 .. MaxRevision)]
    BY DEF Init
  <1>3. /\ pc \in [Threads -> States] /\ returnTo \in [Threads -> {"none", "subscribe", "stream", "callback"}]
        /\ complete \in BOOLEAN
    BY DEF Init, States
  <1>4. /\ revision \in 0 .. MaxRevision /\ since \in [Streams -> 0 .. MaxRevision]
        /\ overflowed \in [Streams -> BOOLEAN]
    BY DEF Init
  <1>5. TypeOK
    BY <1>2, <1>3, <1>4 DEF TypeOK, States, Init
  <1>6. CountInv
    BY <1>1, <1>5 DEF CountInv, Callers, Init, Threads, Enabling
  <1>7. LockInv /\ HookInv
    BY <1>5 DEF LockInv, HookInv, StreamsAreHooked, Init, TypeOK, Threads
  <1>8. QueueInv
    BY DEF QueueInv, HistoryIsComplete, Subscribed, Init, Threads
  <1> QED
    BY <1>6, <1>7, <1>8 DEF EventInv

-----------------------------------------------------------------------------
(* Types and the number of subscribers *)

\* What a thread's move does to pc, and to the set of counted streams.
LEMMA MoveLemma ==
  ASSUME TypeOK, NEW t \in Threads, NEW from, NEW to \in States, Goes(t, from, to)
  PROVE  /\ pc' \in [Threads -> States]
         /\ pc[t] = from /\ pc'[t] = to
         /\ \A u \in Threads : u # t => pc'[u] = pc[u]
         /\ t \in Streams /\ from \in CountedIn /\ to \notin CountedIn =>
              CountedStreams' = CountedStreams \ {t} /\ t \in CountedStreams
         /\ t \in Streams /\ from \notin CountedIn /\ to \in CountedIn =>
              CountedStreams' = CountedStreams \union {t} /\ t \notin CountedStreams
         /\ t \notin Streams \/ (from \in CountedIn <=> to \in CountedIn) =>
              CountedStreams' = CountedStreams
  BY DEF TypeOK, Goes, States, CountedStreams, Threads

\* The move of one thread keeps CountInv when the count follows it.
LEMMA CountMoves ==
  ASSUME CountInv, NEW t \in Threads, NEW from \in States, NEW to \in States,
         Goes(t, from, to), TypeOK', Callers',
         \/ /\ t \in Streams /\ from \in CountedIn /\ to \notin CountedIn
            /\ subscribers' = subscribers - 1
         \/ /\ t \in Streams /\ from \notin CountedIn /\ to \in CountedIn
            /\ subscribers' = subscribers + 1
         \/ /\ t \notin Streams \/ (from \in CountedIn <=> to \in CountedIn)
            /\ subscribers' = subscribers
  PROVE  CountInv'
  <1>1. TypeOK /\ IsFiniteSet(CountedStreams) /\ subscribers = Cardinality(CountedStreams)
    BY DEF CountInv
  <1>2. /\ IsFiniteSet(CountedStreams \union {t}) /\ IsFiniteSet(CountedStreams \ {t})
        /\ t \notin CountedStreams => Cardinality(CountedStreams \union {t}) = Cardinality(CountedStreams) + 1
        /\ t \in CountedStreams => Cardinality(CountedStreams \ {t}) = Cardinality(CountedStreams) - 1
    BY <1>1, FS_AddElement, FS_RemoveElement
  <1>3. IsFiniteSet(CountedStreams') /\ subscribers' = Cardinality(CountedStreams')
    BY <1>1, <1>2, MoveLemma
  <1> QED
    BY <1>3 DEF CountInv

\* A counted stream is one of at least one.
LEMMA SomebodyCounted ==
  ASSUME CountInv, NEW s \in Streams, pc[s] \in CountedIn
  PROVE  subscribers \in Nat /\ subscribers >= 1
  <1>1. s \in CountedStreams /\ IsFiniteSet(CountedStreams)
    BY DEF CountInv, CountedStreams
  <1>2. Cardinality(CountedStreams) # 0 /\ Cardinality(CountedStreams) \in Nat
    BY <1>1, FS_EmptySet, FS_CardinalityType
  <1> QED
    BY <1>2 DEF CountInv

\* The same the other way round.
LEMMA NobodyCounted ==
  ASSUME CountInv, subscribers = 0, NEW s \in Streams
  PROVE  pc[s] \notin CountedIn
  BY SomebodyCounted

\* Where _enable_idb_event_hook goes on with the answer w.
LEMMA ReturnsLemma ==
  ASSUME Callers, NEW t \in Threads, pc[t] \in Enabling, NEW w \in BOOLEAN
  PROVE  \/ t \notin Streams /\ EnableReturns(t, w) = "idle"
         \/ t \in Streams /\ EnableReturns(t, w) = "waiting"
         \/ t \in Streams /\ w /\ EnableReturns(t, w) = "events"
         \/ t \in Streams /\ ~w /\ EnableReturns(t, w) = "leaving"
  <1>1. CASE t \in Streams
    BY <1>1 DEF Callers, EnableReturns
  <1>2. CASE t \in {Main, Analysis}
    BY <1>2, EventsAssumption DEF Callers, EnableReturns
  <1> QED
    BY <1>1, <1>2 DEF Threads

LEMMA CountStep == CountInv /\ [Next]_vars => CountInv'
  <1> SUFFICES ASSUME CountInv, [Next]_vars PROVE CountInv'
    OBVIOUS
  <1> USE EventsAssumption
  <1>0. TypeOK /\ Callers
    BY DEF CountInv
  <1>1. ASSUME NEW t \in Threads, EnableDecides(t) PROVE CountInv'
    <2>1. pc[t] = "enabling" /\ (t \notin Streams => t \in {Main, Analysis})
      BY <1>1 DEF EnableDecides, Goes, Threads
    <2>2. PICK to \in {"installing", "waiting", "events", "leaving", "idle"} :
            /\ Goes(t, "enabling", to)
            /\ to # "installing" => (to = "idle" <=> t \notin Streams)
      <3>1. CASE Goes(t, "enabling", "installing")
        BY <3>1
      <3>2. CASE Goes(t, "enabling", EnableReturns(t, Wanted))
        <4>1. Wanted \in BOOLEAN
          BY DEF Wanted
        <4> QED
          BY <1>0, <2>1, <3>2, <4>1, ReturnsLemma DEF Enabling
      <3> QED
        BY <1>1, <3>1, <3>2 DEF EnableDecides
    <2>3. pc' \in [Threads -> States] /\ hookLock' \in Threads \union {Nobody}
      BY <1>0, <1>1, <2>2, MoveLemma DEF EnableDecides, States, TypeOK
    <2>4. TypeOK'
      BY <1>0, <1>1, <2>3 DEF EnableDecides, TypeOK, States, stopVars, queueVars
    <2>5. Callers'
      BY <1>0, <1>1, <2>2, MoveLemma DEF EnableDecides, Callers, Enabling, Threads, States
    <2> QED
      BY <1>1, <2>2, <2>4, <2>5, CountMoves DEF EnableDecides, CountedIn, Enabling, States
  <1>2. ASSUME NEW t \in Threads, EnableInstalls(t) PROVE CountInv'
    <2>1. TypeOK' /\ Callers'
      BY <1>0, <1>2 DEF EnableInstalls, Goes, TypeOK, Callers, Enabling, stopVars, queueVars
    <2> QED
      BY <1>2, <2>1, CountMoves DEF EnableInstalls, CountedIn, Enabling, States
  <1>3. ASSUME NEW t \in Threads, EnableRefused(t) PROVE CountInv'
    <2>1. PICK to \in {"idle", "leaving"} :
            Goes(t, "installing", to) /\ (to = "idle" <=> t \notin Streams)
      BY <1>0, <1>3 DEF EnableRefused, Goes, Callers, Enabling, Threads
    <2>2. TypeOK' /\ Callers'
      BY <1>0, <1>3, <2>1 DEF EnableRefused, Goes, TypeOK, Callers, Enabling, Threads, stopVars, queueVars
    <2> QED
      BY <1>3, <2>1, <2>2, CountMoves DEF EnableRefused, CountedIn, Enabling, States
  <1>4. ASSUME NEW t \in Threads, EnableEnds(t) PROVE CountInv'
    <2>1. PICK to \in {"waiting", "events", "idle"} :
            Goes(t, "enabled", to) /\ (to = "idle" <=> t \notin Streams)
      <3>1. Goes(t, "enabled", EnableReturns(t, TRUE)) /\ pc[t] \in Enabling
        BY <1>4 DEF EnableEnds, Goes, Enabling
      <3> QED
        BY <1>0, <3>1, ReturnsLemma
    <2>2. pc' \in [Threads -> States]
      BY <1>0, <2>1, MoveLemma DEF States
    <2>3. TypeOK'
      BY <1>0, <1>4, <2>2 DEF EnableEnds, TypeOK, States, stopVars, queueVars
    <2>4. Callers'
      BY <1>0, <1>4, <2>1, MoveLemma DEF EnableEnds, Callers, Enabling, Threads, States
    <2> QED
      BY <1>4, <2>1, <2>3, <2>4, CountMoves DEF EnableEnds, CountedIn, Enabling, States
  <1>5. ASSUME NEW s \in Streams, StreamArrives(s) PROVE CountInv'
    <2>1. events' \in [Streams -> Seq(1 .. MaxRevision)] /\ received' \in [Streams -> Seq(1 .. MaxRevision)]
      BY <1>0, <1>5 DEF StreamArrives, QueueCreated, TypeOK
    <2>2. TypeOK'
      BY <1>0, <1>5, <2>1 DEF StreamArrives, QueueCreated, Goes, TypeOK, Threads, hookVars, stopVars
    <2>3. Callers'
      BY <1>0, <1>5 DEF StreamArrives, Goes, TypeOK, Callers, Enabling, Threads
    <2> QED
      BY <1>5, <2>2, <2>3, CountMoves DEF StreamArrives, CountedIn, Enabling, States, Threads
  <1>6. ASSUME NEW s \in Streams, StreamSubscribes(s) PROVE CountInv'
    <2>1. PICK to \in {"done", "counted"} :
            /\ Goes(s, "arrived", to)
            /\ subscribers' = IF to = "done" THEN subscribers ELSE subscribers + 1
      BY <1>6 DEF StreamSubscribes, Counted
    <2>2. pc' \in [Threads -> States] /\ subscribers' \in Nat
      <3>1. s \in Threads /\ to \in States
        BY DEF Threads, States
      <3>2. pc' \in [Threads -> States]
        BY <1>0, <2>1, <3>1, MoveLemma
      <3>3. subscribers' \in Nat
        BY <1>0, <2>1 DEF TypeOK
      <3> QED
        BY <3>2, <3>3
    <2>3. TypeOK'
      BY <1>0, <1>6, <2>2 DEF StreamSubscribes, TypeOK, States, hookVars, stopVars, queueVars
    <2>4. Callers'
      BY <1>0, <1>6, <2>1, MoveLemma DEF StreamSubscribes, Callers, Enabling, Threads, States
    <2> QED
      BY <2>1, <2>3, <2>4, CountMoves DEF CountedIn, Enabling, States, Threads
  <1>7. ASSUME NEW s \in Streams, NEW from \in {"counted", "waiting"}, NEW caller \in {"subscribe", "stream"},
               StreamEnables(s, from, caller)
        PROVE  CountInv'
    <2>1. TypeOK' /\ Callers'
      BY <1>0, <1>7 DEF StreamEnables, Goes, TypeOK, Callers, Enabling, Threads, hookVars, stopVars, queueVars
    <2> QED
      BY <1>7, <2>1, CountMoves DEF StreamEnables, CountedIn, Enabling, States, Threads
  <1>8. ASSUME NEW s \in Streams, StreamSubscribed(s) PROVE CountInv'
    <2>1. CASE StreamEnables(s, "counted", "subscribe")
      BY <1>7, <2>1
    <2>2. CASE ~StreamEnables(s, "counted", "subscribe")
      <3>1. /\ Goes(s, "counted", "waiting")
            /\ UNCHANGED <<returnTo, complete, subscribers, hookVars, stopVars, queueVars>>
        BY <1>8, <2>2 DEF StreamSubscribed
      <3>2. TypeOK' /\ Callers'
        BY <1>0, <3>1 DEF Goes, TypeOK, Callers, Enabling, Threads, hookVars, stopVars, queueVars
      <3> QED
        BY <3>1, <3>2, CountMoves DEF CountedIn, Enabling, States, Threads
    <2> QED
      BY <2>1, <2>2
  <1>9. ASSUME NEW s \in Streams, StreamBegins(s) PROVE CountInv'
    BY <1>7, <1>9 DEF StreamBegins
  <1>10. ASSUME NEW s \in Streams, StreamSends(s) PROVE CountInv'
    <2>1. /\ Head(events[s]) \in 1 .. MaxRevision
          /\ Tail(events[s]) \in Seq(1 .. MaxRevision)
          /\ Append(received[s], Head(events[s])) \in Seq(1 .. MaxRevision)
      BY <1>0, <1>10, HeadTailProperties, AppendProperties DEF StreamSends, TypeOK
    <2>2. TypeOK'
      BY <1>0, <1>10, <2>1 DEF StreamSends, TypeOK, hookVars, stopVars
    <2> QED
      BY <1>0, <1>10, <2>2 DEF StreamSends, CountInv, CountedStreams, Callers
  <1>11. ASSUME NEW s \in Streams, StreamEnds(s) PROVE CountInv'
    <2>1. PICK from \in {"waiting", "events"} : Goes(s, from, "leaving")
      BY <1>11 DEF StreamEnds
    <2>2. TypeOK' /\ Callers'
      BY <1>0, <1>11, <2>1 DEF StreamEnds, Goes, TypeOK, Callers, Enabling, Threads, hookVars, stopVars, queueVars
    <2> QED
      BY <1>11, <2>1, <2>2, CountMoves DEF StreamEnds, CountedIn, Enabling, States, Threads
  <1>12. ASSUME NEW s \in Streams, StreamUnsubscribes(s) PROVE CountInv'
    <2>1. PICK to \in {"unhooking", "done"} : Goes(s, "leaving", to)
      BY <1>12 DEF StreamUnsubscribes
    <2>2. subscribers >= 1 /\ subscribers \in Nat
      BY <2>1, SomebodyCounted DEF Goes, CountedIn
    <2>3. TypeOK' /\ Callers'
      BY <1>0, <1>12, <2>1, <2>2 DEF StreamUnsubscribes, Goes, TypeOK, Callers, Enabling, Threads, hookVars, stopVars, queueVars
    <2> QED
      BY <1>12, <2>1, <2>3, CountMoves DEF StreamUnsubscribes, CountedIn, Enabling, States, Threads
  <1>13. ASSUME NEW s \in Streams, StreamUnhooks(s) PROVE CountInv'
    <2>1. PICK to \in {"removing", "done"} : Goes(s, "unhooking", to)
      BY <1>13 DEF StreamUnhooks
    <2>2. TypeOK' /\ Callers'
      BY <1>0, <1>13, <2>1 DEF StreamUnhooks, Goes, TypeOK, Callers, Enabling, Threads, stopVars, queueVars
    <2> QED
      BY <1>13, <2>1, <2>2, CountMoves DEF StreamUnhooks, CountedIn, Enabling, States, Threads
  <1>14. ASSUME NEW s \in Streams, StreamRemoves(s) PROVE CountInv'
    <2>1. TypeOK' /\ Callers'
      BY <1>0, <1>14 DEF StreamRemoves, Goes, TypeOK, Callers, Enabling, Threads, stopVars, queueVars
    <2> QED
      BY <1>14, <2>1, CountMoves DEF StreamRemoves, CountedIn, Enabling, States, Threads
  <1>15. ASSUME NEW s \in Streams, StreamRemoved(s) PROVE CountInv'
    <2>1. TypeOK' /\ Callers'
      BY <1>0, <1>15 DEF StreamRemoved, Goes, TypeOK, Callers, Enabling, Threads, stopVars, queueVars
    <2> QED
      BY <1>15, <2>1, CountMoves DEF StreamRemoved, CountedIn, Enabling, States, Threads
  <1>16. ASSUME NEW t \in {Main, Analysis}, MarkComplete(t) PROVE CountInv'
    <2>1. TypeOK' /\ Callers'
      BY <1>0, <1>16 DEF MarkComplete, Goes, TypeOK, Callers, Enabling, Threads, hookVars, stopVars, queueVars
    <2> QED
      BY <1>16, <2>1, CountMoves DEF MarkComplete, CountedIn, Enabling, States, Threads
  <1>17. CASE Record
    <2>1. revision + 1 \in 1 .. MaxRevision
      BY <1>0, <1>17 DEF Record, TypeOK
    <2>2. \A s \in Streams : /\ Enqueue(s).queue \in Seq(1 .. MaxRevision)
                             /\ Enqueue(s).overflow \in BOOLEAN
      BY <1>0, <2>1, AppendProperties, EmptySeq DEF Enqueue, Overflows, TypeOK
    <2>3. TypeOK'
      BY <1>0, <1>17, <2>1, <2>2 DEF Record, TypeOK, hookVars, stopVars
    <2> QED
      BY <1>0, <1>17, <2>3 DEF Record, CountInv, CountedStreams, Callers
  <1>18. CASE Drain \/ Stop \/ Detach \/ UNCHANGED vars
    <2>1. TypeOK' /\ UNCHANGED <<pc, returnTo, subscribers>>
      BY <1>0, <1>18 DEF Drain, Stop, Detach, vars, TypeOK, hookVars, stopVars, queueVars
    <2> QED
      BY <1>0, <2>1 DEF CountInv, CountedStreams, Callers
  <1> QED
    BY <1>1, <1>2, <1>3, <1>4, <1>5, <1>6, <1>8, <1>9, <1>10, <1>11, <1>12, <1>13,
       <1>14, <1>15, <1>16, <1>17, <1>18
       DEF Next, EnableProgress, StreamProgress, StreamStops, ClientLeaves

-----------------------------------------------------------------------------
(* The hook lock *)

\* A step that changes neither the lock nor the hook, by a thread outside the
\* states that hold it.
LEMMA LockKept ==
  ASSUME TypeOK, LockInv, NEW t \in Threads, NEW from, NEW to \in States, Goes(t, from, to),
         {from, to} \cap {"installing", "enabled", "removing", "removed"} = {},
         UNCHANGED <<hookVars, detached>>
  PROVE  LockInv'
  <1>1. \A u \in Threads : pc'[u] # pc[u] =>
          {pc[u], pc'[u]} \cap {"installing", "enabled", "removing", "removed"} = {}
    BY MoveLemma
  <1> QED
    BY <1>1 DEF LockInv, hookVars

LEMMA LockStep == CountInv /\ LockInv /\ [Next]_vars => LockInv'
  <1> SUFFICES ASSUME CountInv, LockInv, [Next]_vars PROVE LockInv'
    OBVIOUS
  <1> USE EventsAssumption
  <1>0. TypeOK /\ Callers /\ Streams \subseteq Threads
    BY DEF CountInv, Threads
  <1>1. ASSUME NEW t \in Threads, EnableDecides(t) PROVE LockInv'
    <2>1. CASE Wanted /\ ~hookEnabled
      <3>1. Goes(t, "enabling", "installing") /\ hookLock' = t /\ hookLock = Nobody
        BY <1>1, <2>1 DEF EnableDecides
      <3>2. ~hookEnabled /\ UNCHANGED <<hookEnabled, installed, detached>>
        BY <1>1, <2>1 DEF EnableDecides, stopVars
      <3> QED
        BY <1>0, <3>1, <3>2, MoveLemma DEF LockInv, States
    <2>2. CASE ~(Wanted /\ ~hookEnabled)
      <3>1. Goes(t, "enabling", EnableReturns(t, Wanted)) /\ UNCHANGED <<hookVars, detached>>
        BY <1>1, <2>2 DEF EnableDecides, hookVars, stopVars
      <3>2. pc[t] \in Enabling /\ Wanted \in BOOLEAN
        BY <3>1 DEF Goes, Enabling, Wanted
      <3>3. EnableReturns(t, Wanted) \in {"idle", "waiting", "events", "leaving"}
        BY <1>0, <3>2, ReturnsLemma
      <3> QED
        BY <1>0, <3>1, <3>3, LockKept DEF States
    <2> QED
      BY <2>1, <2>2
  <1>2. ASSUME NEW t \in Threads, EnableInstalls(t) PROVE LockInv'
    BY <1>0, <1>2, MoveLemma DEF EnableInstalls, MainRunsFor, LockInv, States, stopVars
  <1>3. ASSUME NEW t \in Threads, EnableRefused(t) PROVE LockInv'
    <2>1. PICK to \in {"idle", "leaving"} : Goes(t, "installing", to)
      BY <1>3 DEF EnableRefused
    <2> QED
      BY <1>0, <1>3, <2>1, MoveLemma DEF EnableRefused, LockInv, States, stopVars
  <1>4. ASSUME NEW t \in Threads, EnableEnds(t) PROVE LockInv'
    <2>1. pc[t] \in Enabling
      BY <1>4 DEF EnableEnds, Goes, Enabling
    <2>2. EnableReturns(t, TRUE) \in {"idle", "waiting", "events"}
      BY <1>0, <2>1, ReturnsLemma
    <2>3. PICK to \in {"idle", "waiting", "events"} : Goes(t, "enabled", to)
      BY <1>4, <2>2 DEF EnableEnds
    <2> QED
      BY <1>0, <1>4, <2>3, MoveLemma DEF EnableEnds, LockInv, States, stopVars
  <1>5. ASSUME NEW s \in Streams, StreamUnhooks(s) PROVE LockInv'
    <2>1. CASE StillIdle
      <3>1. Goes(s, "unhooking", "removing") /\ hookLock' = s /\ hookLock = Nobody
        BY <1>5, <2>1 DEF StreamUnhooks
      <3>2. hookEnabled /\ UNCHANGED <<hookEnabled, installed, detached>>
        BY <1>5, <2>1 DEF StreamUnhooks, StillIdle, stopVars
      <3> QED
        BY <1>0, <3>1, <3>2, MoveLemma DEF LockInv, States
    <2>2. CASE ~StillIdle
      BY <1>0, <1>5, <2>2, LockKept DEF StreamUnhooks, States, hookVars, stopVars
    <2> QED
      BY <2>1, <2>2
  <1>6. ASSUME NEW s \in Streams, StreamRemoves(s) PROVE LockInv'
    BY <1>0, <1>6, MoveLemma DEF StreamRemoves, LockInv, States, stopVars
  <1>7. ASSUME NEW s \in Streams, StreamRemoved(s) PROVE LockInv'
    BY <1>0, <1>7, MoveLemma DEF StreamRemoved, LockInv, States, stopVars
  <1>8. ASSUME NEW s \in Streams,
               \/ StreamArrives(s) \/ StreamSubscribes(s) \/ StreamSubscribed(s)
               \/ StreamBegins(s) \/ StreamEnds(s) \/ StreamUnsubscribes(s)
        PROVE  LockInv'
    <2>1. PICK from, to \in States : 
            /\ Goes(s, from, to)
            /\ {from, to} \cap {"installing", "enabled", "removing", "removed"} = {}
      BY <1>8 DEF StreamArrives, StreamSubscribes, StreamSubscribed, StreamBegins, StreamEnables,
         StreamEnds, StreamUnsubscribes, States
    <2>2. UNCHANGED <<hookVars, detached>>
      BY <1>8 DEF StreamArrives, StreamSubscribes, StreamSubscribed, StreamBegins, StreamEnables,
         StreamEnds, StreamUnsubscribes, stopVars
    <2> QED
      BY <1>0, <2>1, <2>2, LockKept
  <1>9. ASSUME NEW t \in {Main, Analysis}, MarkComplete(t) PROVE LockInv'
    BY <1>0, <1>9, LockKept DEF MarkComplete, Threads, States, stopVars
  <1>10. ASSUME NEW s \in Streams, StreamSends(s) PROVE LockInv'
    BY <1>10 DEF StreamSends, LockInv, hookVars, stopVars
  <1>11. CASE Record \/ Drain \/ Stop \/ UNCHANGED vars
    BY <1>11 DEF Record, Drain, Stop, vars, LockInv, hookVars, stopVars
  <1>12. CASE Detach
    BY <1>12 DEF Detach, LockInv
  <1> QED
    BY <1>1, <1>2, <1>3, <1>4, <1>5, <1>6, <1>7, <1>8, <1>9, <1>10, <1>11, <1>12
       DEF Next, EnableProgress, StreamProgress, StreamStops, ClientLeaves

-----------------------------------------------------------------------------
(* The hook and its subscribers *)

\* Nobody holds the hook lock besides its holder.
LEMMA OneHolder ==
  ASSUME LockInv, NEW t \in Threads, NEW u \in Threads,
         pc[t] \in {"installing", "enabled", "removing", "removed"},
         pc[u] \in {"installing", "enabled", "removing", "removed"}
  PROVE  t = u
  BY DEF LockInv

\* A thread moves on, neither into the event loop nor away from the removal,
\* and neither the hook nor the number of subscribers changes.
LEMMA HookKept ==
  ASSUME TypeOK, HookInv, NEW t \in Threads, NEW from, NEW to \in States, Goes(t, from, to),
         to \notin {"events", "installing", "removing", "removed"},
         to = "enabled" => from = "installing",
         from \notin {"unhooking", "removing"},
         installed' => installed, ~detached' => ~detached, 
         ~detached /\ ~detached' /\ installed => installed',
         subscribers' = 0 => subscribers = 0
  PROVE  HookInv'
  <1>1. \A u \in Threads : u # t => pc'[u] = pc[u]
    BY MoveLemma
  <1>2. pc[t] = from /\ pc'[t] = to
    BY MoveLemma
  <1>3. Streams \subseteq Threads
    BY DEF Threads
  <1>4. StreamsAreHooked'
    BY <1>1, <1>2, <1>3 DEF HookInv, StreamsAreHooked
  <1>5. \A r, u \in Streams : pc'[r] \in {"removing", "removed"} => pc'[u] # "events"
    BY <1>1, <1>2, <1>3 DEF HookInv
  <1>6. ASSUME subscribers' = 0,
               installed' \/ \E u \in Threads : pc'[u] \in {"installing", "enabled"}
        PROVE  \E r \in Streams : pc'[r] \in {"unhooking", "removing"}
    <2>1. installed \/ \E u \in Threads : pc[u] \in {"installing", "enabled"}
      BY <1>1, <1>2, <1>6
    <2>2. PICK r \in Streams : pc[r] \in {"unhooking", "removing"}
      BY <1>6, <2>1 DEF HookInv
    <2> QED
      BY <1>1, <1>2, <1>3, <2>2
  <1> QED
    BY <1>4, <1>5, <1>6 DEF HookInv

\* Entering the event loop needs the hook, and nobody who removes it.
LEMMA HookEntered ==
  ASSUME TypeOK, HookInv, NEW t \in Threads, NEW from, Goes(t, from, "events"),
         from \notin {"unhooking", "removing"},
         installed \/ detached, UNCHANGED <<installed, detached, subscribers>>,
         \A u \in Threads : u # t => pc[u] \notin {"removing", "removed"}
  PROVE  HookInv'
  <1>1. \A u \in Threads : u # t => pc'[u] = pc[u]
    BY MoveLemma DEF States
  <1>2. pc[t] = from /\ pc'[t] = "events"
    BY MoveLemma DEF States
  <1>3. Streams \subseteq Threads
    BY DEF Threads
  <1>4. StreamsAreHooked'
    BY <1>1, <1>2, <1>3 DEF HookInv, StreamsAreHooked
  <1>5. \A r, u \in Streams : pc'[r] \in {"removing", "removed"} => pc'[u] # "events"
    BY <1>1, <1>2, <1>3 DEF HookInv
  <1>6. ASSUME subscribers' = 0,
               installed' \/ \E u \in Threads : pc'[u] \in {"installing", "enabled"}
        PROVE  \E r \in Streams : pc'[r] \in {"unhooking", "removing"}
    <2>1. installed \/ \E u \in Threads : pc[u] \in {"installing", "enabled"}
      BY <1>1, <1>2, <1>6
    <2>2. PICK r \in Streams : pc[r] \in {"unhooking", "removing"}
      BY <1>6, <2>1 DEF HookInv
    <2> QED
      BY <1>1, <1>2, <1>3, <2>2
  <1> QED
    BY <1>4, <1>5, <1>6 DEF HookInv

LEMMA HookStep == CountInv /\ LockInv /\ HookInv /\ [Next]_vars => HookInv'
  <1> SUFFICES ASSUME CountInv, LockInv, HookInv, [Next]_vars PROVE HookInv'
    OBVIOUS
  <1> USE EventsAssumption
  <1>0. TypeOK /\ Callers /\ Streams \subseteq Threads /\ subscribers \in Nat
    BY DEF CountInv, Threads, TypeOK
  <1>1. ASSUME NEW t \in Threads, EnableDecides(t) PROVE HookInv'
    <2>0. hookLock = Nobody /\ UNCHANGED <<installed, detached, subscribers>>
      BY <1>1 DEF EnableDecides, stopVars
    <2>1. CASE Wanted /\ ~hookEnabled
      <3>1. Goes(t, "enabling", "installing") /\ subscribers' # 0
        BY <1>0, <1>1, <2>0, <2>1 DEF EnableDecides, Wanted
      <3> QED
        BY <1>0, <2>0, <3>1, MoveLemma DEF HookInv, StreamsAreHooked, States
    <2>2. CASE ~(Wanted /\ ~hookEnabled)
      <3>1. Goes(t, "enabling", EnableReturns(t, Wanted)) /\ pc[t] \in Enabling /\ Wanted \in BOOLEAN
        BY <1>1, <2>2 DEF EnableDecides, Goes, Enabling, Wanted
      <3>2. CASE EnableReturns(t, Wanted) \in {"idle", "waiting", "leaving"}
        BY <1>0, <2>0, <3>1, <3>2, HookKept DEF States
      <3>3. CASE EnableReturns(t, Wanted) = "events"
        <4>1. Wanted
          BY <1>0, <3>1, <3>3, ReturnsLemma
        <4>2. installed \/ detached
          BY <2>0, <2>2, <4>1 DEF LockInv
        <4>3. \A u \in Threads : pc[u] \notin {"removing", "removed"}
          BY <2>0 DEF LockInv
        <4> QED
          BY <1>0, <2>0, <3>1, <3>3, <4>2, <4>3, HookEntered
      <3> QED
        BY <1>0, <3>1, <3>2, <3>3, ReturnsLemma
    <2> QED
      BY <2>1, <2>2
  <1>2. ASSUME NEW t \in Threads, EnableInstalls(t) PROVE HookInv'
    <2>1. Goes(t, "installing", "enabled") /\ installed' = TRUE /\ UNCHANGED <<subscribers, detached>>
      BY <1>2 DEF EnableInstalls, stopVars
    <2> QED
      BY <1>0, <2>1, MoveLemma DEF HookInv, StreamsAreHooked, States
  <1>3. ASSUME NEW t \in Threads, EnableRefused(t) PROVE HookInv'
    <2>1. PICK to \in {"idle", "leaving"} : Goes(t, "installing", to)
      BY <1>3 DEF EnableRefused
    <2>2. UNCHANGED <<installed, detached, subscribers>>
      BY <1>3 DEF EnableRefused, stopVars
    <2> QED
      BY <1>0, <2>1, <2>2, HookKept DEF States
  <1>4. ASSUME NEW t \in Threads, EnableEnds(t) PROVE HookInv'
    <2>1. Goes(t, "enabled", EnableReturns(t, TRUE)) /\ UNCHANGED <<installed, detached, subscribers>>
      BY <1>4 DEF EnableEnds, stopVars
    <2>2. pc[t] = "enabled" /\ pc[t] \in Enabling
      BY <2>1 DEF Goes, Enabling
    <2>3. CASE EnableReturns(t, TRUE) = "events"
      <3>1. \A u \in Threads : u # t => pc[u] \notin {"removing", "removed"}
        BY <2>2, OneHolder
      <3>2. installed \/ detached
        BY <2>2 DEF LockInv
      <3> QED
        BY <1>0, <2>1, <2>3, <3>1, <3>2, HookEntered
    <2>4. CASE EnableReturns(t, TRUE) \in {"idle", "waiting"}
      BY <1>0, <2>1, <2>4, HookKept DEF States
    <2> QED
      BY <1>0, <2>2, <2>3, <2>4, ReturnsLemma
  <1>5. ASSUME NEW s \in Streams, StreamUnhooks(s) PROVE HookInv'
    <2>0. hookLock = Nobody /\ UNCHANGED <<installed, detached, subscribers>>
      BY <1>5 DEF StreamUnhooks, stopVars
    <2>1. CASE StillIdle
      <3>1. Goes(s, "unhooking", "removing")
        BY <1>5, <2>1 DEF StreamUnhooks
      <3>2. \A r \in Streams : pc[r] # "events"
        BY <2>1, NobodyCounted DEF StillIdle, CountedIn
      <3> QED
        BY <1>0, <2>0, <3>1, <3>2, MoveLemma DEF HookInv, StreamsAreHooked, States
    <2>2. CASE ~StillIdle
      <3>1. Goes(s, "unhooking", "done")
        BY <1>5, <2>2 DEF StreamUnhooks
      <3>2. subscribers = 0 => ~installed /\ \A u \in Threads : pc[u] \notin {"installing", "enabled"}
        BY <2>0, <2>2 DEF StillIdle, LockInv
      <3> QED
        BY <1>0, <2>0, <3>1, <3>2, MoveLemma DEF HookInv, StreamsAreHooked, States
    <2> QED
      BY <2>1, <2>2
  <1>6. ASSUME NEW s \in Streams, StreamRemoves(s) PROVE HookInv'
    <2>1. Goes(s, "removing", "removed") /\ installed' = FALSE /\ UNCHANGED <<detached, subscribers>>
      BY <1>6 DEF StreamRemoves, stopVars
    <2>2. pc[s] = "removing" /\ pc'[s] = "removed" /\ \A u \in Threads : u # s => pc'[u] = pc[u]
      BY <1>0, <2>1, MoveLemma DEF States
    <2>3. \A u \in Threads : pc'[u] \notin {"installing", "enabled"}
      BY <1>0, <2>2, OneHolder
    <2>4. \A u \in Streams : pc'[u] # "events"
      BY <1>0, <2>2 DEF HookInv
    <2> QED
      BY <2>1, <2>3, <2>4 DEF HookInv, StreamsAreHooked
  <1>7. ASSUME NEW s \in Streams, StreamRemoved(s) PROVE HookInv'
    <2>1. Goes(s, "removed", "done") /\ UNCHANGED <<installed, detached, subscribers>>
      BY <1>7 DEF StreamRemoved, stopVars
    <2>2. pc[s] = "removed" /\ pc'[s] = "done" /\ \A u \in Threads : u # s => pc'[u] = pc[u]
      BY <1>0, <2>1, MoveLemma DEF States
    <2>3. \A u \in Threads : pc'[u] \notin {"installing", "enabled"}
      BY <1>0, <2>2, OneHolder
    <2>4. ~installed'
      BY <1>0, <2>1, <2>2 DEF LockInv
    <2> QED
      BY <1>0, <2>1, <2>2, <2>3, <2>4 DEF HookInv, StreamsAreHooked
  <1>8. ASSUME NEW s \in Streams,
               StreamArrives(s) \/ StreamSubscribes(s) \/ StreamSubscribed(s) \/ StreamBegins(s) \/ StreamEnds(s)
        PROVE  HookInv'
    <2>1. PICK from, to \in States :
            /\ Goes(s, from, to)
            /\ to \notin {"events", "installing", "enabled", "removing", "removed"}
            /\ from \notin {"unhooking", "removing"}
      BY <1>8 DEF StreamArrives, StreamSubscribes, StreamSubscribed, StreamBegins, StreamEnables,
         StreamEnds, States
    <2>2. UNCHANGED <<installed, detached>>
      BY <1>8 DEF StreamArrives, StreamSubscribes, StreamSubscribed, StreamBegins, StreamEnables,
         StreamEnds, stopVars, hookVars
    <2>3. subscribers' = subscribers \/ subscribers' = subscribers + 1
      BY <1>8 DEF StreamArrives, StreamSubscribes, StreamSubscribed, StreamBegins, StreamEnables,
         StreamEnds, Counted
    <2>4. subscribers' = 0 => subscribers = 0
      BY <1>0, <2>3
    <2> QED
      BY <1>0, <2>1, <2>2, <2>4, HookKept
  <1>9. ASSUME NEW s \in Streams, StreamUnsubscribes(s) PROVE HookInv'
    <2>1. UNCHANGED <<installed, detached>> /\ subscribers' = subscribers - 1
      BY <1>9 DEF StreamUnsubscribes, hookVars, stopVars
    <2>2. pc[s] \in CountedIn
      BY <1>9 DEF StreamUnsubscribes, Goes, CountedIn
    <2>3. CASE subscribers = 1
      <3>1. Goes(s, "leaving", "unhooking")
        BY <1>9, <2>3 DEF StreamUnsubscribes
      <3> QED
        BY <1>0, <2>1, <3>1, MoveLemma DEF HookInv, StreamsAreHooked, States
    <2>4. CASE subscribers # 1
      <3>1. Goes(s, "leaving", "done")
        BY <1>9, <2>4 DEF StreamUnsubscribes
      <3>2. subscribers' # 0
        BY <2>1, <2>2, <2>4, SomebodyCounted
      <3> QED
        BY <1>0, <2>1, <3>1, <3>2, HookKept DEF States
    <2> QED
      BY <2>3, <2>4
  <1>10. ASSUME NEW t \in {Main, Analysis}, MarkComplete(t) PROVE HookInv'
    BY <1>0, <1>10, HookKept DEF MarkComplete, Threads, States, hookVars, stopVars
  <1>11. ASSUME NEW s \in Streams, StreamSends(s) PROVE HookInv'
    BY <1>11 DEF StreamSends, HookInv, StreamsAreHooked, hookVars, stopVars
  <1>12. CASE Record \/ Drain \/ Stop \/ UNCHANGED vars
    BY <1>12 DEF Record, Drain, Stop, vars, HookInv, StreamsAreHooked, hookVars, stopVars
  <1>13. CASE Detach
    BY <1>13 DEF Detach, HookInv, StreamsAreHooked
  <1> QED
    BY <1>1, <1>2, <1>3, <1>4, <1>5, <1>6, <1>7, <1>8, <1>9, <1>10, <1>11, <1>12, <1>13
       DEF Next, EnableProgress, StreamProgress, StreamStops, ClientLeaves

-----------------------------------------------------------------------------
(* The histories *)

\* No queue changes and nobody subscribes.
LEMMA QueueKept ==
  ASSUME QueueInv, UNCHANGED queueVars, \A s \in Streams : Subscribed(s)' => Subscribed(s)
  PROVE  QueueInv'
  BY DEF QueueInv, HistoryIsComplete, queueVars

\* The same for one thread that moves on.
LEMMA QueueKeptByMove ==
  ASSUME TypeOK, QueueInv, UNCHANGED queueVars, NEW t \in Threads,
         NEW from, NEW to \in States, Goes(t, from, to), from # "idle" \/ t \notin Streams, from # "done"
  PROVE  QueueInv'
  <1>1. \A s \in Streams : Subscribed(s)' => Subscribed(s)
    BY MoveLemma DEF Subscribed, Threads
  <1> QED
    BY <1>1, QueueKept

\* A queue loses its first revision, which the client has now been sent.
LEMMA QueueShifts ==
  ASSUME NEW base \in Nat, NEW n \in Nat, NEW m \in Nat, m >= 1, NEW q,
         \A i \in 1 .. m : q[i] = base + n + i
  PROVE  /\ q[1] = base + (n + 1)
         /\ \A i \in 1 .. (m - 1) : q[i + 1] = base + (n + 1) + i
  OBVIOUS

LEMMA QueueStep == CountInv /\ QueueInv /\ [Next]_vars => QueueInv'
  <1> SUFFICES ASSUME CountInv, QueueInv, [Next]_vars PROVE QueueInv'
    OBVIOUS
  <1>0. TypeOK /\ Callers /\ Streams \subseteq Threads
    BY DEF CountInv, Threads
  <1>1. ASSUME NEW t \in Threads, EnableProgress(t) \/ EnableRefused(t) PROVE QueueInv'
    <2>1. PICK from \in Enabling, to \in States : Goes(t, from, to)
      <3>1. pc[t] \in Enabling
        BY <1>1 DEF EnableProgress, EnableDecides, EnableInstalls, EnableEnds, EnableRefused, Goes, Enabling
      <3>2. EnableReturns(t, Wanted) \in States /\ EnableReturns(t, TRUE) \in States
        BY <1>0, <3>1, ReturnsLemma DEF States, Wanted
      <3>3. CASE EnableDecides(t)
        BY <3>2, <3>3 DEF EnableDecides, Enabling, States
      <3>4. CASE EnableInstalls(t) \/ EnableRefused(t)
        BY <3>4 DEF EnableInstalls, EnableRefused, Enabling, States
      <3>5. CASE EnableEnds(t)
        BY <3>2, <3>5 DEF EnableEnds, Enabling
      <3> QED
        BY <1>1, <3>3, <3>4, <3>5 DEF EnableProgress
    <2>2. UNCHANGED queueVars
      BY <1>1 DEF EnableProgress, EnableDecides, EnableInstalls, EnableEnds, EnableRefused
    <2> QED
      BY <1>0, <2>1, <2>2, QueueKeptByMove DEF Enabling
  <1>2. ASSUME NEW s \in Streams,
               \/ StreamSubscribes(s) \/ StreamSubscribed(s) \/ StreamBegins(s) \/ StreamEnds(s)
               \/ StreamUnsubscribes(s) \/ StreamUnhooks(s) \/ StreamRemoves(s) \/ StreamRemoved(s)
        PROVE  QueueInv'
    <2>1. PICK from, to \in States : Goes(s, from, to) /\ from \notin {"idle", "done"}
      BY <1>2 DEF StreamSubscribes, StreamSubscribed, StreamBegins, StreamEnables, StreamEnds,
         StreamUnsubscribes, StreamUnhooks, StreamRemoves, StreamRemoved, States
    <2>2. UNCHANGED queueVars
      BY <1>2 DEF StreamSubscribes, StreamSubscribed, StreamBegins, StreamEnables, StreamEnds,
         StreamUnsubscribes, StreamUnhooks, StreamRemoves, StreamRemoved
    <2> QED
      BY <1>0, <2>1, <2>2, QueueKeptByMove
  <1>3. ASSUME NEW t \in {Main, Analysis}, MarkComplete(t) PROVE QueueInv'
    BY <1>0, <1>3, QueueKeptByMove, EventsAssumption DEF MarkComplete, Threads, States
  <1>4. ASSUME NEW s \in Streams, StreamArrives(s) PROVE QueueInv'
    <2>1. /\ events'[s] = <<>> /\ received'[s] = <<>> /\ ~overflowed'[s] /\ since'[s] = revision
          /\ revision' = revision /\ revision \in Nat
          /\ \A r \in Streams \ {s} : /\ events'[r] = events[r] /\ received'[r] = received[r]
                                      /\ overflowed'[r] = overflowed[r] /\ since'[r] = since[r]
                                      /\ Subscribed(r)' = Subscribed(r)
      BY <1>0, <1>4 DEF StreamArrives, QueueCreated, Goes, TypeOK, Subscribed
    <2> QED
      BY <2>1 DEF QueueInv, HistoryIsComplete
  <1>5. ASSUME NEW s \in Streams, StreamSends(s) PROVE QueueInv'
    <2>1. /\ Subscribed(s) /\ ~overflowed[s] /\ events[s] # <<>> /\ events[s] \in Seq(1 .. MaxRevision)
          /\ received[s] \in Seq(1 .. MaxRevision) /\ since[s] \in Nat /\ revision \in Nat
      BY <1>0, <1>5 DEF StreamSends, Subscribed, TypeOK
    <2>2. /\ events'[s] = Tail(events[s]) /\ received'[s] = Append(received[s], Head(events[s]))
          /\ UNCHANGED <<pc, revision, overflowed, since>>
          /\ \A r \in Streams \ {s} : events'[r] = events[r] /\ received'[r] = received[r]
      BY <1>0, <1>5 DEF StreamSends, TypeOK
    <2>3. PICK n \in Nat, m \in Nat : n = Len(received[s]) /\ m = Len(events[s]) /\ m >= 1
      BY <2>1, LenProperties, EmptySeq
    <2>4. /\ since[s] \in Nat /\ m >= 1 /\ since[s] + n + m = revision
          /\ \A i \in 1 .. m : events[s][i] = since[s] + n + i
      BY <2>1, <2>3 DEF QueueInv
    <2>5. /\ Len(events'[s]) = m - 1 /\ \A i \in 1 .. (m - 1) : events'[s][i] = events[s][i + 1]
          /\ Len(received'[s]) = n + 1 /\ received'[s][n + 1] = events[s][1]
          /\ \A i \in 1 .. n : received'[s][i] = received[s][i]
          /\ DOMAIN received'[s] = 1 .. (n + 1) /\ DOMAIN received[s] = 1 .. n
      <3>1. Len(events'[s]) = m - 1 /\ \A i \in 1 .. (m - 1) : events'[s][i] = events[s][i + 1]
        <4>1. /\ Len(Tail(events[s])) = Len(events[s]) - 1
              /\ \A i \in 1 .. (Len(events[s]) - 1) : Tail(events[s])[i] = events[s][i + 1]
          BY <2>1, HeadTailProperties
        <4>2. m = Len(events[s]) /\ events'[s] = Tail(events[s])
          BY <2>2, <2>3
        <4>3. ASSUME NEW i \in 1 .. (m - 1) PROVE events'[s][i] = events[s][i + 1]
          <5>1. i \in 1 .. (Len(events[s]) - 1)
            BY <4>2
          <5>2. Tail(events[s])[i] = events[s][i + 1]
            BY <4>1, <5>1
          <5> QED
            BY <4>2, <5>2, Zenon
        <4>4. Len(events'[s]) = m - 1
          BY <4>1, <4>2
        <4> QED
          BY <4>3, <4>4, Zenon
      <3>2. Head(events[s]) = events[s][1] /\ Head(events[s]) \in 1 .. MaxRevision
        <4>1. Head(events[s]) \in 1 .. MaxRevision
          BY <2>1, HeadTailProperties
        <4>2. Head(events[s]) = events[s][1]
          BY <2>1
        <4> QED
          BY <4>1, <4>2
      <3>3. /\ Len(received'[s]) = n + 1 /\ received'[s][n + 1] = events[s][1]
            /\ \A i \in 1 .. n : received'[s][i] = received[s][i]
            /\ received'[s] \in Seq(1 .. MaxRevision)
        BY <2>1, <2>2, <2>3, <3>2, AppendProperties
      <3> QED
        BY <2>1, <2>3, <3>1, <3>3, LenProperties
    <2>6. /\ events[s][1] = since[s] + (n + 1)
          /\ \A i \in 1 .. (m - 1) : events[s][i + 1] = since[s] + (n + 1) + i
      BY <2>4, QueueShifts
    <2>7. /\ \A i \in DOMAIN received'[s] : received'[s][i] = since[s] + i
          /\ since[s] + Len(received'[s]) + Len(events'[s]) = revision
          /\ \A i \in 1 .. Len(events'[s]) : events'[s][i] = since[s] + Len(received'[s]) + i
      <3>1. \A i \in 1 .. n : received[s][i] = since[s] + i
        BY <2>5 DEF QueueInv, HistoryIsComplete
      <3>2. since[s] + (n + 1) + (m - 1) = revision
        BY <2>4
      <3>3. \A i \in 1 .. (n + 1) : received'[s][i] = since[s] + i
        <4> SUFFICES ASSUME NEW i \in 1 .. (n + 1) PROVE received'[s][i] = since[s] + i
          OBVIOUS
        <4>1. CASE i = n + 1
          BY <2>5, <2>6, <4>1
        <4>2. CASE i # n + 1
          BY <2>5, <3>1, <4>2
        <4> QED
          BY <4>1, <4>2
      <3> QED
        BY <2>5, <2>6, <3>2, <3>3
    <2>8. HistoryIsComplete'
      <3>1. \A r \in Streams \ {s} : \A i \in DOMAIN received'[r] : received'[r][i] = since'[r] + i
        BY <2>2 DEF QueueInv, HistoryIsComplete
      <3>2. \A i \in DOMAIN received'[s] : received'[s][i] = since'[s] + i
        BY <2>2, <2>7
      <3> QED
        BY <3>1, <3>2 DEF HistoryIsComplete
    <2>9. ASSUME NEW r \in Streams, Subscribed(r)'
          PROVE  /\ ~overflowed'[r] => /\ since'[r] + Len(received'[r]) + Len(events'[r]) = revision'
                                       /\ \A i \in 1 .. Len(events'[r]) :
                                            events'[r][i] = since'[r] + Len(received'[r]) + i
                 /\ overflowed'[r] => events'[r] = <<>>
      <3>1. Subscribed(r)
        BY <2>2, <2>9 DEF Subscribed
      <3>2. CASE r # s
        BY <2>2, <3>1, <3>2 DEF QueueInv
      <3>3. CASE r = s
        BY <2>1, <2>2, <2>7, <3>3
      <3> QED
        BY <3>2, <3>3
    <2> QED
      BY <2>8, <2>9 DEF QueueInv
  <1>6. CASE Record
    <2>1. UNCHANGED <<pc, since, received>> /\ revision' = revision + 1 /\ revision \in Nat
      BY <1>0, <1>6, EventsAssumption DEF Record, TypeOK
    <2>2. ASSUME NEW s \in Streams, Subscribed(s)
          PROVE  /\ ~overflowed'[s] => /\ since[s] + Len(received[s]) + Len(events'[s]) = revision'
                                       /\ \A i \in 1 .. Len(events'[s]) :
                                            events'[s][i] = since[s] + Len(received[s]) + i
                 /\ overflowed'[s] => events'[s] = <<>>
      <3>1. events'[s] = Enqueue(s).queue /\ overflowed'[s] = Enqueue(s).overflow
        BY <1>6 DEF Record
      <3>2. /\ events[s] \in Seq(1 .. MaxRevision) /\ Len(events[s]) \in Nat /\ since[s] \in Nat
            /\ received[s] \in Seq(1 .. MaxRevision) /\ Len(received[s]) \in Nat
        BY <1>0, LenProperties, EventsAssumption DEF TypeOK
      <3>3. CASE overflowed[s] 
        BY <2>2, <3>1, <3>3 DEF Enqueue, QueueInv
      <3>4. CASE ~overflowed[s] /\ Len(events[s]) = QueueLimit
        BY <2>2, <3>1, <3>4 DEF Enqueue, Overflows
      <3>5. CASE ~overflowed[s] /\ Len(events[s]) # QueueLimit
        <4>1. events'[s] = Append(events[s], revision + 1)
          BY <2>2, <3>1, <3>5 DEF Enqueue
        <4>2. /\ Len(events'[s]) = Len(events[s]) + 1
              /\ events'[s][Len(events[s]) + 1] = revision + 1
              /\ \A i \in 1 .. Len(events[s]) : events'[s][i] = events[s][i]
          <5>1. revision + 1 \in 1 .. MaxRevision
            BY <1>0, <1>6, EventsAssumption DEF Record, TypeOK
          <5> QED
            BY <3>2, <4>1, <5>1, AppendProperties
        <4>3. /\ since[s] + Len(received[s]) + Len(events[s]) = revision
              /\ \A i \in 1 .. Len(events[s]) : events[s][i] = since[s] + Len(received[s]) + i
          BY <2>2, <3>5 DEF QueueInv
        <4>0. PICK b \in Nat, n \in Nat, m \in Nat :
                b = since[s] /\ n = Len(received[s]) /\ m = Len(events[s])
          BY <3>2
        <4>4. b + n + m = revision
          BY <4>0, <4>3
        <4>5. /\ \A i \in 1 .. Len(events'[s]) : events'[s][i] = b + n + i
              /\ b + n + Len(events'[s]) = revision'
          <5>1. revision' = b + n + (m + 1) /\ Len(events'[s]) = m + 1
            <6>1. b + n + (m + 1) = b + n + m + 1
              OBVIOUS
            <6>2. Len(events'[s]) = m + 1
              BY <4>0, <4>2
            <6> QED
              BY <2>1, <4>4, <6>1, <6>2
          <5> SUFFICES ASSUME NEW i \in 1 .. (m + 1) PROVE events'[s][i] = b + n + i
            BY <5>1
          <5>2. CASE i = m + 1
            <6>1. b + n + i = b + n + m + 1
              BY <5>2
            <6> QED
              BY <4>0, <4>2, <4>4, <5>2, <6>1
          <5>3. CASE i # m + 1
            <6>1. i \in 1 .. m
              BY <5>3
            <6>2. events'[s][i] = events[s][i] /\ events[s][i] = since[s] + Len(received[s]) + i
              BY <4>0, <4>2, <4>3, <6>1
            <6> QED
              BY <4>0, <6>2
          <5> QED
            BY <5>2, <5>3
        <4>6. ~overflowed'[s]
          BY <2>2, <3>1, <3>5 DEF Enqueue
        <4> QED
          BY <4>0, <4>5, <4>6
      <3> QED
        BY <3>3, <3>4, <3>5
    <2> QED
      BY <2>1, <2>2 DEF QueueInv, HistoryIsComplete, Subscribed
  <1>7. CASE Drain \/ Stop \/ Detach \/ UNCHANGED vars
    <2>1. UNCHANGED <<pc, queueVars>>
      BY <1>7 DEF Drain, Stop, Detach, vars
    <2> QED
      BY <2>1, QueueKept DEF Subscribed
  <1> QED
    BY <1>1, <1>2, <1>3, <1>4, <1>5, <1>6, <1>7
       DEF Next, StreamProgress, StreamStops, ClientLeaves

-----------------------------------------------------------------------------
(* The theorems *)

\* Every reachable state counts its subscribers, guards its hook and keeps
\* its histories without a gap.
THEOREM EventInvariant == Spec => []EventInv
  <1>1. EventInv /\ [Next]_vars => EventInv'
    BY CountStep, LockStep, HookStep, QueueStep DEF EventInv
  <1> QED
    BY <1>1, EventInit, PTL DEF Spec

\* The type invariant.
THEOREM TypeCorrect == Spec => []TypeOK
  <1>1. EventInv => TypeOK
    BY DEF EventInv, CountInv
  <1> QED
    BY <1>1, EventInvariant, PTL

\* The hook of the IDB is installed while a stream is in its event loop, and
\* installed for nobody only while some thread is still about to settle it:
\* in every interleaving of streams that come and leave, of the completion
\* callback, a shutdown and the main thread.
THEOREM HookForSubscribers == Spec => []HookFollowsSubscribers
  <1>1. EventInv => HookFollowsSubscribers
    BY DEF EventInv, HookInv, HookFollowsSubscribers, HookHasSubscriber, Threads
  <1> QED
    BY <1>1, EventInvariant, PTL

\* Whatever the queue limit and however slow the client, it is sent the
\* revisions since its subscription in order, none missing.
THEOREM HistoriesAreComplete == Spec => []HistoryIsComplete
  <1>1. EventInv => HistoryIsComplete
    BY DEF EventInv, QueueInv
  <1> QED
    BY <1>1, EventInvariant, PTL
=============================================================================
