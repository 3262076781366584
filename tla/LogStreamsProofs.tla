-------------------------- MODULE LogStreamsProofs --------------------------
(***************************************************************************)
(* Proofs about LogStreams, for every set of keys, awaited or spawned, and *)
(* every number of requests.                                               *)
(***************************************************************************)
EXTENDS LogStreams, TLAPS

-----------------------------------------------------------------------------
(* The strengthening of StreamsFollowRequests.                              *)

\* A request has a handler from the moment it is read, and none before.
HandlersFollowReads ==
    \A i \in Requests :
        /\ i \in Received <=> pc[i] # "none"
        /\ i \notin Received => task[i] = "none" /\ i \notin overlapped

\* A handler that is past its stop, and a stream, are a valid start's.
StreamsAreStarts ==
    \A i \in Received :
        /\ pc[i] \in {"spawn", "insert"} => IsStart(i)
        /\ IsStart(i) /\ pc[i] \in {"stop", "spawn", "insert"} => Key(i) \in ValidKeys
        /\ task[i] # "none" =>
              /\ IsStart(i) /\ Key(i) \in ValidKeys
              /\ pc[i] \in {"insert", "done"}

\* A key's handle is of a stream of that key.
HandlesMatch ==
    \A k \in Keys : registry[k] # 0 =>
        registry[k] \in Received /\ Key(registry[k]) = k

\* Of two requests for one key that did not overlap, the first is through.
Ordered ==
    \A i, j \in Received :
        (i < j /\ Key(i) = Key(j) /\ ~(i \in overlapped /\ j \in overlapped)) =>
            pc[i] = "done"

\* A stream survives a later request only until that one's stop.
SupersededStops ==
    \A i \in Received \ overlapped, j \in Received :
        (i < j /\ Key(i) = Key(j) /\ task[i] = "running") => pc[j] = "stop"

\* A handler that is awaited runs alone.
InlineAlone ==
    \A i \in Received : Key(i) \in InlineKeys =>
        /\ i \notin overlapped
        /\ Busy(i) => i = Len(received)

IInv ==
    /\ TypeOK
    /\ HandlersFollowReads
    /\ StreamsAreStarts
    /\ HandlesMatch
    /\ Ordered
    /\ SupersededStops
    /\ NoOrphanStream
    /\ InlineAlone

-----------------------------------------------------------------------------
(* Facts about the requests.                                                *)

\* Reading one more leaves those that were read as they are.
LEMMA ReadAppends ==
    ASSUME TypeOK, NEW what \in {"start", "stop"}, NEW k \in Keys, Receive(what, k)
    PROVE  /\ Len(received') = Len(received) + 1
           /\ Received' = Received \cup {Len(received) + 1}
           /\ Len(received) + 1 \in Requests
           /\ Len(received) + 1 \notin Received
           /\ received'[Len(received) + 1] = [kind |-> what, key |-> k]
           /\ \A i \in Received : received'[i] = received[i] /\ i < Len(received) + 1
  BY ConstantsAssumption DEF TypeOK, Receive, Received, Requests

LEMMA ReceivedType ==
    ASSUME TypeOK, NEW i \in Received
    PROVE  /\ i \in Requests /\ i \in Nat \ {0}
           /\ received[i].kind \in {"start", "stop"} /\ Key(i) \in Keys
  <1>1. i \in Requests /\ i \in Nat \ {0}
    BY ConstantsAssumption DEF TypeOK, Received, Requests
  <1>2. received[i] \in [kind : {"start", "stop"}, key : Keys]
    <2> DEFINE Request == [kind : {"start", "stop"}, key : Keys]
    <2>1. received \in Seq(Request) /\ i \in 1 .. Len(received)
      BY DEF TypeOK, Received
    <2> HIDE DEF Request
    <2>2. received[i] \in Request
      BY <2>1
    <2>3. QED
      BY <2>2 DEF Request
  <1>3. QED
    BY <1>1, <1>2 DEF Key

-----------------------------------------------------------------------------
(* The invariant is inductive.                                              *)

LEMMA InitIInv == Init => IInv
  <1> SUFFICES ASSUME Init PROVE IInv
    OBVIOUS
  <1>1. Received = {}
    BY DEF Init, Received
  <1>2. TypeOK
    BY ConstantsAssumption DEF Init, TypeOK, Requests
  <1>3. QED
    BY <1>1, <1>2 DEF Init, IInv, HandlersFollowReads, StreamsAreStarts, HandlesMatch,
       Ordered, SupersededStops, NoOrphanStream, InlineAlone

LEMMA ReceiveStep ==
    ASSUME IInv, NEW what \in {"start", "stop"}, NEW k \in Keys, Receive(what, k),
           NEW n, n = Len(received) + 1
    PROVE  IInv'
  <1> DEFINE others == {j \in Received : Busy(j) /\ Key(j) = k}
  <1>1. /\ n \in Requests /\ n \notin Received /\ Len(received') = n
        /\ Received' = Received \cup {n}
        /\ received'[n] = [kind |-> what, key |-> k]
        /\ \A i \in Received : received'[i] = received[i] /\ i < n
    BY ReadAppends DEF IInv
  <1>2. /\ Key(n)' = k
        /\ \A i \in Received : Key(i)' = Key(i) /\ IsStart(i)' = IsStart(i)
    BY <1>1 DEF Key, IsStart
  <1>3. /\ pc' = [pc EXCEPT ![n] = IF what = "start" /\ k \notin ValidKeys
                                   THEN "done" ELSE "stop"]
        /\ overlapped' = overlapped \cup others \cup (IF others = {} THEN {} ELSE {n})
        /\ registry' = registry /\ task' = task
        /\ MayRead
    BY DEF Receive
  <1>4. /\ \A i \in Received : pc'[i] = pc[i]
        /\ pc'[n] \in {"done", "stop"}
        /\ task[n] = "none"
    BY <1>1, <1>3, ReceivedType DEF IInv, TypeOK, HandlersFollowReads
  <1>5. TypeOK'
    <2>1. received' \in Seq([kind : {"start", "stop"}, key : Keys])
      BY DEF Receive, IInv, TypeOK
    <2>2. others \subseteq Requests /\ Len(received') <= MaxRequests
      BY <1>1, ReceivedType, ConstantsAssumption DEF IInv, Requests
    <2>3. QED
      BY <1>1, <1>3, <2>1, <2>2 DEF IInv, TypeOK
  <1>6. HandlersFollowReads'
    BY <1>1, <1>3, <1>4, ReceivedType DEF IInv, TypeOK, HandlersFollowReads
  <1>7. StreamsAreStarts'
    <2>1. (pc'[n] = "stop" /\ IsStart(n)') => k \in ValidKeys
      BY <1>1, <1>3 DEF IsStart, IInv, TypeOK
    <2>2. QED
      BY <1>1, <1>2, <1>3, <1>4, <2>1 DEF IInv, StreamsAreStarts
  <1>8. HandlesMatch'
    BY <1>1, <1>2, <1>3 DEF IInv, HandlesMatch
  <1>9. Ordered'
    <2> SUFFICES ASSUME NEW i \in Received', NEW j \in Received',
                        i < j, Key(i)' = Key(j)', ~(i \in overlapped' /\ j \in overlapped')
                 PROVE  pc'[i] = "done"
      BY DEF Ordered
    <2>1. i \in Received
      BY <1>1, ReceivedType DEF IInv, Received
    <2>2. CASE j \in Received
      BY <1>2, <1>3, <1>4, <2>1, <2>2 DEF IInv, Ordered
    <2>3. CASE j = n
      <3>1. i \notin others
        BY <1>3, <2>3
      <3>2. pc[i] = "done"
        BY <1>2, <2>1, <2>3, <3>1, ReceivedType DEF IInv, HandlersFollowReads, Busy
      <3>3. QED
        BY <1>4, <2>1, <3>2
    <2>4. QED
      BY <1>1, <2>2, <2>3
  <1>10. SupersededStops'
    <2> SUFFICES ASSUME NEW i \in Received', NEW j \in Received', i \notin overlapped',
                        i < j, Key(i)' = Key(j)', task'[i] = "running"
                 PROVE  pc'[j] = "stop"
      BY DEF SupersededStops
    <2>1. i \in Received /\ i \notin overlapped
      BY <1>1, <1>3, ReceivedType DEF IInv, Received
    <2>2. CASE j \in Received
      BY <1>2, <1>3, <1>4, <2>1, <2>2 DEF IInv, SupersededStops
    <2>3. CASE j = n
      <3>1. k \in ValidKeys
        BY <1>2, <1>3, <2>1, <2>3 DEF IInv, StreamsAreStarts
      <3>2. QED
        BY <1>1, <1>3, <2>3, <3>1 DEF IInv, TypeOK
    <2>4. QED
      BY <1>1, <2>2, <2>3
  <1>11. NoOrphanStream'
    BY <1>1, <1>2, <1>3, <1>4 DEF IInv, NoOrphanStream
  <1>12. InlineAlone'
    <2>1. \A i \in Received : Key(i) \in InlineKeys => ~Busy(i)
      BY <1>3 DEF MayRead
    <2>2. k \in InlineKeys => others = {}
      BY <2>1
    <2>3. \A i \in Received : Busy(i)' = Busy(i)
      BY <1>4 DEF Busy
    <2>4. \A i \in Received : Key(i) \in InlineKeys => i \notin others
      BY <2>1
    <2>5. k \in InlineKeys => n \notin overlapped'
      BY <1>1, <1>3, <2>2 DEF IInv, HandlersFollowReads
    <2>6. QED
      BY <1>1, <1>2, <1>3, <2>1, <2>3, <2>4, <2>5 DEF IInv, InlineAlone
  <1>13. QED
    BY <1>5, <1>6, <1>7, <1>8, <1>9, <1>10, <1>11, <1>12 DEF IInv

\* What a stop aborts.
LEMMA AbortedTasks ==
    ASSUME TypeOK, NEW i \in 0 .. MaxRequests
    PROVE  /\ Aborted(i) \in [Requests -> {"none", "running", "aborting", "gone"}]
           /\ \A j \in Requests : /\ Aborted(i)[j] = "running" => task[j] = "running" /\ j # i
                                  /\ Aborted(i)[j] = "none" <=> task[j] = "none"
  BY DEF TypeOK, Aborted

LEMMA StopPreviousStep ==
    ASSUME IInv, NEW i \in Requests, StopPrevious(i)
    PROVE  IInv'
  <1> DEFINE k == Key(i)
  <1>1. /\ pc[i] = "stop" /\ i \in Received /\ k \in Keys
        /\ received' = received /\ overlapped' = overlapped
        /\ registry' = [registry EXCEPT ![k] = 0]
        /\ task' = Aborted(registry[k])
        /\ pc' = [pc EXCEPT ![i] = IF IsStart(i) THEN "spawn" ELSE "done"]
    BY ReceivedType DEF StopPrevious, IInv, HandlersFollowReads
  <1>2. /\ Received' = Received /\ Len(received') = Len(received)
        /\ \A j \in Received : Key(j)' = Key(j) /\ IsStart(j)' = IsStart(j)
    BY <1>1 DEF Received, Key, IsStart
  <1>3. /\ task' \in [Requests -> {"none", "running", "aborting", "gone"}]
        /\ \A j \in Requests :
              /\ task'[j] = "running" => task[j] = "running" /\ j # registry[k]
              /\ task'[j] = "none" <=> task[j] = "none"
    BY <1>1, AbortedTasks DEF IInv, TypeOK
  <1>4. /\ pc'[i] \in {"spawn", "done"} /\ (pc'[i] = "spawn" => IsStart(i))
        /\ \A j \in Requests \ {i} : pc'[j] = pc[j]
    BY <1>1 DEF IInv, TypeOK
  <1>5. TypeOK'
    BY <1>1, <1>3, <1>4, ConstantsAssumption DEF IInv, TypeOK
  <1>6. HandlersFollowReads'
    BY <1>1, <1>2, <1>3, <1>4 DEF IInv, HandlersFollowReads
  <1>7. StreamsAreStarts'
    BY <1>1, <1>2, <1>3, <1>4, ReceivedType DEF IInv, StreamsAreStarts
  <1>8. HandlesMatch'
    BY <1>1, <1>2, ReceivedType DEF IInv, TypeOK, HandlesMatch
  <1>9. Ordered'
    BY <1>1, <1>2, <1>4, ReceivedType DEF IInv, Ordered
  \* The stream that a stop finds is the one that ran.
  <1>10. \A j \in Received \ overlapped : Key(j) = k => task'[j] # "running"
    <2> SUFFICES ASSUME NEW j \in Received \ overlapped, Key(j) = k, task'[j] = "running"
                 PROVE  FALSE
      OBVIOUS
    <2>1. task[j] = "running" /\ j # registry[k] /\ j # i
      BY <1>1, <1>3, ReceivedType DEF IInv, StreamsAreStarts
    <2>2. pc[j] # "done"
      BY <2>1 DEF IInv, NoOrphanStream
    <2>3. ~(j < i)
      BY <1>1, <2>2 DEF IInv, Ordered
    <2>4. ~(i < j)
      BY <1>1 DEF IInv, Ordered
    <2>5. QED
      BY <1>1, <2>1, <2>3, <2>4, ReceivedType DEF IInv
  <1>11. SupersededStops'
    <2> SUFFICES ASSUME NEW j \in Received \ overlapped, NEW l \in Received,
                        j < l, Key(j) = Key(l), task'[j] = "running"
                 PROVE  pc'[l] = "stop"
      BY <1>1, <1>2 DEF SupersededStops
    <2>1. task[j] = "running" /\ l # i
      BY <1>3, <1>10, ReceivedType DEF IInv
    <2>2. QED
      BY <1>4, <2>1, ReceivedType DEF IInv, SupersededStops
  <1>12. NoOrphanStream'
    <2> SUFFICES ASSUME NEW j \in Received \ overlapped,
                        task'[j] = "running", pc'[j] = "done"
                 PROVE  registry'[Key(j)] = j
      BY <1>1, <1>2 DEF NoOrphanStream
    <2>1. Key(j) # k /\ task[j] = "running" /\ j # i
      BY <1>3, <1>10, ReceivedType DEF IInv
    <2>2. pc[j] = "done"
      BY <1>4, <2>1, ReceivedType DEF IInv
    <2>3. registry[Key(j)] = j
      BY <2>1, <2>2 DEF IInv, NoOrphanStream
    <2>4. QED
      BY <1>1, <2>1, <2>3, ReceivedType DEF IInv, TypeOK
  <1>13. InlineAlone'
    <2>1. \A j \in Received : Busy(j)' => Busy(j)
      BY <1>1, <1>4, ReceivedType DEF IInv, Busy
    <2>2. QED
      BY <1>1, <1>2, <2>1 DEF IInv, InlineAlone
  <1>14. QED
    BY <1>5, <1>6, <1>7, <1>8, <1>9, <1>11, <1>12, <1>13 DEF IInv

LEMMA SpawnStreamStep ==
    ASSUME IInv, NEW i \in Requests, SpawnStream(i)
    PROVE  IInv'
  <1>1. /\ pc[i] = "spawn" /\ i \in Received /\ IsStart(i) /\ Key(i) \in ValidKeys
        /\ received' = received /\ overlapped' = overlapped /\ registry' = registry
        /\ task' = [task EXCEPT ![i] = "running"]
        /\ pc' = [pc EXCEPT ![i] = "insert"]
    BY DEF SpawnStream, IInv, HandlersFollowReads, StreamsAreStarts
  <1>2. /\ Received' = Received /\ Len(received') = Len(received)
        /\ \A j \in Received : Key(j)' = Key(j) /\ IsStart(j)' = IsStart(j)
    BY <1>1 DEF Received, Key, IsStart
  <1>3. /\ pc'[i] = "insert" /\ task'[i] = "running"
        /\ \A j \in Requests \ {i} : pc'[j] = pc[j] /\ task'[j] = task[j]
    BY <1>1 DEF IInv, TypeOK
  <1>4. TypeOK'
    BY <1>1 DEF IInv, TypeOK
  <1>5. HandlersFollowReads'
    BY <1>1, <1>2, <1>3 DEF IInv, HandlersFollowReads
  <1>6. StreamsAreStarts'
    BY <1>1, <1>2, <1>3, ReceivedType DEF IInv, StreamsAreStarts
  <1>7. HandlesMatch'
    BY <1>1, <1>2 DEF IInv, HandlesMatch
  <1>8. Ordered'
    BY <1>1, <1>2, <1>3, ReceivedType DEF IInv, Ordered
  <1>9. SupersededStops'
    <2> SUFFICES ASSUME NEW j \in Received \ overlapped, NEW l \in Received,
                        j < l, Key(j) = Key(l), task'[j] = "running"
                 PROVE  pc'[l] = "stop"
      BY <1>1, <1>2 DEF SupersededStops
    <2>1. j # i
      BY <1>1 DEF IInv, Ordered
    <2>2. pc[l] = "stop"
      BY <1>3, <2>1, ReceivedType DEF IInv, SupersededStops
    <2>3. QED
      BY <1>1, <1>3, <2>2, ReceivedType DEF IInv
  <1>10. NoOrphanStream'
    BY <1>1, <1>2, <1>3, ReceivedType DEF IInv, NoOrphanStream
  <1>11. InlineAlone'
    <2>1. \A j \in Received : Busy(j)' => Busy(j)
      BY <1>1, <1>3, ReceivedType DEF IInv, Busy
    <2>2. QED
      BY <1>1, <1>2, <2>1 DEF IInv, InlineAlone
  <1>12. QED
    BY <1>4, <1>5, <1>6, <1>7, <1>8, <1>9, <1>10, <1>11 DEF IInv

LEMMA InsertStep ==
    ASSUME IInv, NEW i \in Requests, Insert(i)
    PROVE  IInv'
  <1>1. /\ pc[i] = "insert" /\ i \in Received /\ IsStart(i) /\ Key(i) \in Keys
        /\ received' = received /\ overlapped' = overlapped /\ task' = task
        /\ registry' = [registry EXCEPT ![Key(i)] = i]
        /\ pc' = [pc EXCEPT ![i] = "done"]
    BY ReceivedType DEF Insert, IInv, HandlersFollowReads, StreamsAreStarts
  <1>2. /\ Received' = Received /\ Len(received') = Len(received)
        /\ \A j \in Received : Key(j)' = Key(j) /\ IsStart(j)' = IsStart(j)
    BY <1>1 DEF Received, Key, IsStart
  <1>3. pc'[i] = "done" /\ \A j \in Requests \ {i} : pc'[j] = pc[j]
    BY <1>1 DEF IInv, TypeOK
  <1>4. TypeOK'
    BY <1>1, ConstantsAssumption DEF IInv, TypeOK, Requests
  <1>5. HandlersFollowReads'
    BY <1>1, <1>2, <1>3 DEF IInv, HandlersFollowReads
  <1>6. StreamsAreStarts'
    BY <1>1, <1>2, <1>3, ReceivedType DEF IInv, StreamsAreStarts
  <1>7. HandlesMatch'
    BY <1>1, <1>2 DEF IInv, TypeOK, HandlesMatch
  <1>8. Ordered'
    BY <1>1, <1>2, <1>3, ReceivedType DEF IInv, Ordered
  <1>9. SupersededStops'
    <2> SUFFICES ASSUME NEW j \in Received \ overlapped, NEW l \in Received,
                        j < l, Key(j) = Key(l), task[j] = "running"
                 PROVE  pc'[l] = "stop"
      BY <1>1, <1>2 DEF SupersededStops
    <2>1. pc[l] = "stop"
      BY DEF IInv, SupersededStops
    <2>2. QED
      BY <1>1, <1>3, <2>1, ReceivedType DEF IInv
  \* A handle that is replaced is of a request that overlapped.
  <1>10. NoOrphanStream'
    <2> SUFFICES ASSUME NEW j \in Received \ overlapped, j # i,
                        task[j] = "running", pc[j] = "done", Key(j) = Key(i)
                 PROVE  FALSE
      BY <1>1, <1>2, <1>3, ReceivedType DEF IInv, TypeOK, NoOrphanStream
    <2>1. ~(i < j)
      BY <1>1 DEF IInv, Ordered
    <2>2. ~(j < i)
      BY <1>1 DEF IInv, SupersededStops
    <2>3. QED
      BY <1>1, <2>1, <2>2, ReceivedType DEF IInv
  <1>11. InlineAlone'
    <2>1. \A j \in Received : Busy(j)' => Busy(j)
      BY <1>1, <1>3, ReceivedType DEF IInv, Busy
    <2>2. QED
      BY <1>1, <1>2, <2>1 DEF IInv, InlineAlone
  <1>12. QED
    BY <1>4, <1>5, <1>6, <1>7, <1>8, <1>9, <1>10, <1>11 DEF IInv

\* A stream that ends disturbs nothing.
LEMMA StreamGoneStep ==
    ASSUME IInv, NEW i \in Requests, StreamEnds(i) \/ StreamAborted(i)
    PROVE  IInv'
  <1>1. /\ task[i] # "none"
        /\ task' = [task EXCEPT ![i] = "gone"]
        /\ UNCHANGED <<received, pc, registry, overlapped>>
    BY DEF StreamEnds, StreamAborted
  <1>2. \A j \in Requests : /\ task'[j] = "running" => task[j] = "running"
                            /\ task'[j] = "none" <=> task[j] = "none"
    BY <1>1 DEF IInv, TypeOK
  <1>3. TypeOK'
    BY <1>1 DEF IInv, TypeOK
  <1>4. HandlersFollowReads' /\ StreamsAreStarts'
    BY <1>1, <1>2, ReceivedType
       DEF IInv, HandlersFollowReads, StreamsAreStarts, Received, Key, IsStart
  <1>5. HandlesMatch' /\ Ordered' /\ InlineAlone'
    BY <1>1 DEF IInv, HandlesMatch, Ordered, InlineAlone, Busy, Received, Key
  <1>6. SupersededStops' /\ NoOrphanStream'
    <2>1. Received' = Received /\ \A j \in Received : Key(j)' = Key(j)
      BY <1>1 DEF Received, Key
    <2>2. QED
      BY <1>1, <1>2, <2>1, ReceivedType DEF IInv, SupersededStops, NoOrphanStream
  <1>7. QED
    BY <1>3, <1>4, <1>5, <1>6 DEF IInv

LEMMA NextIInv == IInv /\ [Next]_vars => IInv'
  <1> SUFFICES ASSUME IInv, [Next]_vars PROVE IInv'
    OBVIOUS
  <1>1. CASE UNCHANGED vars
    BY <1>1 DEF vars, IInv, TypeOK, HandlersFollowReads, StreamsAreStarts, HandlesMatch,
       Ordered, SupersededStops, NoOrphanStream, InlineAlone, Received, Key, IsStart, Busy
  <1>2. ASSUME NEW what \in {"start", "stop"}, NEW k \in Keys, Receive(what, k)
        PROVE  IInv'
    BY <1>2, ReceiveStep
  <1>3. ASSUME NEW i \in Requests, Handler(i)
        PROVE  IInv'
    BY <1>3, StopPreviousStep, SpawnStreamStep, InsertStep DEF Handler
  <1>4. ASSUME NEW i \in Requests, StreamEnds(i) \/ StreamAborted(i)
        PROVE  IInv'
    BY <1>4, StreamGoneStep
  <1>5. QED
    BY <1>1, <1>2, <1>3, <1>4 DEF Next

THEOREM Invariance == Spec => []IInv
  BY InitIInv, NextIInv, PTL DEF Spec

-----------------------------------------------------------------------------
(* What it gives.                                                           *)

(* The registries never leave their types, however many handlers run at     *)
(* once (logs.rs, journal.rs, journal_stream.rs, k8s_logs.rs).               *)
THEOREM Types == Spec => []TypeOK
  BY Invariance, PTL DEF IInv

LEMMA LatestRuns == IInv => LastRequestWins
  <1> SUFFICES ASSUME IInv, \A i \in Received : ~Busy(i),
                      NEW i \in Received \ overlapped, task[i] = "running",
                      NEW j \in Received, i < j, Key(j) = Key(i)
               PROVE  FALSE
    BY DEF LastRequestWins, Latest
  <1>1. pc[j] = "stop"
    BY DEF IInv, SupersededStops
  <1>2. QED
    BY <1>1 DEF Busy

(* A stream that runs after its handlers is the one the last request for its *)
(* key asked for, and can be stopped: start and stop of logs.rs:43-78 and    *)
(* their three copies, for requests whose handlers did not overlap.          *)
THEOREM Following == Spec => []StreamsFollowRequests
  <1>1. IInv => StreamsFollowRequests
    BY LatestRuns DEF IInv, StreamsFollowRequests
  <1>2. QED
    BY <1>1, Invariance, PTL

-----------------------------------------------------------------------------
(* Where the handlers are awaited, the registry implements OneStreamPerKey. *)

\* The streams of a key that run, and that were started.
Runs(k) == {i \in Received : task[i] = "running" /\ Key(i) = k}
Had(k) == {i \in Received : task[i] # "none" /\ Key(i) = k}

ActiveRuns ==
    \A k \in InlineKeys :
        /\ Runs(k) = {} => Active[k] = 0
        /\ \A i \in Runs(k) : Active[k] = i

LEMMA InlineOneRuns ==
    ASSUME IInv, NEW k \in InlineKeys, NEW i \in Runs(k), NEW j \in Runs(k)
    PROVE  i = j
  <1>1. ASSUME NEW a \in Runs(k), NEW b \in Runs(k), a < b
        PROVE  FALSE
    <2>1. a \in Received \ overlapped /\ b \in Received /\ Key(a) = Key(b)
      BY DEF Runs, IInv, InlineAlone
    <2>2. pc[b] = "stop"
      BY <1>1, <2>1 DEF Runs, IInv, SupersededStops
    <2>3. pc[b] \in {"insert", "done"}
      BY DEF Runs, IInv, StreamsAreStarts
    <2>4. QED
      BY <2>2, <2>3
  <1>2. i \in Nat /\ j \in Nat
    BY ReceivedType DEF IInv, Runs
  <1>3. QED
    BY <1>1, <1>2

LEMMA ActiveIsRunning == IInv => ActiveRuns
  <1> SUFFICES ASSUME IInv, NEW k \in InlineKeys
               PROVE  /\ Runs(k) = {} => Active[k] = 0
                      /\ \A i \in Runs(k) : Active[k] = i
    BY DEF ActiveRuns
  <1>1. CASE Runs(k) = {}
    <2>1. ~ \E i \in Received : task[i] = "running" /\ Key(i) = k
      BY <1>1 DEF Runs
    <2>2. QED
      BY <1>1, <2>1 DEF Active
  <1>2. CASE Runs(k) # {}
    <2> DEFINE a == CHOOSE i \in Received : task[i] = "running" /\ Key(i) = k
    <2>1. \E i \in Received : task[i] = "running" /\ Key(i) = k
      BY <1>2 DEF Runs
    <2>2. a \in Runs(k)
      BY <2>1 DEF Runs
    <2>3. Active[k] = a
      BY <2>1 DEF Active
    <2>4. QED
      BY <1>2, <2>2, <2>3, InlineOneRuns
  <1>3. QED
    BY <1>1, <1>2

LEMMA ActiveStays ==
    ASSUME ActiveRuns, ActiveRuns', NEW k \in InlineKeys, Runs(k)' = Runs(k)
    PROVE  Active'[k] = Active[k]
  BY DEF ActiveRuns

LEMMA TablesAreFunctions ==
    /\ Active = [k \in InlineKeys |-> Active[k]]
    /\ Started = [k \in InlineKeys |-> Had(k)]
  BY DEF Active, Started, Had

\* One stream less, or none.
LEMMA DropStep ==
    ASSUME IInv, IInv', NEW k, NEW x,
           Runs(k)' = Runs(k) \ {x},
           \A l \in Keys \ {k} : Runs(l)' = Runs(l),
           \A l \in Keys : Had(l)' = Had(l)
    PROVE  [Table!Next]_<<Active, Started>>
  <1>1. ActiveRuns /\ ActiveRuns'
    BY ActiveIsRunning, PTL
  <1>2. InlineKeys \subseteq Keys
    BY ConstantsAssumption
  <1>3. \A l \in InlineKeys \ {k} : Active'[l] = Active[l]
    BY <1>1, <1>2, ActiveStays
  <1>4. /\ Active = [l \in InlineKeys |-> Active[l]]
        /\ Active' = [l \in InlineKeys |-> Active'[l]]
        /\ Started' = Started
    BY <1>2, TablesAreFunctions DEF Active, Started, Had
  <1>5. CASE k \in InlineKeys /\ Runs(k) # {} /\ Runs(k)' = {}
    <2>1. PICK i \in Runs(k) : TRUE
      BY <1>5
    <2>2. Active[k] = i /\ i \in Nat \ {0} /\ Active'[k] = 0
      BY <1>1, <1>5, ReceivedType DEF ActiveRuns, IInv, Runs
    <2>3. Active' = [Active EXCEPT ![k] = 0]
      BY <1>3, <1>4, <2>2
    <2>4. Table!Stop(k)
      BY <1>4, <2>2, <2>3 DEF Table!Stop
    <2>5. QED
      BY <1>5, <2>4 DEF Table!Next
  <1>6. CASE k \in InlineKeys /\ ~(Runs(k) # {} /\ Runs(k)' = {})
    <2>1. Runs(k)' = Runs(k)
      <3>1. CASE Runs(k) = {}
        BY <3>1
      <3>2. CASE Runs(k)' # {}
        <4>1. PICK i \in Runs(k)' : TRUE
          BY <3>2
        <4>2. \A j \in Runs(k) : j = i
          BY <1>6, <4>1, InlineOneRuns
        <4>3. QED
          BY <4>1, <4>2
      <3>3. QED
        BY <1>6, <3>1, <3>2
    <2>2. Active'[k] = Active[k]
      BY <1>1, <1>6, <2>1, ActiveStays
    <2>3. QED
      BY <1>3, <1>4, <2>2
  <1>7. CASE k \notin InlineKeys
    BY <1>3, <1>4, <1>7
  <1>8. QED
    BY <1>5, <1>6, <1>7

LEMMA ReadStutters ==
    ASSUME IInv, IInv', NEW what \in {"start", "stop"}, NEW k \in Keys, Receive(what, k)
    PROVE  [Table!Next]_<<Active, Started>>
  <1>1. PICK n : /\ Received' = Received \cup {n} /\ n \in Requests /\ n \notin Received
                 /\ \A i \in Received : Key(i)' = Key(i)
    BY ReadAppends DEF IInv, Key
  <1>2. task' = task /\ task[n] = "none"
    BY <1>1 DEF Receive, IInv, HandlersFollowReads
  <1>3. \A l \in Keys : Runs(l)' = Runs(l) /\ Had(l)' = Had(l)
    BY <1>1, <1>2 DEF Runs, Had
  <1>4. Runs(k)' = Runs(k) \ {n}
    BY <1>1, <1>3 DEF Runs
  <1>5. QED
    BY <1>3, <1>4, DropStep

LEMMA StopDrops ==
    ASSUME IInv, IInv', NEW i \in Requests, StopPrevious(i)
    PROVE  [Table!Next]_<<Active, Started>>
  <1> DEFINE k == Key(i)
             x == registry[k]
  <1>1. /\ i \in Received /\ k \in Keys /\ Received' = Received
        /\ \A j \in Received : Key(j)' = Key(j)
        /\ task' = Aborted(x) /\ x \in 0 .. MaxRequests
    BY ReceivedType DEF StopPrevious, IInv, HandlersFollowReads, TypeOK, Received, Key
  <1>2. \A j \in Requests :
           /\ task'[j] = "none" <=> task[j] = "none"
           /\ task'[j] = "running" <=> task[j] = "running" /\ j # x
    <2>1. /\ task' = IF x \in Requests /\ task[x] = "running"
                     THEN [task EXCEPT ![x] = "aborting"] ELSE task
          /\ task \in [Requests -> {"none", "running", "aborting", "gone"}]
      BY <1>1 DEF Aborted, IInv, TypeOK
    <2> HIDE DEF x
    <2>2. QED
      BY <2>1
  <1>3. x \in Received => Key(x) = k
    BY <1>1, ReceivedType DEF IInv, HandlesMatch
  <1>4. \A l \in Keys : Had(l)' = Had(l)
    BY <1>1, <1>2, ReceivedType DEF IInv, Had
  <1>5. \A l \in Keys \ {k} : Runs(l)' = Runs(l)
    BY <1>1, <1>2, <1>3, ReceivedType DEF IInv, Runs
  <1>6. ASSUME NEW key, key = k, NEW y, y = x
        PROVE  Runs(key)' = Runs(key) \ {y}
    BY <1>1, <1>2, <1>6, ReceivedType DEF IInv, Runs
  <1>7. QED
    BY <1>4, <1>5, <1>6, DropStep

LEMMA GoneDrops ==
    ASSUME IInv, IInv', NEW i \in Requests, StreamEnds(i) \/ StreamAborted(i)
    PROVE  [Table!Next]_<<Active, Started>>
  <1>1. /\ task[i] # "none" /\ task' = [task EXCEPT ![i] = "gone"]
        /\ Received' = Received /\ \A j \in Received : Key(j)' = Key(j)
    BY DEF StreamEnds, StreamAborted, Received, Key
  <1>2. /\ i \in Received
        /\ \A j \in Requests : /\ task'[j] = "none" <=> task[j] = "none"
                               /\ task'[j] = "running" <=> task[j] = "running" /\ j # i
    BY <1>1 DEF IInv, TypeOK, HandlersFollowReads
  <1>3. \A l \in Keys : Had(l)' = Had(l)
    BY <1>1, <1>2, ReceivedType DEF IInv, Had
  <1>4. ASSUME NEW k, k = Key(i)
        PROVE  /\ Runs(k)' = Runs(k) \ {i}
               /\ \A l \in Keys \ {k} : Runs(l)' = Runs(l)
    BY <1>1, <1>2, <1>4, ReceivedType DEF IInv, Runs
  <1>5. QED
    BY <1>3, <1>4, DropStep

LEMMA SpawnStarts ==
    ASSUME IInv, IInv', NEW i \in Requests, SpawnStream(i)
    PROVE  [Table!Next]_<<Active, Started>>
  <1>1. /\ pc[i] = "spawn" /\ i \in Received /\ task' = [task EXCEPT ![i] = "running"]
        /\ Received' = Received /\ \A j \in Received : Key(j)' = Key(j)
    BY DEF SpawnStream, IInv, HandlersFollowReads, Received, Key
  <1>2. \A j \in Requests \ {i} : task'[j] = task[j]
    BY <1>1 DEF IInv, TypeOK
  <1>3. PICK k : k = Key(i) /\ k \in Keys
    BY <1>1, ReceivedType DEF IInv
  <1>4. /\ Runs(k)' = Runs(k) \cup {i} /\ Had(k)' = Had(k) \cup {i}
        /\ \A l \in Keys \ {k} : Runs(l)' = Runs(l) /\ Had(l)' = Had(l)
    BY <1>1, <1>2, <1>3, ReceivedType DEF IInv, TypeOK, Runs, Had
  <1>5. ActiveRuns /\ ActiveRuns'
    BY ActiveIsRunning, PTL
  <1>6. InlineKeys \subseteq Keys
    BY ConstantsAssumption
  <1>7. \A l \in InlineKeys \ {k} : Active'[l] = Active[l]
    BY <1>4, <1>5, <1>6, ActiveStays
  <1>8. /\ Active = [l \in InlineKeys |-> Active[l]]
        /\ Active' = [l \in InlineKeys |-> Active'[l]]
    BY DEF Active
  <1>9. CASE k \notin InlineKeys
    <2>1. Started' = Started
      BY <1>4, <1>6, <1>9 DEF Started, Had
    <2>2. QED
      BY <1>7, <1>8, <1>9, <2>1
  <1>10. CASE k \in InlineKeys
    \* The key's earlier streams are through and stopped.
    <2>1. \A j \in Had(k) : j < i /\ task[j] # "running"
      <3> SUFFICES ASSUME NEW j \in Had(k)
                   PROVE  j < i /\ task[j] # "running"
        OBVIOUS
      <3>1. j \in Received /\ Key(j) = k /\ i \notin overlapped /\ j \notin overlapped
        BY <1>1, <1>3, <1>10 DEF Had, IInv, InlineAlone
      <3>2. i # j
        BY <1>1 DEF Had, IInv, StreamsAreStarts
      <3>3. ~(i < j)
        BY <1>1, <1>3, <3>1 DEF IInv, Ordered
      <3>4. j < i
        BY <1>1, <3>1, <3>2, <3>3, ReceivedType DEF IInv
      <3>5. QED
        BY <1>1, <1>3, <3>1, <3>4 DEF IInv, SupersededStops
    <2>2. Runs(k) = {}
      BY <2>1 DEF Runs, Had
    <2>3. Active[k] = 0 /\ Active'[k] = i
      BY <1>4, <1>5, <1>10, <2>2 DEF ActiveRuns
    <2>4. Active' = [Active EXCEPT ![k] = i]
      BY <1>7, <1>8, <1>10, <2>3
    <2>5. Started[k] = Had(k) /\ Started' = [Started EXCEPT ![k] = @ \cup {i}]
      BY <1>4, <1>6, <1>10 DEF Started, Had
    <2>6. Table!Start(k, i)
      BY <2>1, <2>3, <2>4, <2>5 DEF Table!Start
    <2>7. QED
      BY <1>10, <2>6 DEF Table!Next
  <1>11. QED
    BY <1>9, <1>10

LEMMA TableStep == IInv /\ IInv' /\ [Next]_vars => [Table!Next]_<<Active, Started>>
  <1> SUFFICES ASSUME IInv, IInv', [Next]_vars PROVE [Table!Next]_<<Active, Started>>
    OBVIOUS
  <1>1. CASE UNCHANGED <<received, task>>
    BY <1>1 DEF Active, Started, Received, Key
  <1>2. ASSUME NEW what \in {"start", "stop"}, NEW k \in Keys, Receive(what, k)
        PROVE  [Table!Next]_<<Active, Started>>
    BY <1>2, ReadStutters
  <1>3. ASSUME NEW i \in Requests, Handler(i)
        PROVE  [Table!Next]_<<Active, Started>>
    <2>1. CASE Insert(i)
      BY <1>1, <2>1 DEF Insert
    <2>2. QED
      BY <1>3, <2>1, StopDrops, SpawnStarts DEF Handler
  <1>4. ASSUME NEW i \in Requests, StreamEnds(i) \/ StreamAborted(i)
        PROVE  [Table!Next]_<<Active, Started>>
    BY <1>4, GoneDrops
  <1>5. QED
    BY <1>1, <1>2, <1>3, <1>4 DEF Next, vars

(* "One active stream per container_id" (logs.rs:34): where the main loop    *)
(* awaits the handlers, every step of the registry is a step of the table    *)
(* that keeps one stream per key and never brings back an older one.         *)
THEOREM Implements == Spec => ImplementsOneStreamPerKey
  <1>1. Init => Table!Init
    <2> SUFFICES ASSUME Init PROVE Table!Init
      OBVIOUS
    <2>1. Received = {}
      BY DEF Init, Received
    <2>2. QED
      BY <2>1 DEF Table!Init, Active, Started
  <1>2. QED
    BY <1>1, Invariance, TableStep, PTL DEF Spec, Table!Spec, ImplementsOneStreamPerKey
=============================================================================
