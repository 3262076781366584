----------------------------- MODULE LogStreams -----------------------------
(***************************************************************************)
(* The stream registries of logs.rs, journal.rs, journal_stream.rs and     *)
(* k8s_logs.rs: a map from a key (container, unit or stream id) to the     *)
(* JoinHandle of the task that pumps its log.  The four are one structure  *)
(* and differ in how the main loop calls them: the Kubernetes handlers are *)
(* awaited in the loop (InlineKeys), the others are each spawned as a task. *)
(*                                                                         *)
(* A request is named by its position among the requests the main loop has *)
(* read, and a stream by the request that started it.                      *)
(***************************************************************************)
EXTENDS Naturals, Sequences

CONSTANTS
    Keys,        \* container ids, units, stream ids
    ValidKeys,   \* the ones valid_container_id or valid_unit_name accepts
    InlineKeys,  \* the ones whose handlers the loop awaits before it reads on
    MaxRequests  \* bound: requests the main loop reads

ASSUME ConstantsAssumption ==
    /\ ValidKeys \subseteq Keys
    /\ InlineKeys \subseteq Keys
    /\ MaxRequests \in Nat

VARIABLES
    received, \* the requests read so far
    pc,       \* handler of each: "none", "stop", "spawn", "insert", "done"
    registry, \* the handle stored for a key, or 0
    task,     \* of each request: "none", "running", "aborting" or "gone"
    overlapped \* history: requests whose handlers shared a key and a moment

vars == <<received, pc, registry, task, overlapped>>

Requests == 1 .. MaxRequests
Received == 1 .. Len(received)
Key(i) == received[i].key
IsStart(i) == received[i].kind = "start"

Init ==
    /\ received = <<>>
    /\ pc = [i \in Requests |-> "none"]
    /\ registry = [k \in Keys |-> 0]
    /\ task = [i \in Requests |-> "none"]
    /\ overlapped = {}

-----------------------------------------------------------------------------
(* The main loop.                                                           *)

Busy(i) == pc[i] \notin {"none", "done"}

\* Mutant: a handler may still be running.
MayRead_early == TRUE

MayRead == \A i \in Received : Busy(i) => Key(i) \notin InlineKeys

\* start refuses a malformed key before it touches the registry.
Receive(what, k) ==
    LET i      == Len(received) + 1
        others == {j \in Received : Busy(j) /\ Key(j) = k}
    IN  /\ i \in Requests
        /\ MayRead
        /\ received' = Append(received, [kind |-> what, key |-> k])
        /\ pc' = [pc EXCEPT ![i] =
                    IF what = "start" /\ k \notin ValidKeys
                    THEN "done" ELSE "stop"]
        /\ overlapped' = overlapped \cup others \cup
                            (IF others = {} THEN {} ELSE {i})
        /\ UNCHANGED <<registry, task>>

-----------------------------------------------------------------------------
(* The handlers start and stop.  The registry's mutex is held for one step  *)
(* at a time; start takes it twice.                                         *)

\* JoinHandle::abort only asks: the task stops at its next await.
Aborted(i) ==
    IF i \in Requests /\ task[i] = "running"
    THEN [task EXCEPT ![i] = "aborting"] ELSE task

\* Mutant: the handle is dropped, which detaches the task.
StopPrevious_detaches(i) ==
    /\ pc[i] = "stop"
    /\ registry' = [registry EXCEPT ![Key(i)] = 0]
    /\ pc' = [pc EXCEPT ![i] = IF IsStart(i) THEN "spawn" ELSE "done"]
    /\ UNCHANGED <<received, task, overlapped>>

\* stop(&key): all of a stop request, the first part of a start request.
StopPrevious(i) ==
    /\ pc[i] = "stop"
    /\ task' = Aborted(registry[Key(i)])
    /\ registry' = [registry EXCEPT ![Key(i)] = 0]
    /\ pc' = [pc EXCEPT ![i] = IF IsStart(i) THEN "spawn" ELSE "done"]
    /\ UNCHANGED <<received, overlapped>>

\* tokio::spawn(run_stream)
SpawnStream(i) ==
    /\ pc[i] = "spawn"
    /\ task' = [task EXCEPT ![i] = "running"]
    /\ pc' = [pc EXCEPT ![i] = "insert"]
    /\ UNCHANGED <<received, registry, overlapped>>

\* Mutant: the handle is not stored.
Insert_forgets(i) ==
    /\ pc[i] = "insert"
    /\ pc' = [pc EXCEPT ![i] = "done"]
    /\ UNCHANGED <<received, registry, task, overlapped>>

\* Mutant: the handle is one too high.
Insert_shifted(i) ==
    /\ pc[i] = "insert"
    /\ registry' = [registry EXCEPT ![Key(i)] = i + 1]
    /\ pc' = [pc EXCEPT ![i] = "done"]
    /\ UNCHANGED <<received, task, overlapped>>

\* insert drops a handle that another start stored meanwhile: its task lives
\* on, detached.
Insert(i) ==
    /\ pc[i] = "insert"
    /\ registry' = [registry EXCEPT ![Key(i)] = i]
    /\ pc' = [pc EXCEPT ![i] = "done"]
    /\ UNCHANGED <<received, task, overlapped>>

-----------------------------------------------------------------------------
(* The stream tasks.                                                        *)

\* run_stream returns, its abort pending or not; its handle stays stored.
StreamEnds(i) ==
    /\ task[i] \in {"running", "aborting"}
    /\ task' = [task EXCEPT ![i] = "gone"]
    /\ UNCHANGED <<received, pc, registry, overlapped>>

\* The future is dropped at an await, and with it the child process.
StreamAborted(i) ==
    /\ task[i] = "aborting"
    /\ task' = [task EXCEPT ![i] = "gone"]
    /\ UNCHANGED <<received, pc, registry, overlapped>>

Handler(i) == StopPrevious(i) \/ SpawnStream(i) \/ Insert(i)

Next ==
    \/ \E what \in {"start", "stop"}, k \in Keys : Receive(what, k)
    \/ \E i \in Requests : Handler(i) \/ StreamEnds(i) \/ StreamAborted(i)

Spec == Init /\ [][Next]_vars

(***************************************************************************)
(* Tokio polls every task that is ready.  A stream with --follow need not  *)
(* end by itself and the server need not send anything.                    *)
(***************************************************************************)
Fairness ==
    \A i \in Requests : WF_vars(Handler(i)) /\ WF_vars(StreamAborted(i))

LiveSpec == Spec /\ Fairness

-----------------------------------------------------------------------------
(* Properties.                                                              *)

TypeOK ==
    /\ received \in Seq([kind : {"start", "stop"}, key : Keys])
    /\ Len(received) <= MaxRequests
    /\ pc \in [Requests -> {"none", "stop", "spawn", "insert", "done"}]
    /\ registry \in [Keys -> 0 .. MaxRequests]
    /\ task \in [Requests -> {"none", "running", "aborting", "gone"}]
    /\ overlapped \subseteq Requests

(* "One active stream per container_id" (logs.rs:34), "one active stream    *)
(* per unit" (journal.rs:29).                                               *)
OnePerKey ==
    \A i, j \in Received :
        task[i] = "running" /\ task[j] = "running" /\ Key(i) = Key(j) => i = j

\* No request of i's key was received after it.
Latest(i) ==
    \A j \in Received : i < j => Key(j) # Key(i)

(* Once the handlers are through, a stream that runs is the one the last     *)
(* request for its key asked for, whatever handlers of later requests did to *)
(* each other: a stop or a restart that was received later has won.          *)
LastRequestWins ==
    (\A i \in Received : ~Busy(i)) =>
        \A i \in Received \ overlapped : task[i] = "running" => Latest(i)

(* Every stream that runs can still be stopped: its handle is in the         *)
(* registry as soon as its handler has returned.                             *)
NoOrphanStream ==
    \A i \in Received \ overlapped :
        task[i] = "running" /\ pc[i] = "done" => registry[Key(i)] = i

(* Requests whose handlers did not overlap leave the stream they asked for,   *)
(* and every stream they leave can be stopped.                               *)
StreamsFollowRequests == LastRequestWins /\ NoOrphanStream

(* A request for a key puts an end to the stream started for it earlier,     *)
(* although abort only asks and nothing waits for it.  The line readers that  *)
(* such a task has spawned go on until their pipes close (logs.rs).           *)
SupersededEnds ==
    \A i \in Requests :
        (/\ i \in Received \ overlapped
         /\ pc[i] = "done" /\ Key(i) \in ValidKeys /\ ~Latest(i))
            ~> task[i] \notin {"running", "aborting"}

(* Where the loop awaits the handlers, the registry implements its comment.  *)
Active ==
    [k \in InlineKeys |->
        IF \E i \in Received : task[i] = "running" /\ Key(i) = k
        THEN CHOOSE i \in Received : task[i] = "running" /\ Key(i) = k
        ELSE 0]

Started ==
    [k \in InlineKeys |-> {i \in Received : task[i] # "none" /\ Key(i) = k}]

Table == INSTANCE OneStreamPerKey WITH
    Keys <- InlineKeys, Streams <- Requests, active <- Active, started <- Started

ImplementsOneStreamPerKey == Table!Spec
=============================================================================
