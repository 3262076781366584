---------------------------- MODULE K8sLogStream ----------------------------
(***************************************************************************)
(* One stream of k8s_logs.rs: a single task reads a pod's log from the API *)
(* server, batches its lines and sends them to the bounded queue of the    *)
(* control-plane connection.                                               *)
(***************************************************************************)
EXTENDS Outgoing

CONSTANTS
    MaxLines,    \* bound: lines in the pod's log
    ChunkLines   \* MAX_LINES_PER_CHUNK

SizesAssumption ==
    /\ MaxLines \in Nat
    /\ ChunkLines \in Nat \ {0}

VARIABLES
    source,  \* the API server's side: "open", "ended" or "failed"
    logged,  \* lines the pod has logged
    taken,   \* lines the task has read
    reading, \* the task: "idle", "opening", "streaming", then "ending" or, with an
             \* error to report, "failing"; "returned" or "aborted"
    held     \* lines read and not yet sent

pod == <<source, logged>>
task == <<pod, taken, reading, held>>

Chunk(lines) == [type |-> "logs", lines |-> lines]
End == [type |-> "end"]           \* without an error
FailedEnd == [type |-> "failed"]  \* the same message with one

Init ==
    /\ source = "open"
    /\ logged = 0 /\ taken = 0
    /\ reading = "idle"
    /\ held = <<>>

Idle == reading = "idle"

-----------------------------------------------------------------------------
(* The pod and the API server, from the request on.                         *)

PodLogs ==
    /\ ~Idle
    /\ source = "open"
    /\ logged < MaxLines
    /\ logged' = logged + 1
    /\ UNCHANGED <<source, taken, reading, held, outgoing>>

SourceEnds ==
    /\ ~Idle
    /\ source = "open"
    /\ source' \in {"ended", "failed"}
    /\ UNCHANGED <<logged, taken, reading, held, outgoing>>

-----------------------------------------------------------------------------
(* run_stream.                                                              *)

\* K8sLogStreams::start spawns the task.
Request ==
    /\ Idle
    /\ reading' = "opening"
    /\ UNCHANGED <<pod, taken, held, outgoing>>

\* Client::try_default and log_stream; their errors are reported by End.
Open ==
    /\ reading = "opening"
    /\ \/ source # "failed" /\ reading' = "streaming"
       \/ reading' = "failing"
    /\ UNCHANGED <<pod, taken, held, outgoing>>

\* A chunk that is refused ends the task without a word.
Flush(lines) ==
    /\ held' = <<>>
    /\ Send(Chunk(lines))
    /\ reading' = IF HasRoom THEN reading ELSE "returned"

\* Mutant: the chunk is sent before the line that fills it is added.
ReadLine_drops ==
    /\ reading = "streaming"
    /\ taken < logged
    /\ taken' = taken + 1
    /\ LET lines == Append(held, taken')
       IN  IF Len(lines) >= ChunkLines
           THEN Flush(held)
           ELSE held' = lines /\ UNCHANGED <<outgoing, reading>>
    /\ UNCHANGED pod

ReadLine ==
    /\ reading = "streaming"
    /\ taken < logged
    /\ taken' = taken + 1
    /\ LET lines == Append(held, taken')
       IN  IF Len(lines) >= ChunkLines
           THEN Flush(lines)
           ELSE held' = lines /\ UNCHANGED <<outgoing, reading>>
    /\ UNCHANGED pod

Tick ==
    /\ reading = "streaming"
    /\ held # <<>>
    /\ Flush(held)
    /\ UNCHANGED <<pod, taken>>

\* The last lines are flushed, accepted or not.
Over(to) ==
    /\ reading = "streaming"
    /\ reading' = to
    /\ held' = <<>>
    /\ IF held = <<>> THEN UNCHANGED outgoing ELSE Send(Chunk(held))
    /\ UNCHANGED <<pod, taken>>

\* Mutant: the end of the log is taken for one as soon as the source is closed.
LogOver_early == source = "ended" /\ Over("ending")

\* The stream is read to its end.
LogOver == source = "ended" /\ taken = logged /\ Over("ending")

\* Reading fails, lines unread or not: the connection is reset, or a line is no
\* UTF-8, which may also happen to a source that goes on.
ReadFails == Over("failing")

\* Between the last chunk and End the connection may have made room.
SendEnd ==
    /\ \/ reading = "ending" /\ Send(End)
       \/ reading = "failing" /\ Send(FailedEnd)
    /\ reading' = "returned"
    /\ UNCHANGED <<pod, taken, held>>

\* K8sLogStreams::stop
Abort ==
    /\ reading \in {"opening", "streaming", "ending", "failing"}
    /\ reading' = "aborted"
    /\ UNCHANGED <<pod, taken, held, outgoing>>

Next ==
    \/ PodLogs \/ SourceEnds
    \/ Request \/ Open \/ ReadLine \/ Tick \/ LogOver \/ ReadFails \/ SendEnd
    \/ Abort

\* Tokio polls a ready task and the interval keeps ticking; the pod need not end,
\* and reading need only fail when the source has.
Fairness ==
    /\ WF_<<task, outgoing>>(\/ Open \/ ReadLine \/ LogOver \/ SendEnd
                             \/ source = "failed" /\ ReadFails)
    /\ WF_<<task, outgoing>>(Tick)

-----------------------------------------------------------------------------
(* Properties.                                                              *)

TypeOK ==
    /\ source \in {"open", "ended", "failed"}
    /\ logged \in 0 .. MaxLines /\ taken \in 0 .. MaxLines
    /\ reading \in {"idle", "opening", "streaming", "ending", "failing", "returned",
                   "aborted"}
    /\ held \in Seq(1 .. MaxLines) /\ Len(held) < ChunkLines

Chunks == Select(Messaged, LAMBDA m : m.type = "logs")
SentLines == Flatten([i \in 1 .. Len(Chunks) |-> Chunks[i].lines])

(* A stream that says End, with an error or without, has said its last; one  *)
(* without has sent the whole log, unless a send was refused.  An End with an *)
(* error promises nothing of the lines that were not read (k8s_logs.rs:120).  *)
EndMeansComplete ==
    \A i \in 1 .. Len(Messaged) :
        /\ Messaged[i] \in {End, FailedEnd} => i = Len(Messaged)
        /\ Messaged[i] = End => refused \/ Len(SentLines) = logged

(* What is sent is a prefix of the log, also when a chunk is refused: the   *)
(* first refused chunk is the last.                                         *)
ChunksInOrder ==
    \A n \in 1 .. Len(SentLines) : SentLines[n] = n

(* A stream that returns has said End unless the queue refused something    *)
(* (k8s_logs.rs:109-117 returns without a word): a failed connection, a      *)
(* failed log and an empty one are all reported.                             *)
EndUnlessRefused ==
    (reading = "returned" /\ ~refused) =>
        \E i \in 1 .. Len(Messaged) : Messaged[i] \in {End, FailedEnd}

(* To hold in the end: no line the task has read lingers; within a tick it is *)
(* sent, unless a send is refused or the stream is stopped.                  *)
LinesFlushed == refused \/ reading = "aborted" \/ Len(SentLines) = taken

(* To hold in the end: the task has ended if the pod's log has, whoever      *)
(* refuses its messages.                                                     *)
WoundUp == (source # "open" /\ ~Idle) => reading \in {"returned", "aborted"}
=============================================================================
