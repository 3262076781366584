--------------------------- MODULE JournalStream ---------------------------
(***************************************************************************)
(* One stream of journal_stream.rs: journalctl writes lines to two pipes,  *)
(* a pump task per pipe sends them over one channel, the batcher collects  *)
(* them into chunks for the bounded queue to the control plane (lib.rs,    *)
(* Outgoing), and the supervising task waits for all of them before it     *)
(* sends the End message.  Aborting the stream stops the supervisor only:  *)
(* the tasks it spawned are detached and run on until the pipes close.     *)
(***************************************************************************)
EXTENDS Outgoing

CONSTANTS
    MaxLines,    \* bound: lines per pipe
    ChunkLines   \* MAX_LINES_PER_CHUNK

SizesAssumption ==
    /\ MaxLines \in Nat
    /\ ChunkLines \in Nat \ {0}

VARIABLES
    child,      \* "none", "running", "exited" or "killed"
    printed,    \* lines written to each pipe
    pumped,     \* lines its pump has read
    pump,       \* the pump of each pipe: "reading", "done" or "failed"
    channel,    \* lines between the pumps and the batcher
    buf,        \* lines the batcher holds
    batcher,    \* "running" or "done"
    supervisor  \* what it waits for; "idle", "done" or "aborted"

process == <<child, printed>>
task == <<process, pumped, pump, channel, buf, batcher, supervisor>>
vars == <<task, outgoing>>

Pipes == {"stdout", "stderr"}

Chunk(lines) == [type |-> "chunk", lines |-> lines]
End == [type |-> "end"]

Init ==
    /\ child = "none"
    /\ printed = [p \in Pipes |-> 0]
    /\ pumped = [p \in Pipes |-> 0]
    /\ pump = [p \in Pipes |-> "reading"]
    /\ channel = <<>>
    /\ buf = <<>>
    /\ batcher = "running"
    /\ supervisor = "idle"

Idle == supervisor = "idle"

-----------------------------------------------------------------------------
(* journalctl.                                                              *)

\* A write to a pipe whose pump has returned ends the process (SIGPIPE).
ChildPrints(p) ==
    /\ child = "running"
    /\ printed[p] < MaxLines
    /\ IF pump[p] = "reading"
       THEN printed' = [printed EXCEPT ![p] = @ + 1] /\ UNCHANGED child
       ELSE child' = "exited" /\ UNCHANGED printed
    /\ UNCHANGED <<pumped, pump, channel, buf, batcher, supervisor, outgoing>>

ChildExits ==
    /\ child = "running"
    /\ child' = "exited"
    /\ UNCHANGED <<printed, pumped, pump, channel, buf, batcher, supervisor,
                   outgoing>>

ChildGone == child \in {"exited", "killed"}

-----------------------------------------------------------------------------
(* The pumps.                                                               *)

PumpLine(p) ==
    /\ pump[p] = "reading"
    /\ pumped[p] < printed[p]
    /\ pumped' = [pumped EXCEPT ![p] = @ + 1]
    /\ IF batcher = "running"
       THEN /\ channel' = Append(channel, <<p, pumped'[p]>>)
            /\ UNCHANGED pump
       ELSE /\ pump' = [pump EXCEPT ![p] = "done"]
            /\ UNCHANGED channel
    /\ UNCHANGED <<process, buf, batcher, supervisor, outgoing>>

PumpEof(p) ==
    /\ pump[p] = "reading"
    /\ ChildGone
    /\ pumped[p] = printed[p]
    /\ pump' = [pump EXCEPT ![p] = "done"]
    /\ UNCHANGED <<process, pumped, channel, buf, batcher, supervisor, outgoing>>

\* next_line fails, lines unread or not: one of them is no UTF-8.  The pump says
\* nothing of it, and closes the pipe.
PumpFails(p) ==
    /\ pump[p] = "reading"
    /\ child # "none"
    /\ pump' = [pump EXCEPT ![p] = "failed"]
    /\ UNCHANGED <<process, pumped, channel, buf, batcher, supervisor, outgoing>>

-----------------------------------------------------------------------------
(* The batcher.                                                             *)

\* A send that is refused ends the batcher, and its receiver with it.
Flush(lines) ==
    /\ buf' = <<>>
    /\ Send(Chunk(lines))
    /\ batcher' = IF HasRoom THEN batcher ELSE "done"

\* Mutant: a full buffer is taken before the line that filled it is added.
TakeLine_drops ==
    /\ batcher = "running"
    /\ channel # <<>>
    /\ channel' = Tail(channel)
    /\ LET lines == Append(buf, Head(channel))
       IN  IF Len(lines) >= ChunkLines
           THEN Flush(buf)
           ELSE buf' = lines /\ UNCHANGED <<outgoing, batcher>>
    /\ UNCHANGED <<process, pumped, pump, supervisor>>

\* Mutant: the buffer grows one line past the chunk size.
TakeLine_late ==
    /\ batcher = "running"
    /\ channel # <<>>
    /\ channel' = Tail(channel)
    /\ LET lines == Append(buf, Head(channel))
       IN  IF Len(lines) > ChunkLines
           THEN Flush(lines)
           ELSE buf' = lines /\ UNCHANGED <<outgoing, batcher>>
    /\ UNCHANGED <<process, pumped, pump, supervisor>>

TakeLine ==
    /\ batcher = "running"
    /\ channel # <<>>
    /\ channel' = Tail(channel)
    /\ LET lines == Append(buf, Head(channel))
       IN  IF Len(lines) >= ChunkLines
           THEN Flush(lines)
           ELSE buf' = lines /\ UNCHANGED <<outgoing, batcher>>
    /\ UNCHANGED <<process, pumped, pump, supervisor>>

\* Mutant: the tick only flushes when nothing waits in the channel.
Tick_never ==
    /\ batcher = "running"
    /\ buf # <<>> /\ channel # <<>>
    /\ Flush(buf)
    /\ UNCHANGED <<process, pumped, pump, channel, supervisor>>

Tick ==
    /\ batcher = "running"
    /\ buf # <<>>
    /\ Flush(buf)
    /\ UNCHANGED <<process, pumped, pump, channel, supervisor>>

\* Mutant: the original line_tx is not dropped.
SendersGone_held == FALSE

SendersGone == \A p \in Pipes : pump[p] # "reading"

\* Mutant: the lines in the buffer are dropped with the batcher.
LastFlush_forgets ==
    /\ batcher = "running"
    /\ channel = <<>> /\ SendersGone
    /\ batcher' = "done"
    /\ buf' = <<>>
    /\ UNCHANGED <<process, pumped, pump, channel, supervisor, outgoing>>

\* recv() returns None: every sender is gone and the channel is empty.
LastFlush ==
    /\ batcher = "running"
    /\ channel = <<>> /\ SendersGone
    /\ batcher' = "done"
    /\ buf' = <<>>
    /\ IF buf = <<>> THEN UNCHANGED outgoing ELSE Send(Chunk(buf))
    /\ UNCHANGED <<process, pumped, pump, channel, supervisor>>

-----------------------------------------------------------------------------
(* The supervising task, whose handle the registry of LogStreams holds.     *)

\* JournalStreams::start spawns the supervising task.
Request ==
    /\ Idle
    /\ supervisor' = "spawn"
    /\ UNCHANGED <<process, pumped, pump, channel, buf, batcher, outgoing>>

SpawnChild ==
    /\ supervisor = "spawn"
    /\ supervisor' = "child"
    /\ child' = "running"
    /\ UNCHANGED <<printed, pumped, pump, channel, buf, batcher, outgoing>>

\* build_argv refuses a filter, or journalctl cannot be spawned.
SpawnFails ==
    /\ supervisor = "spawn"
    /\ supervisor' = "end"
    /\ UNCHANGED <<process, pumped, pump, channel, buf, batcher, outgoing>>

\* child.wait(), then the pumps one after the other, then the batcher.
Await(from, ready, to) ==
    /\ supervisor = from
    /\ ready
    /\ supervisor' = to
    /\ UNCHANGED <<process, pumped, pump, channel, buf, batcher, outgoing>>

\* Mutant: the batcher is not waited for.
Supervise_early ==
    \/ Await("child", ChildGone, "stdout")
    \/ Await("stdout", pump["stdout"] # "reading", "stderr")
    \/ Await("stderr", pump["stderr"] # "reading", "end")
    \/ Await("batcher", FALSE, "end")

Supervise ==
    \/ Await("child", ChildGone, "stdout")
    \/ Await("stdout", pump["stdout"] # "reading", "stderr")
    \/ Await("stderr", pump["stderr"] # "reading", "batcher")
    \/ Await("batcher", batcher = "done", "end")

SendEnd ==
    /\ supervisor = "end"
    /\ Send(End)
    /\ supervisor' = "done"
    /\ UNCHANGED <<process, pumped, pump, channel, buf, batcher>>

\* kill_on_drop takes the child with the supervisor.
Abort ==
    /\ supervisor \notin {"idle", "done", "aborted"}
    /\ supervisor' = "aborted"
    /\ child' = IF child = "running" THEN "killed" ELSE child
    /\ UNCHANGED <<printed, pumped, pump, channel, buf, batcher, outgoing>>

Pump(p) == PumpLine(p) \/ PumpEof(p)
Batch == TakeLine \/ Tick \/ LastFlush

Next ==
    \/ \E p \in Pipes : ChildPrints(p) \/ Pump(p) \/ PumpFails(p)
    \/ ChildExits
    \/ Batch
    \/ Request \/ SpawnChild \/ SpawnFails \/ Supervise \/ SendEnd \/ Abort

(***************************************************************************)
(* Tokio polls every task that is ready and the interval keeps ticking.    *)
(* journalctl --follow need not end, and nobody need abort the stream.     *)
(***************************************************************************)
Fairness ==
    /\ \A p \in Pipes : WF_vars(Pump(p))
    /\ WF_vars(TakeLine \/ LastFlush)
    /\ WF_vars(Tick)
    /\ WF_vars(Supervise \/ SendEnd)

-----------------------------------------------------------------------------
(* Properties.                                                              *)

Lines == Pipes \X (1 .. MaxLines)

TypeOK ==
    /\ child \in {"none", "running", "exited", "killed"}
    /\ printed \in [Pipes -> 0 .. MaxLines]
    /\ pumped \in [Pipes -> 0 .. MaxLines]
    /\ pump \in [Pipes -> {"reading", "done", "failed"}]
    /\ channel \in Seq(Lines)
    /\ buf \in Seq(Lines) /\ Len(buf) < ChunkLines
    /\ batcher \in {"running", "done"}
    /\ supervisor \in {"idle", "spawn", "child", "stdout", "stderr", "batcher", "end",
                       "done", "aborted"}

Chunks == Select(Messaged, LAMBDA m : m.type = "chunk")
SentLines == Flatten([i \in 1 .. Len(Chunks) |-> Chunks[i].lines])
SentFrom(p) == Select(SentLines, LAMBDA l : l[1] = p)

(* The server sees, of each pipe, a prefix of what journalctl wrote: no     *)
(* line twice, none skipped, none out of order, even when sends are         *)
(* refused, because the first refused chunk is the batcher's last.          *)
ChunksInOrder ==
    \A p \in Pipes : \A n \in 1 .. Len(SentFrom(p)) : SentFrom(p)[n] = <<p, n>>

(* End is the last message of a stream: no chunk trails it.                 *)
EndIsLast ==
    \A i \in 1 .. Len(Messaged) : Messaged[i] = End => i = Len(Messaged)

(* When End is sent and no send was refused, the server has every line that   *)
(* was read, and every line of a pipe whose pump did not fail over it         *)
(* (journal_stream.rs:187, 198).                                             *)
EndMeansComplete ==
    (supervisor = "done" /\ ~refused) =>
        \A p \in Pipes : /\ Len(SentFrom(p)) = pumped[p]
                         /\ pump[p] # "failed" => pumped[p] = printed[p]

(* To hold in the end: no line that a pump has read lingers in the batcher;  *)
(* within a tick it is sent, unless a send is refused.                      *)
LinesFlushed ==
    refused \/ \A p \in Pipes : Len(SentFrom(p)) = pumped[p]

(* To hold in the end: when journalctl is gone the supervisor has finished,  *)
(* and nothing it waits for waits for it.                                   *)
WoundUp == ChildGone => supervisor \in {"done", "aborted"}
=============================================================================
