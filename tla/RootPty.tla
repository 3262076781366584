------------------------------ MODULE RootPty ------------------------------
(***************************************************************************)
(* One root PTY between the approver's client and run_pty: the length-     *)
(* prefixed framing of the gate's socket (privileged/framing.rs), the      *)
(* counters of the encrypted transport (privileged/crypto.rs) and the      *)
(* select loop of run_pty (bin/shellfleet-approval-gate.rs).               *)
(*                                                                         *)
(* write_frame writes a length and then a body, so a reader can see the    *)
(* one without the other.  The read_frame future is a branch of select!:   *)
(* when the output branch is taken the future is dropped, together with a  *)
(* length it has already consumed.  The write to the PTY blocks: while a   *)
(* program does not read its terminal, the loop polls no branch at all.     *)
(***************************************************************************)
EXTENDS Naturals, Sequences

CONSTANTS
    MaxFrames,   \* bound: frames the relay writes to the socket
    MaxOutput,   \* bound: chunks the shell prints
    CounterMax,  \* largest value of a transport counter (u64::MAX)
    Faithful     \* the relay forwards each client frame once, in order

ASSUME BoundsAssumption ==
    /\ MaxFrames \in Nat /\ MaxOutput \in Nat /\ CounterMax \in Nat
    /\ Faithful \in BOOLEAN

VARIABLES
    clientSent,  \* data frames the client has encrypted, counters 0 ..
    forwarded,   \* frames the relay has started to write
    forwardedData, \* data frames among them
    writing,     \* the frame whose length is written and whose body is not
    wire,        \* parts in the socket: <<"len", f>> and <<"body", f>>
    eof,         \* the agent's side of the socket is closed
    loop,        \* run_pty: "select", "writing" to the peer, "typing" into
                 \* the PTY, "ending", or over
    lengthRead,  \* the pending read_frame future has consumed a length
    sendCounter, receiveCounter, \* of the Transport
    typed,       \* data frames handed to the PTY's writer, in order
    shell,       \* "alive" (a program has the terminal open), "exited" (by
                 \* itself) or "killed"
    printed,     \* chunks the shell has printed
    queued,      \* of them: in the output channel
    sent,        \* of them: written to the peer
    nonces,      \* history: counters the gate has encrypted with
    endedBy,     \* history: the branch that ended the loop
    desync       \* history: a body was taken for a length

client == <<clientSent, forwarded, forwardedData, writing>>
counters == <<sendCounter, receiveCounter, nonces>>
tty == <<shell, printed, queued, sent>>
history == <<endedBy, desync>>
vars == <<client, wire, eof, loop, lengthRead, counters, typed, tty, history>>

NoFrame == [kind |-> "none", counter |-> 0]
Frames == [kind : {"data"}, counter : 0 .. MaxFrames] \cup
          [kind : {"resize", "close", "other"}, counter : {0}]

Over == {"closed", "failed"}

Init ==
    /\ clientSent = 0 /\ forwarded = 0 /\ forwardedData = 0
    /\ writing = NoFrame
    /\ wire = <<>>
    /\ eof = FALSE
    /\ loop = "select"
    /\ lengthRead = FALSE
    /\ sendCounter = 0 /\ receiveCounter = 0
    /\ typed = <<>>
    /\ shell = "alive"
    /\ printed = 0 /\ queued = 0 /\ sent = 0
    /\ nonces = <<>>
    /\ endedBy = "none"
    /\ desync = FALSE

-----------------------------------------------------------------------------
(* The peer: the operator's client and the relay between it and the gate.   *)

ClientEncrypts ==
    /\ clientSent < MaxFrames
    /\ clientSent' = clientSent + 1
    /\ UNCHANGED <<forwarded, forwardedData, writing, wire, eof, loop,
                   lengthRead, counters, typed, tty, history>>

\* Which frames the relay may write next: control frames always; data frames
\* in order and once, or, if the relay is not faithful, any of them.
Forwardable ==
    [kind : {"resize", "close", "other"}, counter : {0}] \cup
    {[kind |-> "data", counter |-> n] :
        n \in {k \in 0 .. MaxFrames :
                 k < clientSent /\ (Faithful => k = forwardedData)}}

\* write_frame: write_u32 ...
WriteLength(f) ==
    /\ ~eof
    /\ writing = NoFrame
    /\ forwarded < MaxFrames
    /\ forwarded' = forwarded + 1
    /\ forwardedData' = forwardedData + (IF f.kind = "data" THEN 1 ELSE 0)
    /\ writing' = f
    /\ wire' = Append(wire, <<"len", f>>)
    /\ UNCHANGED <<clientSent, eof, loop, lengthRead, counters, typed, tty,
                   history>>

\* ... and write_all(body).
WriteBody ==
    /\ ~eof
    /\ writing # NoFrame
    /\ writing' = NoFrame
    /\ wire' = Append(wire, <<"body", writing>>)
    /\ UNCHANGED <<clientSent, forwarded, forwardedData, eof, loop, lengthRead,
                   counters, typed, tty, history>>

\* The session is dropped or the agent dies, possibly inside a frame.
CloseSocket ==
    /\ ~eof
    /\ eof' = TRUE
    /\ UNCHANGED <<client, wire, loop, lengthRead, counters, typed, tty, history>>

-----------------------------------------------------------------------------
(* The shell and the thread that reads its terminal.                        *)

ShellPrints ==
    /\ shell = "alive"
    /\ printed < MaxOutput
    /\ printed' = printed + 1
    /\ queued' = queued + 1
    /\ UNCHANGED <<client, wire, eof, loop, lengthRead, counters, typed, shell,
                   sent, history>>

ShellExits ==
    /\ shell = "alive"
    /\ shell' = "exited"
    /\ UNCHANGED <<client, wire, eof, loop, lengthRead, counters, typed,
                   printed, queued, sent, history>>

-----------------------------------------------------------------------------
(* Transport.                                                               *)

\* Mutant: the counter wraps instead of failing.
NextCounter_wraps(c) == (c + 1) % (CounterMax + 1)

\* checked_add(1); the value after CounterMax stands for the error.
NextCounter(c) == c + 1

Exhausted(c) == NextCounter(c) > CounterMax

\* Mutant: frames from the future are accepted.
InSequence_window(counter) == counter >= receiveCounter

\* decrypt: any other counter is refused before the cipher is touched.
InSequence(counter) == counter = receiveCounter

\* Mutant: the counter advances past its last value.
Encrypt_unchecked ==
    /\ nonces' = Append(nonces, sendCounter)
    /\ sendCounter' = NextCounter(sendCounter)
    /\ UNCHANGED receiveCounter

\* encrypt uses the counter, then advances it or reports exhaustion.
Encrypt ==
    /\ nonces' = Append(nonces, sendCounter)
    /\ sendCounter' = IF Exhausted(sendCounter) THEN sendCounter
                      ELSE NextCounter(sendCounter)
    /\ UNCHANGED receiveCounter

-----------------------------------------------------------------------------
(* run_pty.                                                                 *)

Break(branch) == loop' = "ending" /\ endedBy' = branch

\* What the read branch does with a whole frame.
HandleFrame(f) ==
    \/ /\ f.kind = "data"
       /\ InSequence(f.counter)
       /\ ~Exhausted(receiveCounter)
       /\ typed' = Append(typed, f.counter)
       /\ receiveCounter' = NextCounter(receiveCounter)
       /\ loop' = "typing"
       /\ UNCHANGED endedBy
    \/ /\ f.kind = "data"
       /\ ~InSequence(f.counter) \/ Exhausted(receiveCounter)
       /\ loop' = "failed"
       /\ UNCHANGED <<typed, receiveCounter, endedBy>>
    \/ /\ f.kind = "resize"
       /\ UNCHANGED <<loop, typed, receiveCounter, endedBy>>
    \/ /\ f.kind = "close"
       /\ Break("close")
       /\ UNCHANGED <<typed, receiveCounter>>
    \/ /\ f.kind = "other"
       /\ loop' = "failed"
       /\ UNCHANGED <<typed, receiveCounter, endedBy>>

\* The future is polled: a length alone is consumed and kept in it.
PollLength ==
    /\ loop = "select" /\ ~desync
    /\ ~lengthRead
    /\ Len(wire) = 1
    /\ wire[1][1] = "len"
    /\ wire' = <<>>
    /\ lengthRead' = TRUE
    /\ UNCHANGED <<client, eof, loop, counters, typed, tty, history>>

\* A length with its body behind it, or the body of the length it holds.
PollFrame ==
    LET parts == IF lengthRead THEN 1 ELSE 2
    IN  /\ loop = "select" /\ ~desync
        /\ Len(wire) >= parts
        /\ lengthRead <=> wire[1][1] = "body"
        /\ wire' = SubSeq(wire, parts + 1, Len(wire))
        /\ lengthRead' = FALSE
        /\ HandleFrame(wire[1][2])
        /\ UNCHANGED <<client, eof, sendCounter, nonces, tty, desync>>

\* A body where a length is expected, and whatever follows it: its bytes are
\* no valid length and the loop breaks, or they are one and the loop waits
\* for that many bytes, which then do not decode.
PollGarbage ==
    /\ loop = "select"
    /\ wire # <<>>
    /\ desync \/ (~lengthRead /\ wire[1][1] = "body")
    /\ wire' = Tail(wire)
    /\ desync' = TRUE
    /\ \/ UNCHANGED <<loop, endedBy>>
       \/ Break("garbage")
       \/ loop' = "failed" /\ UNCHANGED endedBy
    /\ UNCHANGED <<client, eof, lengthRead, counters, typed, tty>>

\* write_all and flush on the PTY return: the terminal took the bytes.
TypingDone ==
    /\ loop = "typing"
    /\ shell = "alive"
    /\ loop' = "select"
    /\ UNCHANGED <<client, wire, eof, lengthRead, counters, typed, tty, history>>

\* Nothing has the terminal open any more: the write fails, `?` leaves run_pty.
TypingFails ==
    /\ loop = "typing"
    /\ shell = "exited"
    /\ loop' = "failed"
    /\ UNCHANGED <<client, wire, eof, lengthRead, counters, typed, tty, history>>

\* Mutant: after end of file the loop waits for the shell alone.
PollEof_ignored ==
    /\ loop = "select"
    /\ eof /\ wire = <<>> /\ shell = "exited"
    /\ Break("eof")
    /\ UNCHANGED <<client, wire, eof, lengthRead, counters, typed, tty, desync>>

\* End of file, inside a frame or between two.
PollEof ==
    /\ loop = "select"
    /\ eof
    /\ wire = <<>>
    /\ Break("eof")
    /\ UNCHANGED <<client, wire, eof, lengthRead, counters, typed, tty, desync>>

\* The output branch: the read future is dropped, the chunk is encrypted.
TakeOutput ==
    /\ loop = "select"
    /\ queued > 0
    /\ queued' = queued - 1
    /\ lengthRead' = FALSE
    /\ Encrypt
    /\ loop' = IF Exhausted(sendCounter) THEN "failed" ELSE "writing"
    /\ UNCHANGED <<client, wire, eof, typed, shell, printed, sent, history>>

OutputWritten ==
    /\ loop = "writing"
    /\ loop' = "select"
    /\ sent' = sent + 1
    /\ UNCHANGED <<client, wire, eof, lengthRead, counters, typed, shell,
                   printed, queued, history>>

\* The peer is gone: `?` leaves run_pty.
WriteFails ==
    /\ loop = "writing"
    /\ eof
    /\ loop' = "failed"
    /\ UNCHANGED <<client, wire, eof, lengthRead, counters, typed, tty, history>>

\* Mutant: the loop ends with the shell and leaves its last output behind.
OutputEnds_early ==
    /\ loop = "select"
    /\ shell = "exited"
    /\ Break("output")
    /\ UNCHANGED <<client, wire, eof, lengthRead, counters, typed, tty, desync>>

\* recv() returns None: the reader thread is gone and the channel is empty.
OutputEnds ==
    /\ loop = "select"
    /\ shell = "exited"
    /\ queued = 0
    /\ Break("output")
    /\ UNCHANGED <<client, wire, eof, lengthRead, counters, typed, tty, desync>>

Deadline ==
    /\ loop = "select"
    /\ Break("deadline")
    /\ UNCHANGED <<client, wire, eof, lengthRead, counters, typed, tty, desync>>

\* kill, wait, the encrypted Exit and Closed.
Finish ==
    /\ loop = "ending"
    /\ shell' = IF shell = "alive" THEN "killed" ELSE shell
    /\ Encrypt
    /\ loop' = IF Exhausted(sendCounter) THEN "failed" ELSE "closed"
    /\ UNCHANGED <<client, wire, eof, lengthRead, typed, printed, queued, sent,
                   history>>

Gate ==
    \/ PollLength \/ PollFrame \/ PollGarbage \/ PollEof
    \/ TypingDone \/ TypingFails
    \/ TakeOutput \/ OutputWritten \/ WriteFails
    \/ OutputEnds \/ Deadline \/ Finish

Peer ==
    \/ ClientEncrypts
    \/ \E f \in Forwardable : WriteLength(f)
    \/ WriteBody
    \/ CloseSocket

Next == Gate \/ Peer \/ ShellPrints \/ ShellExits

Spec == Init /\ [][Next]_vars

(***************************************************************************)
(* The gate's task is scheduled, and select! polls its branches in random  *)
(* order, so none that is ready again and again is passed over forever.    *)
(* The deadline may be hours away: nothing is assumed of it, nor of a       *)
(* program's reading its terminal (TypingDone).                             *)
(***************************************************************************)
Fairness ==
    /\ WF_vars(OutputWritten \/ WriteFails)
    /\ WF_vars(TypingFails)
    /\ WF_vars(Finish)
    /\ SF_vars(PollLength \/ PollFrame \/ PollGarbage \/ PollEof)

LiveSpec == Spec /\ Fairness

-----------------------------------------------------------------------------
(* Properties.                                                              *)

TypeOK ==
    /\ clientSent \in 0 .. MaxFrames
    /\ forwarded \in 0 .. MaxFrames
    /\ forwardedData \in 0 .. MaxFrames
    /\ writing \in Frames \cup {NoFrame}
    /\ wire \in Seq({"len", "body"} \X Frames)
    /\ eof \in BOOLEAN
    /\ loop \in {"select", "writing", "typing", "ending"} \cup Over
    /\ lengthRead \in BOOLEAN
    /\ sendCounter \in 0 .. CounterMax /\ receiveCounter \in 0 .. CounterMax
    /\ typed \in Seq(0 .. MaxFrames)
    /\ shell \in {"alive", "exited", "killed"}
    /\ printed \in 0 .. MaxOutput /\ queued \in 0 .. MaxOutput
    /\ sent \in 0 .. MaxOutput
    /\ nonces \in Seq(Nat)
    /\ endedBy \in {"none", "deadline", "output", "eof", "close", "garbage"}
    /\ desync \in BOOLEAN

(* What is typed into the shell is a prefix of what the client sent: whatever  *)
(* a relay repeats, drops or reorders, no keystroke is doubled, skipped or  *)
(* swapped (crypto.rs, decrypt and its receive_counter).                    *)
TypedIsPrefix ==
    \A i \in 1 .. Len(typed) : typed[i] = i - 1

(* No counter encrypts two frames under one key, not even when the counter  *)
(* is exhausted (crypto.rs, encrypt: the cipher runs before checked_add).   *)
NoncesDistinct ==
    \A i, j \in 1 .. Len(nonces) : nonces[i] = nonces[j] => i = j

(* The Exit frame of a shell that ended by itself follows all its output:   *)
(* the reader thread, the channel and the select loop lose nothing.         *)
OutputBeforeExit ==
    (loop = "closed" /\ endedBy = "output") => sent = printed

(* A session whose peer is gone ends, unless its loop waits for good in the  *)
(* write to a terminal that a living program never reads (the blocking       *)
(* pty_writer.write_all inside run_pty's select loop).                       *)
StuckTyping == loop = "typing" /\ shell = "alive"

PeerGoneEndsSession == eof ~> (loop \in Over \/ []StuckTyping)

(* The framing test's assertion, read_frame returns what write_frame wrote, *)
(* in the loop that uses both: a body is never taken for a length.          *)
FramesIntact == ~desync
=============================================================================
