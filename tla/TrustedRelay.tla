---------------------------- MODULE TrustedRelay ----------------------------
(***************************************************************************)
(* The agent's relay between the control plane and the approval gate: the  *)
(* TrustedOperationClient handler of the main loop (main.rs), which keeps  *)
(* one RelaySession per request id, and the two tasks that                 *)
(* privileged/client.rs starts for each connection to the gate's socket.   *)
(* The gate is a peer that reads, answers and closes; ApprovalGate and     *)
(* RootPty say how.                                                        *)
(***************************************************************************)
EXTENDS Naturals, Sequences

CONSTANTS
    Ids,           \* request ids
    MaxMessages,   \* bound: messages the main loop reads
    MaxHostFrames  \* bound: frames the gate sends on a connection

ASSUME BoundsAssumption == MaxMessages \in Nat /\ MaxHostFrames \in Nat

VARIABLES
    inbox,     \* messages read: [id, kind], named by their position
    sessions,  \* trusted_sessions: the connection of an id, or 0
    opened,    \* connections opened so far
    owner,     \* of each connection: its request id, from the first message
    channel,   \* messages between the session and its writer task
    writer,    \* "none", "running" or "ended"
    toGate,    \* frames in the socket, towards the gate
    gate,      \* "none", "serving", "typing" (in the blocking write to its
               \* PTY) or "closed"
    gateGot,   \* history: frames the gate has read
    answered,  \* frames the gate has sent
    fromGate,  \* frames in the socket, from the gate: "frame" or "final"
    reader,    \* "none", "running" or "ended"
    refused,   \* messages the loop has answered itself, all of them complete
    sent,      \* of each connection: the complete flags Outgoing accepted
    missed     \* history: connections whose complete flag it refused

loop == <<inbox, sessions, opened, owner>>
gateSide == <<gate, gateGot, answered>>
told == <<sent, missed>>
vars == <<loop, channel, writer, toGate, gateSide, fromGate, reader,
          refused, told>>

Conns == 1 .. MaxMessages
Kinds == {"start", "frame", "close", "mismatch"}

Init ==
    /\ inbox = <<>>
    /\ sessions = [i \in Ids |-> 0]
    /\ opened = 0
    /\ owner = [c \in Conns |-> 0]
    /\ channel = [c \in Conns |-> <<>>]
    /\ writer = [c \in Conns |-> "none"]
    /\ toGate = [c \in Conns |-> <<>>]
    /\ gate = [c \in Conns |-> "none"]
    /\ gateGot = [c \in Conns |-> <<>>]
    /\ answered = [c \in Conns |-> 0]
    /\ fromGate = [c \in Conns |-> <<>>]
    /\ reader = [c \in Conns |-> "none"]
    /\ refused = {}
    /\ sent = [c \in Conns |-> <<>>]
    /\ missed = {}

\* The bounded queue takes the message or, when it is full, refuses it; nobody
\* looks at the error and nothing is sent again.
Offer(c, complete) ==
    /\ \/ /\ sent' = [sent EXCEPT ![c] = Append(@, complete)]
          /\ UNCHANGED missed
       \/ /\ missed' = IF complete THEN missed \cup {c} ELSE missed
          /\ UNCHANGED sent
    /\ UNCHANGED refused

-----------------------------------------------------------------------------
(* The main loop, one message at a time: n is the message being handled.    *)

\* Mutant: positions counted from zero.
n_zero == Len(inbox)

n == Len(inbox) + 1

Refuse ==
    /\ refused' = refused \cup {n}
    /\ UNCHANGED told

Reads(i, what) ==
    /\ Len(inbox) < MaxMessages
    /\ inbox' = Append(inbox, [id |-> i, kind |-> what])

\* The envelope does not match the frame it carries.
Mismatch(i) ==
    /\ Reads(i, "mismatch")
    /\ Refuse
    /\ UNCHANGED <<sessions, opened, owner, channel, writer, toGate, gateSide,
                   fromGate, reader>>

\* The id is active, or the gate's socket refuses.
StartRefused(i) ==
    /\ Reads(i, "start")
    /\ Refuse
    /\ UNCHANGED <<sessions, opened, owner, channel, writer, toGate, gateSide,
                   fromGate, reader>>

\* Mutant: a start replaces the session of its id.
Free_always(i) == TRUE

Free(i) == sessions[i] = 0

\* connect: the socket, the two tasks and the first payload.
Start(i) ==
    LET c == opened + 1
    IN  /\ Reads(i, "start")
        /\ Free(i)
        /\ opened' = c
        /\ owner' = [owner EXCEPT ![c] = n]
        /\ sessions' = [sessions EXCEPT ![i] = c]
        /\ channel' = [channel EXCEPT ![c] = <<n>>]
        /\ writer' = [writer EXCEPT ![c] = "running"]
        /\ reader' = [reader EXCEPT ![c] = "running"]
        /\ gate' = [gate EXCEPT ![c] = "serving"]
        /\ UNCHANGED <<toGate, gateGot, answered, fromGate, refused, told>>

NotActive(i, what) ==
    /\ what \in {"frame", "close"}
    /\ sessions[i] = 0
    /\ Reads(i, what)
    /\ Refuse
    /\ UNCHANGED <<sessions, opened, owner, channel, writer, toGate, gateSide,
                   fromGate, reader>>

\* Mutant: a close leaves the session in the map.
Relay_keeps(i, what) ==
    LET c == sessions[i]
    IN  /\ what \in {"frame", "close"}
        /\ c # 0
        /\ Reads(i, what)
        /\ IF writer[c] = "running"
           THEN /\ channel' = [channel EXCEPT ![c] = Append(@, n)]
                /\ UNCHANGED <<refused, told>>
           ELSE /\ Refuse
                /\ UNCHANGED channel
        /\ UNCHANGED <<sessions, opened, owner, writer, toGate, gateSide,
                       fromGate, reader>>

\* session.send fails when the writer task has dropped its receiver.
Relay(i, what) ==
    LET c == sessions[i]
    IN  /\ what \in {"frame", "close"}
        /\ c # 0
        /\ Reads(i, what)
        /\ IF writer[c] = "running"
           THEN /\ channel' = [channel EXCEPT ![c] = Append(@, n)]
                /\ UNCHANGED <<refused, told>>
           ELSE /\ Refuse
                /\ UNCHANGED channel
        /\ sessions' = IF what = "close" THEN [sessions EXCEPT ![i] = 0]
                       ELSE sessions
        /\ UNCHANGED <<opened, owner, writer, toGate, gateSide, fromGate, reader>>

-----------------------------------------------------------------------------
(* The writer task.                                                         *)

\* The session lives in the map: dropping it closes the channel.
SenderGone(c) == \A i \in Ids : sessions[i] # c

\* A write to a socket the gate has closed fails and ends the task.
WriteFrame(c) ==
    /\ writer[c] = "running"
    /\ channel[c] # <<>>
    /\ channel' = [channel EXCEPT ![c] = Tail(@)]
    /\ IF gate[c] # "closed"
       THEN /\ toGate' = [toGate EXCEPT ![c] = Append(@, Head(channel[c]))]
            /\ UNCHANGED writer
       ELSE /\ writer' = [writer EXCEPT ![c] = "ended"]
            /\ UNCHANGED toGate
    /\ UNCHANGED <<loop, gateSide, fromGate, reader,
                   refused, told>>

\* recv() returns None; the write half of the socket goes with the task.
WriterEnds(c) ==
    /\ writer[c] = "running"
    /\ SenderGone(c)
    /\ channel[c] = <<>>
    /\ writer' = [writer EXCEPT ![c] = "ended"]
    /\ UNCHANGED <<loop, channel, toGate, gateSide, fromGate, reader,
                   refused, told>>

-----------------------------------------------------------------------------
(* The gate.                                                                *)

\* A frame's bytes may be for the PTY: run_pty writes them and is back at its
\* socket when the terminal took them, which a program that does not read puts
\* off for good.
GateReads(c) ==
    /\ gate[c] = "serving"
    /\ toGate[c] # <<>>
    /\ toGate' = [toGate EXCEPT ![c] = Tail(@)]
    /\ gateGot' = [gateGot EXCEPT ![c] = Append(@, Head(toGate[c]))]
    /\ \/ UNCHANGED gate
       \/ /\ inbox[Head(toGate[c])].kind = "frame"
          /\ gate' = [gate EXCEPT ![c] = "typing"]
    /\ UNCHANGED <<loop, channel, writer, answered, fromGate, reader,
                   refused, told>>

GateTyped(c) ==
    /\ gate[c] = "typing"
    /\ gate' = [gate EXCEPT ![c] = "serving"]
    /\ UNCHANGED <<loop, channel, writer, toGate, gateGot, answered, fromGate,
                   reader, refused, told>>

GateAnswers(c) ==
    /\ gate[c] = "serving"
    /\ answered[c] < MaxHostFrames
    /\ answered' = [answered EXCEPT ![c] = @ + 1]
    /\ fromGate' = [fromGate EXCEPT ![c] = Append(@, "frame")]
    /\ UNCHANGED <<loop, channel, writer, toGate, gate, gateGot, reader,
                   refused, told>>

\* Closed or Error, or the gate dies without either.
GateCloses(c) ==
    /\ gate[c] \in {"serving", "typing"}
    /\ gate' = [gate EXCEPT ![c] = "closed"]
    /\ \E last \in {<<>>, <<"final">>} :
          fromGate' = [fromGate EXCEPT ![c] = @ \o last]
    /\ UNCHANGED <<loop, channel, writer, toGate, gateGot, answered, reader,
                   refused, told>>

-----------------------------------------------------------------------------
(* The reader task.                                                         *)

\* Mutant: the task goes on after Closed or Error.
ReadFrame_endless(c) ==
    /\ reader[c] = "running"
    /\ fromGate[c] # <<>>
    /\ fromGate' = [fromGate EXCEPT ![c] = Tail(@)]
    /\ Offer(c, Head(fromGate[c]) = "final")
    /\ UNCHANGED <<loop, channel, writer, toGate, gateSide, reader>>

ReadFrame(c) ==
    /\ reader[c] = "running"
    /\ fromGate[c] # <<>>
    /\ fromGate' = [fromGate EXCEPT ![c] = Tail(@)]
    /\ Offer(c, Head(fromGate[c]) = "final")
    /\ reader' = IF Head(fromGate[c]) = "final"
                 THEN [reader EXCEPT ![c] = "ended"] ELSE reader
    /\ UNCHANGED <<loop, channel, writer, toGate, gateSide>>

\* Mutant: end of file is reported only if the gate answered before.
ReadEof_silent(c) ==
    /\ reader[c] = "running"
    /\ gate[c] = "closed" /\ fromGate[c] = <<>>
    /\ answered[c] > 0
    /\ Offer(c, TRUE)
    /\ reader' = [reader EXCEPT ![c] = "ended"]
    /\ UNCHANGED <<loop, channel, writer, toGate, gateSide, fromGate>>

ReadEof(c) ==
    /\ reader[c] = "running"
    /\ gate[c] = "closed" /\ fromGate[c] = <<>>
    /\ Offer(c, TRUE)
    /\ reader' = [reader EXCEPT ![c] = "ended"]
    /\ UNCHANGED <<loop, channel, writer, toGate, gateSide, fromGate>>

-----------------------------------------------------------------------------
Handle(i) ==
    \/ Mismatch(i) \/ StartRefused(i) \/ Start(i)
    \/ \E what \in {"frame", "close"} : NotActive(i, what) \/ Relay(i, what)

Writer(c) == WriteFrame(c) \/ WriterEnds(c)
Reader(c) == ReadFrame(c) \/ ReadEof(c)
Gate(c) ==
    \/ GateReads(c) \/ GateTyped(c) \/ GateAnswers(c) \/ GateCloses(c)

Next ==
    \/ \E i \in Ids : Handle(i)
    \/ \E c \in Conns : Writer(c) \/ Gate(c) \/ Reader(c)

Spec == Init /\ [][Next]_vars

(***************************************************************************)
(* The tasks are scheduled, and a gate that is back at its socket closes a *)
(* connection whose other side is gone (PeerGoneEndsSession in RootPty; a  *)
(* command has a timeout).  That it comes back from the write to its PTY   *)
(* is not assumed (GateTyped).                                             *)
(***************************************************************************)
Fairness ==
    \A c \in Conns :
        /\ WF_vars(Writer(c))
        /\ WF_vars(Reader(c))
        /\ WF_vars(GateReads(c))
        /\ WF_vars(/\ writer[c] = "ended" /\ toGate[c] = <<>>
                   /\ gate[c] = "serving"
                   /\ GateCloses(c))

LiveSpec == Spec /\ Fairness

-----------------------------------------------------------------------------
(* Properties.                                                              *)

Positions == 1 .. MaxMessages

TypeOK ==
    /\ inbox \in Seq([id : Ids, kind : Kinds])
    /\ sessions \in [Ids -> 0 .. MaxMessages]
    /\ opened \in 0 .. MaxMessages
    /\ owner \in [Conns -> 0 .. MaxMessages]
    /\ channel \in [Conns -> Seq(Positions)]
    /\ writer \in [Conns -> {"none", "running", "ended"}]
    /\ toGate \in [Conns -> Seq(Positions)]
    /\ gate \in [Conns -> {"none", "serving", "typing", "closed"}]
    /\ gateGot \in [Conns -> Seq(Positions)]
    /\ answered \in [Conns -> 0 .. MaxHostFrames]
    /\ fromGate \in [Conns -> Seq({"frame", "final"})]
    /\ reader \in [Conns -> {"none", "running", "ended"}]
    /\ refused \subseteq Positions
    /\ sent \in [Conns -> Seq(BOOLEAN)]
    /\ missed \subseteq Conns

IdOf(m) == inbox[m].id
KindOf(m) == inbox[m].kind

(* A connection carries one session: what the gate reads is the start       *)
(* message of its id and then every later frame of that id up to the close, *)
(* in order; nothing of another id, of an earlier session of the same id or *)
(* from after the close ever reaches it.                                    *)
GateSeesOneSession ==
    \A c \in Conns : \A k \in 1 .. Len(gateGot[c]) :
        LET m == gateGot[c][k]
        IN  IF k = 1 THEN m = owner[c]
            ELSE LET before == gateGot[c][k - 1]
                 IN  /\ before < m
                     /\ IdOf(m) = IdOf(owner[c])
                     /\ KindOf(m) \in {"frame", "close"}
                     /\ KindOf(before) # "close"
                     /\ \A between \in before + 1 .. m - 1 :
                            IdOf(between) = IdOf(m) =>
                                KindOf(between) \in {"start", "mismatch"}

(* A connection's reader task reports its end once, and nothing follows.  The *)
(* loop's own complete replies to frames for a dead session (main.rs:834-843) *)
(* are not the connection's and may come on top.                              *)
CompleteIsLast ==
    \A c \in Conns : \A k \in 1 .. Len(sent[c]) - 1 : ~sent[c][k]

(* One live connection per request id: a second start cannot open another   *)
(* one beside it before the first was closed by the control plane.          *)
OneConnectionPerId ==
    \A c, d \in 1 .. opened :
        (c < d /\ IdOf(owner[c]) = IdOf(owner[d])) =>
            \E m \in owner[c] + 1 .. owner[d] - 1 :
                IdOf(m) = IdOf(owner[c]) /\ KindOf(m) = "close"

(* The sessions of an id follow one another, and each sees its own messages. *)
SessionsDoNotMix == GateSeesOneSession /\ OneConnectionPerId

(* A connection that is given up, by the control plane or by the gate, is   *)
(* reported complete.  Two things only may keep the report away: the queue  *)
(* was full when the reader task offered it (client.rs ignores the error),  *)
(* or the gate stays in a write to a PTY that nobody reads.                 *)
Reported(c) == \E k \in 1 .. Len(sent[c]) : sent[c][k]

ClosedIsReported ==
    \A c \in Conns :
        (c <= opened /\ (SenderGone(c) \/ gate[c] = "closed"))
            ~> (Reported(c) \/ c \in missed \/ [](gate[c] = "typing"))
=============================================================================
