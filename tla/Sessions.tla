------------------------------ MODULE Sessions ------------------------------
(***************************************************************************)
(* Interactive sessions: host terminals and the container exec of          *)
(* terminal.rs, and the pod exec of k8s_exec.rs, kept in three places of   *)
(* the main loop.  A session's output is pumped into the queue; dropping a *)
(* session only closes its input, and what runs in it ends when it likes.  *)
(* The container exec has the empty id; a terminal and a pod exec may      *)
(* carry the same id.                                                      *)
(***************************************************************************)
EXTENDS Outgoing

CONSTANTS
    MaxSessions, \* bound: sessions started
    MaxPrinted   \* bound: pieces of output of a session

SessionsAssumption == MaxSessions \in Nat /\ MaxPrinted \in Nat

VARIABLES
    sessions, \* every session spawned
    mapped    \* for each kind, the session its map (or exec_session) holds, or 0

task == <<sessions, mapped>>

\* One id suffices: the maps of two ids never meet.
Kinds == {"terminal", "container", "pod"}
Session == [kind : Kinds, program : {"running", "busy", "ended"}, input : {"open", "closed"},
            pump : {"reading", "done"},
            supervisor : {"none", "pump", "join", "done", "aborted"},
            printed : 0 .. MaxPrinted, sent : 0 .. MaxPrinted]

Init ==
    /\ sessions = <<>>
    /\ mapped = [kind \in Kinds |-> 0]

Idle == sessions = <<>>

Data(k, n) == [type |-> "data", from |-> k, n |-> n]
Banner(k) == [type |-> "banner", from |-> k]

Set(k, field, value) == [sessions EXCEPT ![k][field] = value]

-----------------------------------------------------------------------------
(* The main loop.                                                           *)

Opened(kind) ==
    [kind |-> kind, program |-> "running", input |-> "open", pump |-> "reading",
     supervisor |-> IF kind = "pod" THEN "pump" ELSE "none", printed |-> 0, sent |-> 0]

\* Dropping a session closes its input; abort stops the supervisor alone.
Dropped(session) ==
    [session EXCEPT !.input = "closed",
                    !.supervisor = IF @ \in {"pump", "join"} THEN "aborted" ELSE @]

DropMapped(kind) ==
    IF mapped[kind] = 0 THEN sessions
    ELSE [sessions EXCEPT ![mapped[kind]] = Dropped(@)]

\* StartTerminalRequest: a no-op when the id is in the map; nothing is answered.
StartTerminal ==
    /\ Len(sessions) < MaxSessions
    /\ mapped["terminal"] = 0
    /\ sessions' = Append(sessions, Opened("terminal"))
    /\ mapped' = [mapped EXCEPT !["terminal"] = Len(sessions) + 1]
    /\ UNCHANGED outgoing

\* DockerExecStartRequest, K8sExecRequest: the previous session goes first, and
\* the request is answered whether or not the new one could be spawned.
StartExec(kind, ok) ==
    /\ Len(sessions) < MaxSessions
    /\ sessions' = IF ok THEN Append(DropMapped(kind), Opened(kind)) ELSE DropMapped(kind)
    /\ mapped' = [mapped EXCEPT ![kind] = IF ok THEN Len(sessions) + 1 ELSE 0]
    /\ Send(Other)

Stop(kinds) ==
    /\ \E kind \in kinds : mapped[kind] # 0
    /\ sessions' = [k \in DOMAIN sessions |->
          IF \E kind \in kinds : mapped[kind] = k THEN Dropped(sessions[k]) ELSE sessions[k]]
    /\ mapped' = [kind \in Kinds |-> IF kind \in kinds THEN 0 ELSE mapped[kind]]
    /\ UNCHANGED outgoing

\* StopTerminalRequest serves terminals and pods.
StopTerminal == Stop({"terminal", "pod"})

StopContainer == Stop({"container"})

-----------------------------------------------------------------------------
(* What runs in a session, and its pumps.                                   *)

Prints(k) ==
    /\ sessions[k].program # "ended"
    /\ sessions[k].printed < MaxPrinted
    /\ sessions' = [sessions EXCEPT ![k].printed = @ + 1]
    /\ UNCHANGED <<mapped, outgoing>>

\* The shell runs something that does not read its input, a tail -f: the newline
\* and ^D that a dropped terminal writes are never seen, and no hangup comes
\* because the reader thread keeps the master open.
Occupied(k) ==
    /\ sessions[k].program = "running"
    /\ sessions' = Set(k, "program", "busy")
    /\ UNCHANGED <<mapped, outgoing>>

Ends(k) ==
    /\ sessions[k].program # "ended"
    /\ sessions' = Set(k, "program", "ended")
    /\ UNCHANGED <<mapped, outgoing>>

\* A terminal's reader ignores a refusal; a pod's pump ends with it.
PumpData(k) ==
    LET s == sessions[k] IN
    /\ s.pump = "reading" /\ s.sent < s.printed
    /\ Send(Data(k, s.sent + 1))
    /\ sessions' = [sessions EXCEPT ![k].sent = @ + 1,
           ![k].pump = IF s.kind = "pod" /\ ~HasRoom THEN "done" ELSE @]
    /\ UNCHANGED mapped

PumpEof(k) ==
    LET s == sessions[k] IN
    /\ s.pump = "reading" /\ s.program = "ended" /\ s.sent = s.printed
    /\ sessions' = Set(k, "pump", "done")
    /\ UNCHANGED <<mapped, outgoing>>

\* Mutant: the supervisor does not wait for the pump.
PumpJoined_early(k) ==
    /\ sessions[k].supervisor = "pump"
    /\ sessions' = [sessions EXCEPT ![k].supervisor = "join"]
    /\ UNCHANGED <<mapped, outgoing>>

\* Mutant: the writer is not aborted when the pump has ended.
PumpJoined_holds(k) ==
    /\ sessions[k].supervisor = "pump" /\ sessions[k].pump = "done"
    /\ sessions' = [sessions EXCEPT ![k].supervisor = "join"]
    /\ UNCHANGED <<mapped, outgoing>>

\* read_handle returns: the writer is aborted, which closes the input.
PumpJoined(k) ==
    /\ sessions[k].supervisor = "pump" /\ sessions[k].pump = "done"
    /\ sessions' = [sessions EXCEPT ![k].supervisor = "join", ![k].input = "closed"]
    /\ UNCHANGED <<mapped, outgoing>>

\* attached.join() returns, and the banner says how the session ended.
SendBanner(k) ==
    /\ sessions[k].supervisor = "join" /\ sessions[k].program = "ended"
    /\ sessions' = Set(k, "supervisor", "done")
    /\ Send(Banner(k))
    /\ UNCHANGED mapped

Pump(k) == PumpData(k) \/ PumpEof(k)
Supervise(k) == PumpJoined(k) \/ SendBanner(k)

Next ==
    \/ StartTerminal \/ StopTerminal \/ StopContainer
    \/ \E kind \in {"container", "pod"}, ok \in BOOLEAN : StartExec(kind, ok)
    \/ \E k \in DOMAIN sessions :
          Prints(k) \/ Occupied(k) \/ Ends(k) \/ Pump(k) \/ Supervise(k)

\* A shell that reads its input ends with it; nothing obliges another program to.
EndsAtEof(k) ==
    /\ k \in DOMAIN sessions
    /\ sessions[k].input = "closed" /\ sessions[k].program = "running"
    /\ Ends(k)

Fairness ==
    \A k \in 1 .. MaxSessions :
        /\ WF_<<task, outgoing>>(EndsAtEof(k))
        /\ WF_<<task, outgoing>>(k \in DOMAIN sessions /\ Pump(k))
        /\ WF_<<task, outgoing>>(k \in DOMAIN sessions /\ Supervise(k))

-----------------------------------------------------------------------------
(* Properties.                                                              *)

TypeOK ==
    /\ sessions \in Seq(Session) /\ Len(sessions) <= MaxSessions
    /\ \A k \in DOMAIN sessions : sessions[k].sent <= sessions[k].printed
    /\ mapped \in [Kinds -> 0 .. Len(sessions)]

Said(k) == Select(Messaged, LAMBDA m : m.type \in {"data", "banner"} /\ m.from = k)

(* The banner is the last word of a pod session, after everything the         *)
(* container has printed unless a piece was refused, and it is never said of  *)
(* a session that was stopped or superseded before its output ended.         *)
BannerIsLast ==
    \A k \in DOMAIN sessions : \A n \in 1 .. Len(Said(k)) :
        Said(k)[n].type = "banner" =>
            /\ n = Len(Said(k))
            /\ ~refused => n = sessions[k].printed + 1
            /\ sessions[k].supervisor = "done" /\ sessions[k].pump = "done"

(* To hold in the end: a session that was stopped or superseded, and a pod    *)
(* session whose pump the full queue has ended, has no shell waiting for       *)
(* input, though a program that does not read it may run on (terminal.rs:      *)
(* 141-162); and when what ran in a session has ended, so have its pump and    *)
(* its supervisor.                                                           *)
SessionsWoundUp ==
    \A k \in DOMAIN sessions :
        /\ (sessions[k].input = "closed" \/ sessions[k].pump = "done") =>
               sessions[k].program # "running"
        /\ sessions[k].program = "ended" =>
               /\ sessions[k].pump = "done"
               /\ sessions[k].supervisor \in {"none", "done", "aborted"}
=============================================================================
