------------------------------ MODULE ExecRun ------------------------------
(***************************************************************************)
(* One-shot command execution (exec.rs): a shell runs the command in a     *)
(* process group of its own, a reader task per pipe draws on one budget of *)
(* output, and the caller waits for the exit, the timeout or the limit,    *)
(* whichever select! sees first.  The command may leave a process behind:  *)
(* in its group, or out of it (setsid), holding the pipes or not.          *)
(***************************************************************************)
EXTENDS Outgoing, FiniteSets

CONSTANTS
    MaxWritten,  \* bound: units the processes write to one pipe
    OutputLimit, \* MAX_OUTPUT_BYTES, in units
    ReadSize     \* units one read may return

LimitsAssumption ==
    /\ MaxWritten \in Nat
    /\ OutputLimit \in Nat
    /\ ReadSize \in Nat \ {0}

VARIABLES
    alive,     \* processes that run: "shell" and what it left behind
    helper,    \* that process: "none", "grouped" or "escaped"
    holds,     \* the pipes the helper keeps open
    written,   \* units written to each pipe
    captured,  \* units of each pipe the readers have kept
    consumed,  \* units of each pipe the readers have read
    reader,    \* each reader: "reading", "done", "failed" or "aborted"
    budget,    \* units that may still be kept
    limited,   \* a read found the budget short
    limitSent, \* the message of limit_tx
    exec,      \* the caller: "idle", "waiting", "joining", "answering" or "done"
    timedOut,
    answer     \* the ExecResult

procs == <<alive, helper, holds>>
io == <<written, captured, consumed, reader, budget, limited, limitSent>>
task == <<procs, io, exec, timedOut, answer>>

ExecPipes == {"out", "err"}
NoAnswer == [error |-> FALSE, truncated |-> FALSE, timedOut |-> FALSE]
Blocked == [NoAnswer EXCEPT !.error = TRUE]

Init ==
    /\ alive = {} /\ helper = "none" /\ holds = {}
    /\ written = [p \in ExecPipes |-> 0]
    /\ captured = [p \in ExecPipes |-> 0]
    /\ consumed = [p \in ExecPipes |-> 0]
    /\ reader = [p \in ExecPipes |-> "reading"]
    /\ budget = OutputLimit
    /\ limited = FALSE /\ limitSent = FALSE
    /\ exec = "idle" /\ timedOut = FALSE
    /\ answer = NoAnswer

Idle == exec = "idle"

-----------------------------------------------------------------------------
(* The processes.                                                           *)

Writers(p) == alive \cap (IF p \in holds THEN {"shell", "helper"} ELSE {"shell"})

\* A write to a pipe whose reader is gone kills the writer (SIGPIPE).
Write(p) ==
    /\ written[p] < MaxWritten
    /\ \E w \in Writers(p) :
          IF reader[p] = "reading"
          THEN written' = [written EXCEPT ![p] = @ + 1] /\ UNCHANGED alive
          ELSE alive' = alive \ {w} /\ UNCHANGED written
    /\ UNCHANGED <<helper, holds, captured, consumed, reader, budget, limited,
                   limitSent, exec, timedOut, answer, outgoing>>

\* The command starts a process in the background.
Leave ==
    /\ "shell" \in alive /\ helper = "none"
    /\ helper' \in {"grouped", "escaped"}
    /\ holds' \in SUBSET ExecPipes
    /\ alive' = alive \cup {"helper"}
    /\ UNCHANGED <<io, exec, timedOut, answer, outgoing>>

Exit(w) ==
    /\ w \in alive
    /\ alive' = alive \ {w}
    /\ UNCHANGED <<helper, holds, io, exec, timedOut, answer, outgoing>>

\* Mutant: only the child is killed, not its group.
KillGroup_child == alive' = alive \ {"shell"}

\* kill(-pgid, SIGKILL) reaches the processes that stayed in the group.
KillGroup ==
    alive' = IF helper = "escaped" THEN alive \ {"shell"} ELSE {}

-----------------------------------------------------------------------------
(* read_to_limit.                                                           *)

Smaller(a, b) == IF a < b THEN a ELSE b

\* Mutant: the limit is announced to the caller and not remembered.
Read_unflagged(p) ==
    /\ reader[p] = "reading" /\ exec # "idle"
    /\ \E n \in 1 .. Smaller(ReadSize, written[p] - consumed[p]) :
          LET kept == Smaller(n, budget) IN
          /\ consumed' = [consumed EXCEPT ![p] = @ + n]
          /\ captured' = [captured EXCEPT ![p] = @ + kept]
          /\ budget' = budget - kept
          /\ IF kept < n
             THEN /\ limitSent' = TRUE
                  /\ reader' = [reader EXCEPT ![p] = "done"]
             ELSE UNCHANGED <<limitSent, reader>>
    /\ UNCHANGED <<procs, written, limited, exec, timedOut, answer, outgoing>>

\* One read, and the compare_exchange loop that reserves what may be kept of it.
Read(p) ==
    /\ reader[p] = "reading" /\ exec # "idle"
    /\ \E n \in 1 .. Smaller(ReadSize, written[p] - consumed[p]) :
          LET kept == Smaller(n, budget) IN
          /\ consumed' = [consumed EXCEPT ![p] = @ + n]
          /\ captured' = [captured EXCEPT ![p] = @ + kept]
          /\ budget' = budget - kept
          /\ IF kept < n
             THEN /\ limited' = TRUE /\ limitSent' = TRUE
                  /\ reader' = [reader EXCEPT ![p] = "done"]
             ELSE UNCHANGED <<limited, limitSent, reader>>
    /\ UNCHANGED <<procs, written, exec, timedOut, answer, outgoing>>

\* End of file, or an error of the read: what is unread is lost.
ReaderStops(p) ==
    /\ reader[p] = "reading" /\ exec \in {"waiting", "joining"}
    /\ \/ /\ Writers(p) = {} /\ consumed[p] = written[p]
          /\ reader' = [reader EXCEPT ![p] = "done"]
       \/ reader' = [reader EXCEPT ![p] = "failed"]
    /\ UNCHANGED <<procs, written, captured, consumed, budget, limited, limitSent,
                   exec, timedOut, answer, outgoing>>

-----------------------------------------------------------------------------
(* run.                                                                     *)

\* The allow-list refuses the command, or the shell cannot be spawned.
Refuse ==
    /\ Idle
    /\ exec' = "answering"
    /\ answer' = Blocked
    /\ UNCHANGED <<procs, io, timedOut, outgoing>>

Start ==
    /\ Idle
    /\ exec' = "waiting"
    /\ alive' = {"shell"}
    /\ UNCHANGED <<helper, holds, io, timedOut, answer, outgoing>>

Exited ==
    /\ exec = "waiting" /\ "shell" \notin alive
    /\ exec' = "joining"
    /\ UNCHANGED <<procs, io, timedOut, answer, outgoing>>

\* The timeout, or the limit: the group is killed and the child reaped.
TimesOut ==
    /\ exec = "waiting"
    /\ exec' = "joining" /\ timedOut' = TRUE
    /\ KillGroup
    /\ UNCHANGED <<helper, holds, io, answer, outgoing>>

LimitReached ==
    /\ exec = "waiting" /\ limitSent
    /\ exec' = "joining" /\ limitSent' = FALSE
    /\ KillGroup
    /\ UNCHANGED <<helper, holds, written, captured, consumed, reader, budget,
                   limited, timedOut, answer, outgoing>>

Joined(p) == reader[p] \in {"done", "failed"}

\* Mutant: what the aborted readers left unread is not counted as lost.
Result_optimistic == [error |-> \E p \in ExecPipes : reader[p] = "failed",
           truncated |-> limited \/ \E p \in ExecPipes : reader[p] = "failed",
           timedOut |-> timedOut]

Result == [error |-> \E p \in ExecPipes : reader[p] = "failed",
           truncated |-> limited \/ \E p \in ExecPipes : reader'[p] # "done",
           timedOut |-> timedOut]

\* Both readers end within the grace period.
JoinBoth ==
    /\ exec = "joining"
    /\ \A p \in ExecPipes : Joined(p)
    /\ exec' = "answering"
    /\ UNCHANGED <<procs, io, timedOut>>
    /\ answer' = Result
    /\ UNCHANGED outgoing

\* Mutant: no grace period, the readers are waited for.
GraceOver_patient == FALSE

\* The grace period ends first: the readers are aborted and the group is killed.
GraceOver ==
    /\ exec = "joining"
    /\ \E p \in ExecPipes : ~Joined(p)
    /\ reader' = [p \in ExecPipes |-> IF Joined(p) THEN reader[p] ELSE "aborted"]
    /\ KillGroup
    /\ exec' = "answering"
    /\ answer' = Result
    /\ UNCHANGED <<helper, holds, written, captured, consumed, budget, limited,
                   limitSent, timedOut, outgoing>>

Answer ==
    /\ exec = "answering"
    /\ exec' = "done"
    /\ Send([type |-> "result"])
    /\ UNCHANGED <<procs, io, timedOut, answer>>

Next ==
    \/ \E p \in ExecPipes : Write(p) \/ Read(p) \/ ReaderStops(p)
    \/ Leave \/ Exit("shell") \/ Exit("helper")
    \/ Refuse \/ Start \/ Exited \/ TimesOut \/ LimitReached
    \/ JoinBoth \/ GraceOver \/ Answer

\* Timers fire and ready tasks are polled; no process need end.
Fairness ==
    /\ \A p \in ExecPipes : WF_<<task, outgoing>>(Read(p))
    /\ WF_<<task, outgoing>>(TimesOut \/ Exited)
    /\ WF_<<task, outgoing>>(JoinBoth \/ GraceOver)
    /\ WF_<<task, outgoing>>(Answer)

-----------------------------------------------------------------------------
(* Properties.                                                              *)

TypeOK ==
    /\ alive \subseteq {"shell", "helper"}
    /\ helper \in {"none", "grouped", "escaped"} /\ holds \subseteq ExecPipes
    /\ written \in [ExecPipes -> 0 .. MaxWritten]
    /\ consumed \in [ExecPipes -> 0 .. MaxWritten]
    /\ captured \in [ExecPipes -> 0 .. OutputLimit]
    /\ reader \in [ExecPipes -> {"reading", "done", "failed", "aborted"}]
    /\ budget \in 0 .. OutputLimit
    /\ limited \in BOOLEAN /\ limitSent \in BOOLEAN /\ timedOut \in BOOLEAN
    /\ exec \in {"idle", "waiting", "joining", "answering", "done"}
    /\ answer \in [error : BOOLEAN, truncated : BOOLEAN, timedOut : BOOLEAN]

(* Two readers share one budget: what is kept never exceeds it, and what is  *)
(* left of it is what was not kept.                                          *)
BudgetIsShared == budget + captured["out"] + captured["err"] = OutputLimit

Answered == exec \in {"answering", "done"}

(* Output that was written and not kept is never lost in silence: an answer  *)
(* that is not marked truncated carries everything the command wrote,         *)
(* whichever of exit, timeout and limit came first.                          *)
OutputIsAccounted ==
    (Answered /\ ~answer.truncated) => captured = written

(* What outlives the answer in the command's own process group has let go of *)
(* the pipes, except one whose reader the limit ended; a command that timed   *)
(* out leaves nothing in its group.                                          *)
NoSurvivors ==
    (Answered /\ alive # {} /\ helper # "escaped") =>
        /\ ~answer.timedOut
        /\ alive = {"helper"}
        /\ \A p \in holds : reader[p] \in {"done", "failed"} /\ answer.truncated

(* To hold in the end: the command is answered; neither one that never ends   *)
(* nor one that leaves a process on its pipes keeps the caller waiting.      *)
IsAnswered == exec \in {"idle", "done"}
=============================================================================
