------------------------------ MODULE Restore ------------------------------
(***************************************************************************)
(* A restore (backup.rs, restore).  The body of the object is written into *)
(* tar's stdin chunk by chunk; tar's stderr is a pipe nobody reads until   *)
(* stdin is closed.  A local archive is read by tar itself, with both of   *)
(* its pipes drained.                                                      *)
(***************************************************************************)
EXTENDS Outgoing

CONSTANTS
    BodyChunks,  \* bound: chunks of an object's body
    MaxChunks,   \* SHELLFLEET_S3_RESTORE_MAX_BYTES, in chunks
    StdinRoom,   \* capacity of the pipe to tar
    StderrRoom   \* capacity of the pipe from tar

PipesAssumption ==
    /\ BodyChunks \in Nat /\ MaxChunks \in Nat
    /\ StdinRoom \in Nat \ {0} /\ StderrRoom \in Nat

VARIABLES
    phase,     \* the task: "idle", "checking", "pumping", "closing", "waiting", ...
    size,      \* chunks of the object's body
    fetched,   \* chunks of the body received
    chunk,     \* a chunk is being written to tar
    piped,     \* chunks in the pipe to tar
    stdinOpen,
    warned,    \* warnings in the pipe from tar
    tar,       \* "none", "running", "warning" (writes to stderr), "ok", "failed"
    extracted, \* chunks tar has consumed
    whole,     \* the body has ended without an error
    pipeError, \* pipe_err is set
    restored   \* what the response says

task == <<phase, size, fetched, chunk, piped, stdinOpen, warned, tar, extracted, whole,
          pipeError, restored>>
vars == <<task, outgoing>>

Init ==
    /\ phase = "idle"
    /\ size = 0 /\ fetched = 0 /\ chunk = FALSE
    /\ piped = 0 /\ stdinOpen = FALSE
    /\ warned = 0
    /\ tar = "none"
    /\ extracted = 0
    /\ whole = FALSE /\ pipeError = FALSE /\ restored = FALSE

Idle == phase = "idle"
Running == tar \in {"running", "warning"}

Request ==
    /\ Idle
    /\ phase' = "checking"
    /\ size' \in 0 .. BodyChunks
    /\ UNCHANGED <<fetched, chunk, piped, stdinOpen, warned, tar, extracted, whole,
                   pipeError, restored, outgoing>>

\* The root, the URI, GetObject or the spawn fails.
CheckFails ==
    /\ phase = "checking"
    /\ phase' = "responding"
    /\ UNCHANGED <<size, fetched, chunk, piped, stdinOpen, warned, tar, extracted, whole,
                   pipeError, restored, outgoing>>

\* A local archive: tar.output() drains both pipes while it waits.
RestoreLocal ==
    /\ phase = "checking"
    /\ phase' = "responding"
    /\ \E ok \in BOOLEAN :
          /\ restored' = ok /\ whole' = ok
          /\ tar' = IF ok THEN "ok" ELSE "failed"
          /\ extracted' = IF ok THEN size ELSE extracted
    /\ UNCHANGED <<size, fetched, chunk, piped, stdinOpen, warned, pipeError, outgoing>>

StartTar ==
    /\ phase = "checking"
    /\ phase' = "pumping"
    /\ tar' = "running" /\ stdinOpen' = TRUE
    /\ UNCHANGED <<size, fetched, chunk, piped, warned, extracted, whole, pipeError,
                   restored, outgoing>>

-----------------------------------------------------------------------------
(* tar.                                                                     *)

Extract ==
    /\ tar = "running"
    /\ piped > 0
    /\ piped' = piped - 1
    /\ extracted' = extracted + 1
    /\ tar' \in {"running", "warning"}
    /\ UNCHANGED <<phase, size, fetched, chunk, stdinOpen, warned, whole, pipeError,
                   restored, outgoing>>

\* wait_with_output drains the pipe; before it, nothing does.
Drained == phase = "waiting"

Warn ==
    /\ tar = "warning"
    /\ Drained \/ warned < StderrRoom
    /\ warned' = IF Drained THEN 0 ELSE warned + 1
    /\ tar' = "running"
    /\ UNCHANGED <<phase, size, fetched, chunk, piped, stdinOpen, extracted, whole,
                   pipeError, restored, outgoing>>

InputOver == ~stdinOpen /\ piped = 0

\* At the end of its input, where a cut archive is an error, or before it.
TarExits ==
    /\ tar = "running"
    /\ \/ tar' = "failed"
       \/ InputOver /\ extracted = size /\ tar' = "ok"
    /\ UNCHANGED <<phase, size, fetched, chunk, piped, stdinOpen, warned, extracted, whole,
                   pipeError, restored, outgoing>>

-----------------------------------------------------------------------------
(* The task.                                                                *)

Stop(error) ==
    /\ phase' = "closing"
    /\ pipeError' = error
    /\ whole' = ~error
    /\ UNCHANGED <<piped, stdinOpen, warned, tar, extracted, restored, outgoing>>

Fetch ==
    /\ phase = "pumping" /\ ~chunk
    /\ fetched < size
    /\ fetched' = fetched + 1 /\ UNCHANGED size
    /\ IF fetched' > MaxChunks
       THEN Stop(TRUE) /\ UNCHANGED chunk
       ELSE /\ chunk' = TRUE
            /\ UNCHANGED <<phase, piped, stdinOpen, warned, tar, extracted, whole,
                           pipeError, restored, outgoing>>

\* The body ends, or fails.
BodyEnds ==
    /\ phase = "pumping" /\ ~chunk
    /\ \/ fetched = size /\ Stop(FALSE)
       \/ Stop(TRUE)
    /\ UNCHANGED <<size, fetched, chunk>>

\* write_all waits for room and fails when tar is gone.
WriteChunk ==
    /\ phase = "pumping" /\ chunk
    /\ chunk' = FALSE
    /\ IF Running
       THEN /\ piped < StdinRoom
            /\ piped' = piped + 1
            /\ UNCHANGED <<phase, stdinOpen, warned, tar, extracted, whole, pipeError,
                           restored, outgoing>>
       ELSE Stop(TRUE)
    /\ UNCHANGED <<size, fetched>>

\* Mutant: stdin stays open when tar is waited for.
CloseStdin_open ==
    /\ phase = "closing"
    /\ stdinOpen' = stdinOpen
    /\ phase' = IF pipeError THEN "responding" ELSE "waiting"
    /\ tar' = IF pipeError /\ Running THEN "failed" ELSE tar
    /\ UNCHANGED <<size, fetched, chunk, piped, warned, extracted, whole, pipeError,
                   restored, outgoing>>

\* Stdin is shut down; after an error tar is killed and reaped.
CloseStdin ==
    /\ phase = "closing"
    /\ stdinOpen' = FALSE
    /\ phase' = IF pipeError THEN "responding" ELSE "waiting"
    /\ tar' = IF pipeError /\ Running THEN "failed" ELSE tar
    /\ UNCHANGED <<size, fetched, chunk, piped, warned, extracted, whole, pipeError,
                   restored, outgoing>>

\* Mutant: the exit status is not looked at.
TarReaped_unchecked ==
    /\ phase = "waiting" /\ ~Running
    /\ phase' = "responding"
    /\ restored' = TRUE
    /\ UNCHANGED <<size, fetched, chunk, piped, stdinOpen, warned, tar, extracted, whole,
                   pipeError, outgoing>>

TarReaped ==
    /\ phase = "waiting" /\ ~Running
    /\ phase' = "responding"
    /\ restored' = (tar = "ok")
    /\ UNCHANGED <<size, fetched, chunk, piped, stdinOpen, warned, tar, extracted, whole,
                   pipeError, outgoing>>

Respond ==
    /\ phase = "responding"
    /\ phase' = "done"
    /\ Send([type |-> "restore"])
    /\ UNCHANGED <<size, fetched, chunk, piped, stdinOpen, warned, tar, extracted, whole,
                   pipeError, restored>>

Next ==
    \/ Request \/ CheckFails \/ RestoreLocal \/ StartTar
    \/ Extract \/ Warn \/ TarExits
    \/ Fetch \/ BodyEnds \/ WriteChunk \/ CloseStdin \/ TarReaped \/ Respond

\* The bucket's client gives up on a body that stalls; tar works on its input.
Fairness ==
    /\ WF_vars(CheckFails \/ RestoreLocal \/ StartTar)
    /\ WF_vars(Extract) /\ WF_vars(Warn) /\ WF_vars(InputOver /\ TarExits)
    /\ WF_vars(Fetch \/ BodyEnds) /\ WF_vars(WriteChunk)
    /\ WF_vars(CloseStdin \/ TarReaped \/ Respond)

-----------------------------------------------------------------------------
(* Properties.                                                              *)

TypeOK ==
    /\ phase \in {"idle", "checking", "pumping", "closing", "waiting", "responding",
                  "done"}
    /\ size \in 0 .. BodyChunks /\ fetched \in 0 .. size /\ chunk \in BOOLEAN
    /\ piped \in 0 .. StdinRoom /\ stdinOpen \in BOOLEAN
    /\ warned \in 0 .. StderrRoom
    /\ tar \in {"none", "running", "warning", "ok", "failed"}
    /\ extracted \in 0 .. BodyChunks
    /\ whole \in BOOLEAN /\ pipeError \in BOOLEAN /\ restored \in BOOLEAN

(* A restore that says it succeeded has given tar the whole archive, and tar  *)
(* has accepted it; whatever it says, tar no longer runs when it says it.     *)
RestoredIsWhole ==
    phase \in {"responding", "done"} =>
        /\ restored => whole /\ tar = "ok" /\ extracted = size
        /\ ~Running

(* To hold in the end: the restore is answered, unless tar has filled the     *)
(* pipe of its warnings while its input was still being written.             *)
EndedUnlessBlocked ==
    phase \in {"idle", "done"} \/ (tar = "warning" /\ warned = StderrRoom)
=============================================================================
