------------------------------- MODULE AptRun -------------------------------
(***************************************************************************)
(* A package upgrade (apt.rs).  The agent writes a wrapper script, records *)
(* the run in one journal file, starts the script as a transient systemd   *)
(* unit that outlives the agent, and polls a result file and systemctl     *)
(* until it can report.  An agent that restarts resumes the run in the     *)
(* journal; a request that finds a journal watches that run instead of     *)
(* starting one.                                                           *)
(***************************************************************************)
EXTENDS Naturals

CONSTANTS
    Requests,    \* AptUpgradeRequest messages, each its own task
    MaxRuns,     \* bound: units started
    MaxRestarts  \* bound: crashes of the agent

ASSUME ConstantsAssumption ==
    /\ "resume" \notin Requests
    /\ MaxRuns \in Nat /\ MaxRestarts \in Nat

VARIABLES
    up, restarts, \* the agent's process
    journal,  \* apt-run.json: the run it names, NoRun, or Torn
    script,   \* of each run: the wrapper exists
    log,      \* its log file: "absent", "whole", or "split" when the last
              \* APT_LOG_CAP bytes of it begin inside a character
    result,   \* its result file: "absent", "empty", "success" or "failed"
    begun,    \* history: run ids used
    contested, \* history: runs that two tasks worked on before they started
    unit,     \* "none", "queued", "apt", "finished", "opened", "written", "over"
    outcome,  \* how apt-get ended: "none", "success", "failed" or "killed"
    pc,       \* of each task, see Steps
    run,      \* the run a task starts or watches
    verdict,  \* what it is going to report
    reports   \* history: [task, run, verdict] given to the queue to the control
              \* plane, which may refuse it: an answer is not given twice

process == <<up, restarts>>
files == <<script, log, result>>
dpkg == <<unit, outcome>>
tasks == <<pc, run, verdict>>
history == <<begun, contested, reports>>
vars == <<process, journal, files, dpkg, tasks, history>>

Runs == 1 .. MaxRuns
NoRun == 0
Torn == MaxRuns + 1
Tasks == Requests \cup {"resume"}

Starting == {"script", "journal", "launch"}
Watching == {"tick", "flush", "check", "query", "clean", "clear"}
Steps == {"new", "done"} \cup Starting \cup Watching

Init ==
    /\ up = TRUE /\ restarts = 0
    /\ journal = NoRun
    /\ script = [r \in Runs |-> FALSE]
    /\ log = [r \in Runs |-> "absent"]
    /\ result = [r \in Runs |-> "absent"]
    /\ unit = [r \in Runs |-> "none"]
    /\ outcome = [r \in Runs |-> "none"]
    /\ pc = [t \in Tasks |-> IF t = "resume" THEN "done" ELSE "new"]
    /\ run = [t \in Tasks |-> NoRun]
    /\ verdict = [t \in Tasks |-> "none"]
    /\ begun = 0
    /\ contested = {}
    /\ reports = {}

Goto(t, step) == pc' = [pc EXCEPT ![t] = step]

Report(t, v) ==
    reports' = reports \cup {[task |-> t, run |-> run[t], verdict |-> v]}

-----------------------------------------------------------------------------
(* The transient unit: /bin/sh on the wrapper script.                       *)

\* Without its script the shell fails at once.
UnitStarts(r) ==
    /\ unit[r] = "queued"
    /\ IF script[r]
       THEN /\ unit' = [unit EXCEPT ![r] = "apt"]
            /\ log' = [log EXCEPT ![r] = "whole"]
            /\ UNCHANGED outcome
       ELSE /\ unit' = [unit EXCEPT ![r] = "over"]
            /\ outcome' = [outcome EXCEPT ![r] = "failed"]
            /\ UNCHANGED log
    /\ UNCHANGED <<process, journal, script, result, tasks, history>>

\* What apt-get prints goes to the log, and the script's last words after the
\* result; unless it was unlinked.
LogGrows(r) ==
    /\ unit[r] \in {"apt", "written"}
    /\ log[r] # "absent"
    /\ \E cut \in {"whole", "split"} : log' = [log EXCEPT ![r] = cut]
    /\ UNCHANGED <<process, journal, script, result, dpkg, tasks, history>>

\* apt-get and, if it fails, the dpkg recovery.
AptFinishes(r) ==
    /\ unit[r] = "apt"
    /\ unit' = [unit EXCEPT ![r] = "finished"]
    /\ \E v \in {"success", "failed"} : outcome' = [outcome EXCEPT ![r] = v]
    /\ UNCHANGED <<process, journal, files, tasks, history>>

\* printf > "$RESULT_FILE": the shell creates the file ...
OpenResult(r) ==
    /\ unit[r] = "finished"
    /\ unit' = [unit EXCEPT ![r] = "opened"]
    /\ result' = [result EXCEPT ![r] = "empty"]
    /\ UNCHANGED <<process, journal, script, log, outcome, tasks, history>>

\* ... and then writes to it, though it may be unlinked by now.
WriteResult(r) ==
    /\ unit[r] = "opened"
    /\ unit' = [unit EXCEPT ![r] = "written"]
    /\ result' = [result EXCEPT ![r] = IF @ = "empty" THEN outcome[r] ELSE @]
    /\ UNCHANGED <<process, journal, script, log, outcome, tasks, history>>

UnitExits(r) ==
    /\ unit[r] = "written"
    /\ unit' = [unit EXCEPT ![r] = "over"]
    /\ UNCHANGED <<process, journal, files, outcome, tasks, history>>

\* Killed from outside before it wrote its result.
UnitKilled(r) ==
    /\ unit[r] \in {"queued", "apt"}
    /\ unit' = [unit EXCEPT ![r] = "over"]
    /\ outcome' = [outcome EXCEPT ![r] = "killed"]
    /\ UNCHANGED <<process, journal, files, tasks, history>>

\* systemd unloads a transient unit that succeeded, and keeps a failed one.
NotFound(r) ==
    unit[r] = "none" \/ (unit[r] = "over" /\ outcome[r] = "success")

Failed(r) == unit[r] = "over" /\ outcome[r] # "success"

-----------------------------------------------------------------------------
(* upgrade and start_systemd_run.                                           *)

\* Runs whose unit a task is about to start.
Launching == {run[t] : t \in {u \in Tasks : pc[u] \in {"journal", "launch"}}}

\* read_state; a torn journal does not parse.
BeginUpgrade(t) ==
    /\ up
    /\ t \in Requests
    /\ pc[t] = "new"
    /\ IF journal \in Runs
       THEN /\ run' = [run EXCEPT ![t] = journal]
            /\ contested' = contested \cup ({journal} \cap Launching)
            /\ Goto(t, "tick")
       ELSE /\ Goto(t, "script")
            /\ UNCHANGED <<run, contested>>
    /\ UNCHANGED <<process, journal, files, dpkg, verdict, begun, reports>>

\* A run id is the second and the agent's pid: a new one, or that of a task
\* that is starting in the same second.  write_upgrade_script.
WriteScript(t) ==
    /\ up
    /\ pc[t] = "script"
    /\ \E r \in {begun + 1} \cup Launching :
          /\ r \in Runs
          /\ begun' = IF r > begun THEN r ELSE begun
          /\ run' = [run EXCEPT ![t] = r]
          /\ contested' = contested \cup ({r} \cap Launching)
          /\ script' = [script EXCEPT ![r] = TRUE]
    /\ Goto(t, "journal")
    /\ UNCHANGED <<process, journal, log, result, dpkg, verdict, reports>>

\* A refused package name or an unwritable directory.
StartRefused(t) ==
    /\ up
    /\ pc[t] = "script"
    /\ Goto(t, "done")
    /\ Report(t, "refused")
    /\ UNCHANGED <<process, journal, files, dpkg, run, verdict, begun, contested>>

\* write_state: the file is truncated, then written.
TruncateJournal(t) ==
    /\ up
    /\ pc[t] = "journal"
    /\ journal # Torn
    /\ journal' = Torn
    /\ UNCHANGED <<process, files, dpkg, tasks, history>>

WriteJournal(t) ==
    /\ up
    /\ pc[t] = "journal"
    /\ journal = Torn
    /\ journal' = run[t]
    /\ Goto(t, "launch")
    /\ UNCHANGED <<process, files, dpkg, run, verdict, history>>

Launch(t) ==
    /\ up
    /\ pc[t] = "launch"
    /\ unit[run[t]] = "none"
    /\ unit' = [unit EXCEPT ![run[t]] = "queued"]
    /\ Goto(t, "tick")
    /\ UNCHANGED <<process, journal, files, outcome, run, verdict, history>>

RemoveFiles(r) ==
    /\ script' = [script EXCEPT ![r] = FALSE]
    /\ log' = [log EXCEPT ![r] = "absent"]
    /\ result' = [result EXCEPT ![r] = "absent"]

\* systemd-run refuses, for one because the unit exists.
LaunchRefused(t) ==
    /\ up
    /\ pc[t] = "launch"
    /\ RemoveFiles(run[t])
    /\ journal' = NoRun
    /\ Goto(t, "done")
    /\ Report(t, "refused")
    /\ UNCHANGED <<process, dpkg, run, verdict, begun, contested>>

\* systemd-run cannot be spawned: `?` leaves the files and the journal.
LaunchFails(t) ==
    /\ up
    /\ pc[t] = "launch"
    /\ Goto(t, "done")
    /\ Report(t, "refused")
    /\ UNCHANGED <<process, journal, files, dpkg, run, verdict, begun, contested>>

-----------------------------------------------------------------------------
(* watch_systemd_run, one iteration per tick.                               *)

\* The log is copied into the journal ...
Tick(t) ==
    /\ up
    /\ pc[t] = "tick"
    /\ \/ log[run[t]] = "whole" /\ journal' = Torn /\ Goto(t, "flush")
       \/ log[run[t]] = "absent" /\ UNCHANGED journal /\ Goto(t, "check")
    /\ UNCHANGED <<process, files, dpkg, run, verdict, history>>

\* truncate_log panics when its cut is no character boundary: the task ends
\* without a word, and the journal stays.
TickPanics(t) ==
    /\ up
    /\ pc[t] = "tick"
    /\ log[run[t]] = "split"
    /\ Goto(t, "done")
    /\ UNCHANGED <<process, journal, files, dpkg, run, verdict, history>>

\* ... whichever run it named when it was truncated.
FlushJournal(t) ==
    /\ up
    /\ pc[t] = "flush"
    /\ journal' = run[t]
    /\ Goto(t, "check")
    /\ UNCHANGED <<process, files, dpkg, run, verdict, history>>

\* Mutant: any result that is not a failure counts as success.
VerdictOf_lenient(content) ==
    IF content = "failed" THEN "failed" ELSE "success"

VerdictOf(content) == IF content = "success" THEN "success" ELSE "failed"

CheckResult(t) ==
    /\ up
    /\ pc[t] = "check"
    /\ IF result[run[t]] = "absent"
       THEN Goto(t, "query") /\ UNCHANGED verdict
       ELSE /\ verdict' = [verdict EXCEPT ![t] = VerdictOf(result[run[t]])]
            /\ Goto(t, "clean")
    /\ UNCHANGED <<process, journal, files, dpkg, run, history>>

\* Mutant: a unit that is not active yet counts as gone.
Gone_inactive(r) == NotFound(r) \/ Failed(r) \/ unit[r] = "queued"

\* Mutant: only a failed unit counts as gone.
Gone_failed(r) == Failed(r)

Gone(r) == NotFound(r) \/ Failed(r)

\* The result is not read again: it may have been written since.
QueryUnit(t) ==
    /\ up
    /\ pc[t] = "query"
    /\ IF Gone(run[t])
       THEN /\ verdict' = [verdict EXCEPT ![t] = "lost"]
            /\ Goto(t, "clean")
       ELSE Goto(t, "tick") /\ UNCHANGED verdict
    /\ UNCHANGED <<process, journal, files, dpkg, run, history>>

\* systemctl fails or cannot be spawned.
QueryFails(t) ==
    /\ up
    /\ pc[t] = "query"
    /\ Goto(t, "tick")
    /\ UNCHANGED <<process, journal, files, dpkg, run, verdict, history>>

\* cleanup_run_files.
CleanFiles(t) ==
    /\ up
    /\ pc[t] = "clean"
    /\ RemoveFiles(run[t])
    /\ Goto(t, "clear")
    /\ UNCHANGED <<process, journal, dpkg, run, verdict, history>>

\* clear_state, and the response.
ClearJournal(t) ==
    /\ up
    /\ pc[t] = "clear"
    /\ journal' = NoRun
    /\ Goto(t, "done")
    /\ Report(t, verdict[t])
    /\ UNCHANGED <<process, files, dpkg, run, verdict, begun, contested>>

-----------------------------------------------------------------------------
(* The agent's process.                                                     *)

\* A crash, or the restart that an upgrade of the agent itself brings about.
Crash ==
    /\ up
    /\ restarts < MaxRestarts
    /\ up' = FALSE
    /\ restarts' = restarts + 1
    /\ pc' = [t \in Tasks |-> IF pc[t] = "new" THEN "new" ELSE "done"]
    /\ UNCHANGED <<journal, files, dpkg, run, verdict, history>>

\* Mutant: the journal is believed without parsing it.
Restart_unparsed ==
    /\ ~up
    /\ up' = TRUE
    /\ IF journal # NoRun
       THEN /\ run' = [run EXCEPT !["resume"] = journal]
            /\ Goto("resume", "check")
       ELSE UNCHANGED <<pc, run>>
    /\ UNCHANGED <<restarts, journal, files, dpkg, verdict, history>>

\* pending_run, resume_pending_upgrade.
Restart ==
    /\ ~up
    /\ up' = TRUE
    /\ IF journal \in Runs
       THEN /\ run' = [run EXCEPT !["resume"] = journal]
            /\ Goto("resume", "tick")
       ELSE UNCHANGED <<pc, run>>
    /\ UNCHANGED <<restarts, journal, files, dpkg, verdict, history>>

-----------------------------------------------------------------------------
Unit(r) ==
    \/ UnitStarts(r) \/ LogGrows(r) \/ AptFinishes(r) \/ OpenResult(r) \/ WriteResult(r)
    \/ UnitExits(r) \/ UnitKilled(r)

Start(t) ==
    \/ BeginUpgrade(t) \/ WriteScript(t) \/ StartRefused(t)
    \/ TruncateJournal(t) \/ WriteJournal(t)
    \/ Launch(t) \/ LaunchRefused(t) \/ LaunchFails(t)

Watch(t) ==
    \/ Tick(t) \/ TickPanics(t) \/ FlushJournal(t) \/ CheckResult(t)
    \/ QueryUnit(t) \/ CleanFiles(t) \/ ClearJournal(t)

Next ==
    \/ \E r \in Runs : Unit(r)
    \/ \E t \in Tasks : Start(t) \/ Watch(t) \/ QueryFails(t)
    \/ Crash \/ Restart

Spec == Init /\ [][Next]_vars

(***************************************************************************)
(* The ticker keeps ticking, systemctl answers now and then, and systemd   *)
(* restarts the agent.  Nothing is assumed of apt-get, which may hang.     *)
(***************************************************************************)
Fairness ==
    /\ \A t \in Tasks : WF_vars(Watch(t)) /\ SF_vars(QueryUnit(t))
    /\ WF_vars(Restart)

LiveSpec == Spec /\ Fairness

-----------------------------------------------------------------------------
(* Properties.                                                              *)

Verdicts == {"success", "failed", "lost", "refused"}

TypeOK ==
    /\ up \in BOOLEAN /\ restarts \in 0 .. MaxRestarts
    /\ journal \in Runs \cup {NoRun, Torn}
    /\ script \in [Runs -> BOOLEAN]
    /\ log \in [Runs -> {"absent", "whole", "split"}]
    /\ result \in [Runs -> {"absent", "empty", "success", "failed"}]
    /\ begun \in 0 .. MaxRuns /\ contested \subseteq Runs
    /\ unit \in [Runs -> {"none", "queued", "apt", "finished", "opened",
                          "written", "over"}]
    /\ outcome \in [Runs -> {"none", "success", "failed", "killed"}]
    /\ pc \in [Tasks -> Steps]
    /\ run \in [Tasks -> Runs \cup {NoRun}]
    /\ verdict \in [Tasks -> Verdicts \cup {"none"}]
    /\ reports \subseteq
          [task : Tasks, run : Runs \cup {NoRun}, verdict : Verdicts]

(* A success that is reported happened: apt-get or its recovery returned    *)
(* zero in that run, however many watchers, restarts and half-written       *)
(* result files there were.                                                 *)
SuccessIsReal ==
    \A p \in reports : p.verdict = "success" => outcome[p.run] = "success"

(* "Only report once dpkg is finished" (main.rs:669): no verdict on a run   *)
(* while its unit waits to start or apt-get runs in it, unless a second     *)
(* request joined the run before its unit was started.                      *)
ReportsAfterDpkg ==
    \A p \in reports :
        p.verdict \in {"success", "failed", "lost"} /\ p.run \notin contested =>
            unit[p.run] \notin {"queued", "apt"}

(* What is reported of a run is true of it, and said after it.  It speaks of  *)
(* the run: the answer names the package that was asked for, also when the    *)
(* request joined another's run (main.rs:1684-1687).                         *)
VerdictsAreReal == SuccessIsReal /\ ReportsAfterDpkg

\* The unit has ended, or its start was lost and will not come.
Settled(r) ==
    \/ unit[r] = "over"
    \/ unit[r] = "none" /\ \A t \in Tasks : pc[t] \in Starting => run[t] # r

Answered(t) == pc[t] = "done" /\ \E p \in reports : p.task = t /\ p.run = run[t]

(* A task that watches a run whose unit is over answers its request or dies *)
(* with the agent, even when another watcher or an earlier life of the      *)
(* agent has removed the files it looks for; unless the log that the run    *)
(* left makes truncate_log panic (apt.rs:170).  The queue may still refuse  *)
(* the answer (main.rs:675, 1686).                                          *)
WatchersReport ==
    \A t \in Tasks :
        (pc[t] \in Watching /\ Settled(run[t]) /\ log[run[t]] # "split")
            ~> (~up \/ Answered(t))

(* "If a run was in flight when we exited, we resume watching" (apt.rs:73): *)
(* while the agent is down the journal names the unit that runs.            *)
InFlightRunIsJournaled ==
    ~up => \A r \in Runs :
              unit[r] \in {"queued", "apt", "finished"} /\ begun = r => journal = r

(* "Instead of marking the upgrade failed" (apt.rs:75): a run that succeeds *)
(* is not reported as failed.                                               *)
FailureIsReal ==
    \A p \in reports :
        p.verdict \in {"failed", "lost"} => outcome[p.run] # "success"
=============================================================================
